---------------------------- MODULE CallContract ----------------------------
(***************************************************************************)
(* What the caller of a remote method may rely on, whatever happens on the *)
(* way: at most one request is handed to the network, at most one answer   *)
(* comes back, the call is settled once with a verdict its exchange        *)
(* justifies, and a response is held only while the call works on it or,   *)
(* after a value was returned, until the caller releases it; the response  *)
(* of a success whose value could not be made may be lost.                 *)
(***************************************************************************)
CONSTANT Calls

VARIABLES
    phase,     \* "idle", "running", "settled"
    exchange,  \* "unsent", "sent", "succeeded", "failed"
    verdict,   \* "none", "refused", "value", "failure", "broken", "cancelled"
    held       \* whether a response is open on behalf of the call

vars == <<phase, exchange, verdict, held>>

Init ==
    /\ phase = [c \in Calls |-> "idle"]
    /\ exchange = [c \in Calls |-> "unsent"]
    /\ verdict = [c \in Calls |-> "none"]
    /\ held = [c \in Calls |-> FALSE]

Start(c) ==
    /\ phase[c] = "idle"
    /\ phase' = [phase EXCEPT ![c] = "running"]
    /\ UNCHANGED <<exchange, verdict, held>>

Refuse(c) ==
    /\ phase[c] = "idle"
    /\ phase' = [phase EXCEPT ![c] = "settled"]
    /\ verdict' = [verdict EXCEPT ![c] = "refused"]
    /\ UNCHANGED <<exchange, held>>

Transmit(c) ==
    /\ phase[c] = "running" /\ exchange[c] = "unsent"
    /\ exchange' = [exchange EXCEPT ![c] = "sent"]
    /\ UNCHANGED <<phase, verdict, held>>

Reply(c) ==
    /\ phase[c] = "running" /\ exchange[c] = "sent"
    /\ \E x \in {"succeeded", "failed"} : exchange' = [exchange EXCEPT ![c] = x]
    /\ held' = [held EXCEPT ![c] = TRUE]
    /\ UNCHANGED <<phase, verdict>>

Settle(c, v) ==
    /\ phase[c] = "running"
    /\ phase' = [phase EXCEPT ![c] = "settled"]
    /\ verdict' = [verdict EXCEPT ![c] = v]

ReturnValue(c) ==
    /\ exchange[c] = "succeeded"
    /\ Settle(c, "value")
    /\ \E h \in BOOLEAN : held' = [held EXCEPT ![c] = h]
    /\ UNCHANGED exchange

ReportFailure(c) ==
    /\ exchange[c] = "failed"
    /\ Settle(c, "failure")
    /\ held' = [held EXCEPT ![c] = FALSE]
    /\ UNCHANGED exchange

\* An exception at any point, the sending included.
Break(c) ==
    /\ \E v \in {"broken", "cancelled"} : Settle(c, v)
    /\ held' = [held EXCEPT ![c] = FALSE]
    /\ \/ UNCHANGED exchange
       \/ exchange[c] = "unsent" /\ exchange' = [exchange EXCEPT ![c] = "sent"]

\* The response belongs to a value that the caller never gets.
Lose(c) ==
    /\ exchange[c] = "succeeded" /\ held[c]
    /\ Settle(c, "broken")
    /\ UNCHANGED <<exchange, held>>

Release(c) ==
    /\ verdict[c] = "value" /\ held[c]
    /\ held' = [held EXCEPT ![c] = FALSE]
    /\ UNCHANGED <<phase, exchange, verdict>>

Next ==
    \E c \in Calls :
        \/ Start(c) \/ Refuse(c) \/ Transmit(c) \/ Reply(c)
        \/ ReturnValue(c) \/ ReportFailure(c) \/ Break(c)
        \/ Lose(c) \/ Release(c)

Spec == Init /\ [][Next]_vars
=============================================================================
