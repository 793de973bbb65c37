-------------------------- MODULE RemoteInvocation --------------------------
(***************************************************************************)
(* What an invocation of a contract's method amounts to, seen from both    *)
(* ends at once: the operation takes effect at most once, the caller is    *)
(* told at most one thing, and what it is told bounds what has happened    *)
(* and what still may. A value means that the operation has returned, a    *)
(* refusal or a failure that it will not be executed from now on; of any   *)
(* other exception the caller can conclude nothing.                        *)
(***************************************************************************)
CONSTANT Calls

VARIABLES
    effect, \* "none", "running", "returned", "threw": the service method's
    told    \* "nothing", "refused", "value", "failure", "unknown": the caller's

vars == <<effect, told>>

Init ==
    /\ effect = [c \in Calls |-> "none"]
    /\ told = [c \in Calls |-> "nothing"]

\* A request under way outlives the caller's interest in it.
Execute(c) ==
    /\ effect[c] = "none"
    /\ told[c] \in {"nothing", "unknown"}
    /\ effect' = [effect EXCEPT ![c] = "running"]
    /\ UNCHANGED told

Finish(c) ==
    /\ effect[c] = "running"
    /\ \E e \in {"returned", "threw"} : effect' = [effect EXCEPT ![c] = e]
    /\ UNCHANGED told

Tell(c, what) ==
    /\ told[c] = "nothing"
    /\ told' = [told EXCEPT ![c] = what]
    /\ UNCHANGED effect

TellRefusal(c) == effect[c] = "none" /\ Tell(c, "refused")
TellValue(c) == effect[c] = "returned" /\ Tell(c, "value")
TellFailure(c) == effect[c] # "running" /\ Tell(c, "failure")
TellNothingCertain(c) == Tell(c, "unknown")

Next ==
    \E c \in Calls :
        \/ Execute(c) \/ Finish(c)
        \/ TellRefusal(c) \/ TellValue(c) \/ TellFailure(c) \/ TellNothingCertain(c)

Spec == Init /\ [][Next]_vars
=============================================================================
