------------------------ MODULE ClientCallRefinement ------------------------
(***************************************************************************)
(* ClientCall implements CallContract: whatever the other calls do with    *)
(* the options and the uploads they share, each step of a call is one step *)
(* of the contract or none.                                                *)
(***************************************************************************)
EXTENDS ClientCallProofs

USE DEF Contents, Results, Resolvers, Steps, Exceptions, Kinds, OpenResponses, Outcomes

VerdictOf(c) == Verdict[outcome[c].kind]
HeldOf(c) == response[c] \in OpenResponses

\* The contract's variables, call by call.
LEMMA BarsOf ==
    ASSUME NEW c \in Calls
    PROVE  /\ phaseBar[c] = PhaseOf(c) /\ exchangeBar[c] = ExchangeOf(c)
           /\ verdictBar[c] = VerdictOf(c) /\ heldBar[c] = HeldOf(c)
           /\ phaseBar = [phaseBar EXCEPT ![c] = PhaseOf(c)]
           /\ exchangeBar = [exchangeBar EXCEPT ![c] = ExchangeOf(c)]
           /\ verdictBar = [verdictBar EXCEPT ![c] = VerdictOf(c)]
           /\ heldBar = [heldBar EXCEPT ![c] = HeldOf(c)]
BY DEF phaseBar, exchangeBar, verdictBar, heldBar, VerdictOf, HeldOf

\* A step of a call changes the contract's variables at that call only.
LEMMA BarsOfOthers ==
    ASSUME TypeOK, NEW c \in Calls, Footprint(c)
    PROVE  /\ phaseBar' = [phaseBar EXCEPT ![c] = PhaseOf(c)']
           /\ exchangeBar' = [exchangeBar EXCEPT ![c] = ExchangeOf(c)']
           /\ verdictBar' = [verdictBar EXCEPT ![c] = VerdictOf(c)']
           /\ heldBar' = [heldBar EXCEPT ![c] = HeldOf(c)']
<1>1. \A d \in Calls \ {c} :
         /\ PhaseOf(d)' = PhaseOf(d) /\ ExchangeOf(d)' = ExchangeOf(d)
         /\ VerdictOf(d)' = VerdictOf(d) /\ HeldOf(d)' = HeldOf(d)
  BY DEF Footprint, PhaseOf, ExchangeOf, VerdictOf, HeldOf, Settled, Sent, Answered, IsSuccess
<1>2. phaseBar' = [phaseBar EXCEPT ![c] = PhaseOf(c)'] BY <1>1 DEF phaseBar
<1>3. exchangeBar' = [exchangeBar EXCEPT ![c] = ExchangeOf(c)'] BY <1>1 DEF exchangeBar
<1>4. verdictBar' = [verdictBar EXCEPT ![c] = VerdictOf(c)'] BY <1>1 DEF verdictBar, VerdictOf
<1>5. heldBar' = [heldBar EXCEPT ![c] = HeldOf(c)'] BY <1>1 DEF heldBar, HeldOf
<1>. QED BY <1>2, <1>3, <1>4, <1>5

\* A call that is unchanged in what the contract sees stutters.
LEMMA Stutters ==
    ASSUME TypeOK, NEW c \in Calls, Footprint(c),
           PhaseOf(c)' = PhaseOf(c), ExchangeOf(c)' = ExchangeOf(c),
           VerdictOf(c)' = VerdictOf(c), HeldOf(c)' = HeldOf(c)
    PROVE  UNCHANGED Contract!vars
BY BarsOf, BarsOfOthers DEF Contract!vars

\* A step that throws is the contract's Break.
LEMMA ThrowBreaks ==
    ASSUME TypeOK, NEW c \in Calls, Footprint(c), Working(c), NEW e \in Exceptions,
           Throw(c, e), pc[c] \notin {"idle", "done"},
           \/ UNCHANGED sends
           \/ Unsent(c) /\ sends'[c] = 1
    PROVE  Contract!Break(c)
<1>1. PhaseOf(c) = "running" /\ PhaseOf(c)' = "settled"
  BY DEF PhaseOf, Settled, Throw, Leave, TypeOK
<1>2. VerdictOf(c)' \in {"broken", "cancelled"}
  BY CaughtType DEF VerdictOf, Verdict, Throw, Leave, Caught, Outcome, TypeOK
<1>3. HeldOf(c)' = FALSE
  <2>1. response'[c] \in {"none", "disposed"} BY DEF Throw, Leave, Disposed, TypeOK
  <2>. QED BY <2>1 DEF HeldOf
<1>4. \/ ExchangeOf(c)' = ExchangeOf(c)
      \/ ExchangeOf(c) = "unsent" /\ ExchangeOf(c)' = "sent"
  <2>1. answer' = answer BY DEF Throw, Leave
  <2>2. CASE UNCHANGED sends
    BY <2>1, <2>2 DEF ExchangeOf, Sent, Answered, IsSuccess
  <2>3. CASE Unsent(c) /\ sends'[c] = 1
    BY <2>1, <2>3 DEF ExchangeOf, Sent, Answered, Unsent
  <2>. QED BY <2>2, <2>3
<1>5. phaseBar[c] = "running" /\ phaseBar' = [phaseBar EXCEPT ![c] = "settled"]
  BY <1>1, BarsOf, BarsOfOthers
<1>6. \E v \in {"broken", "cancelled"} : verdictBar' = [verdictBar EXCEPT ![c] = v]
  BY <1>2, BarsOf, BarsOfOthers
<1>7. heldBar' = [heldBar EXCEPT ![c] = FALSE] BY <1>3, BarsOf, BarsOfOthers
<1>8. \/ UNCHANGED exchangeBar
      \/ exchangeBar[c] = "unsent" /\ exchangeBar' = [exchangeBar EXCEPT ![c] = "sent"]
  BY <1>4, BarsOf, BarsOfOthers
<1>. QED BY <1>5, <1>6, <1>7, <1>8 DEF Contract!Break, Contract!Settle

\* A step that returns is the contract's ReturnValue.
LEMMA ReturnsValue ==
    ASSUME TypeOK, NEW c \in Calls, Footprint(c), Working(c), pc[c] = "read",
           NEW r, Leave(c, Returned, r), UNCHANGED sends
    PROVE  Contract!ReturnValue(c)
<1>1. PhaseOf(c) = "running" /\ PhaseOf(c)' = "settled"
  BY DEF PhaseOf, Settled, Leave, TypeOK
<1>2. VerdictOf(c)' = "value"
  BY DEF VerdictOf, Verdict, Leave, Returned, Outcome, TypeOK
<1>3. ExchangeOf(c) = "succeeded" /\ ExchangeOf(c)' = ExchangeOf(c)
  BY EnvironmentAssumption
  DEF ExchangeOf, Sent, Answered, Working, Received, Leave, IsSuccess
<1>4. HeldOf(c)' \in BOOLEAN BY DEF HeldOf
<1>5. phaseBar[c] = "running" /\ phaseBar' = [phaseBar EXCEPT ![c] = "settled"]
  BY <1>1, BarsOf, BarsOfOthers
<1>6. verdictBar' = [verdictBar EXCEPT ![c] = "value"] BY <1>2, BarsOf, BarsOfOthers
<1>7. \E h \in BOOLEAN : heldBar' = [heldBar EXCEPT ![c] = h]
  BY <1>4, BarsOf, BarsOfOthers
<1>8. exchangeBar[c] = "succeeded" /\ UNCHANGED exchangeBar BY <1>3, BarsOf, BarsOfOthers
<1>. QED BY <1>5, <1>6, <1>7, <1>8 DEF Contract!ReturnValue, Contract!Settle

\* A step that reports a failure is the contract's ReportFailure.
LEMMA ReportsIt ==
    ASSUME TypeOK, NEW c \in Calls, Footprint(c), Working(c), pc[c] \in {"problem", "error"},
           NEW p, NEW n, Leave(c, RemoteCallException(p, n), Disposed(c)), UNCHANGED sends
    PROVE  Contract!ReportFailure(c)
<1>1. PhaseOf(c) = "running" /\ PhaseOf(c)' = "settled"
  BY DEF PhaseOf, Settled, Leave, TypeOK
<1>2. VerdictOf(c)' = "failure"
  BY DEF VerdictOf, Verdict, Leave, RemoteCallException, TypeOK
<1>3. ExchangeOf(c) = "failed" /\ ExchangeOf(c)' = ExchangeOf(c)
  <2>1. sends[c] = 1 /\ Received(c) /\ ~IsSuccess(answer[c])
    <3>1. CASE pc[c] = "problem" BY <3>1 DEF Working, Received
    <3>2. CASE pc[c] = "error" BY <3>2 DEF Working, Received
    <3>. QED BY <3>1, <3>2
  <2>2. answer[c] # NoAnswer BY <2>1, EnvironmentAssumption DEF Received
  <2>3. answer' = answer /\ sends' = sends BY DEF Leave
  <2>. QED BY <2>1, <2>2, <2>3 DEF ExchangeOf, Sent, Answered, IsSuccess
<1>4. HeldOf(c)' = FALSE
  <2>1. response'[c] \in {"none", "disposed"} BY DEF Leave, Disposed, TypeOK
  <2>. QED BY <2>1 DEF HeldOf
<1>5. phaseBar[c] = "running" /\ phaseBar' = [phaseBar EXCEPT ![c] = "settled"]
  BY <1>1, BarsOf, BarsOfOthers
<1>6. verdictBar' = [verdictBar EXCEPT ![c] = "failure"] BY <1>2, BarsOf, BarsOfOthers
<1>7. heldBar' = [heldBar EXCEPT ![c] = FALSE] BY <1>4, BarsOf, BarsOfOthers
<1>8. exchangeBar[c] = "failed" /\ UNCHANGED exchangeBar BY <1>3, BarsOf, BarsOfOthers
<1>. QED BY <1>5, <1>6, <1>7, <1>8 DEF Contract!ReportFailure, Contract!Settle

\* A step from one working step of the method to another, which sends nothing and
\* receives nothing, does not show.
LEMMA GotoStutters ==
    ASSUME TypeOK, NEW c \in Calls, Footprint(c), NEW step \in Steps \ {"idle", "done"},
           Goto(c, step), pc[c] \notin {"idle", "done"}, UNCHANGED <<sends, answer>>,
           HeldOf(c)' = HeldOf(c)
    PROVE  UNCHANGED Contract!vars
<1>1. PhaseOf(c)' = PhaseOf(c) BY DEF PhaseOf, Settled, Goto, TypeOK
<1>2. ExchangeOf(c)' = ExchangeOf(c) BY DEF ExchangeOf, Sent, Answered, IsSuccess
<1>3. VerdictOf(c)' = VerdictOf(c) BY DEF VerdictOf, Goto
<1>. QED BY <1>1, <1>2, <1>3, Stutters

\* A file's stream that cannot be opened is the contract's Lose.
LEMMA Loses ==
    ASSUME TypeOK, NEW c \in Calls, Footprint(c), Working(c), OpenStreamFails(c)
    PROVE  Contract!Lose(c)
<1>1. PhaseOf(c) = "running" /\ PhaseOf(c)' = "settled"
  BY DEF OpenStreamFails, PhaseOf, Settled, Leave, TypeOK
<1>2. VerdictOf(c)' = "broken"
  <2>1. outcome'[c] = Caught("HttpRequest") BY DEF OpenStreamFails, Leave, TypeOK
  <2>. QED BY <2>1 DEF VerdictOf, Verdict, Caught, Outcome
<1>3. ExchangeOf(c) = "succeeded" /\ ExchangeOf(c)' = ExchangeOf(c)
  BY EnvironmentAssumption
  DEF OpenStreamFails, ExchangeOf, Sent, Answered, Working, Received, Leave, IsSuccess
<1>4. HeldOf(c) = TRUE /\ HeldOf(c)' = HeldOf(c)
  BY DEF OpenStreamFails, Working, ResponseOf, HeldOf, Leave, TypeOK
<1>5. phaseBar[c] = "running" /\ phaseBar' = [phaseBar EXCEPT ![c] = "settled"]
  BY <1>1, BarsOf, BarsOfOthers
<1>6. verdictBar' = [verdictBar EXCEPT ![c] = "broken"] BY <1>2, BarsOf, BarsOfOthers
<1>7. heldBar[c] /\ UNCHANGED heldBar BY <1>4, BarsOf, BarsOfOthers
<1>8. exchangeBar[c] = "succeeded" /\ UNCHANGED exchangeBar BY <1>3, BarsOf, BarsOfOthers
<1>. QED BY <1>5, <1>6, <1>7, <1>8 DEF Contract!Lose, Contract!Settle

\* Every step of a call is a step of the contract or does not show in it.
LEMMA StepRefines ==
    ASSUME Inv, NEW c \in Calls, Step(c)
    PROVE  Contract!Next \/ UNCHANGED Contract!vars
<1>1. TypeOK /\ Working(c) /\ Settlement(c) BY DEF Inv, Consistent
<1>2. Footprint(c) BY <1>1, StepFootprint
<1>3. ASSUME NEW e \in Exceptions, Throw(c, e), pc[c] \notin {"idle", "done"}, UNCHANGED sends
      PROVE  Contract!Next
  BY <1>1, <1>2, <1>3, ThrowBreaks DEF Contract!Next
<1>4. CASE \E view \in Verbs \cup {NoVerb} : RejectVerb(c, view)
  <2>1. PhaseOf(c) = "idle" /\ PhaseOf(c)' = "settled"
    BY <1>1, <1>4 DEF RejectVerb, PhaseOf, Settled, TypeOK
  <2>2. VerdictOf(c)' = "refused"
    BY <1>1, <1>4 DEF RejectVerb, VerdictOf, Verdict, Outcome, TypeOK
  <2>3. UNCHANGED <<exchangeBar, heldBar>>
    BY <1>4 DEF RejectVerb, exchangeBar, heldBar, ExchangeOf, Sent, Answered, IsSuccess
  <2>4. Contract!Refuse(c)
    BY <1>1, <1>2, <2>1, <2>2, <2>3, BarsOf, BarsOfOthers DEF Contract!Refuse
  <2>. QED BY <2>4 DEF Contract!Next
<1>5. CASE \E view \in Verbs \cup {NoVerb} : Begin(c, view)
  <2>1. PhaseOf(c) = "idle" /\ PhaseOf(c)' = "running"
    BY <1>1, <1>5 DEF Begin, PhaseOf, Settled, TypeOK
  <2>2. UNCHANGED <<exchangeBar, verdictBar, heldBar>>
    BY <1>5 DEF Begin, exchangeBar, verdictBar, heldBar, ExchangeOf, Sent, Answered, IsSuccess
  <2>3. Contract!Start(c)
    BY <1>1, <1>2, <2>1, <2>2, BarsOf, BarsOfOthers DEF Contract!Start
  <2>. QED BY <2>3 DEF Contract!Next
<1>6. CASE RouteValueMissing(c) \/ BadMediaType(c) \/ AssignTooLate(c) \/ MissingMetadata(c)
  BY <1>3, <1>6 DEF RouteValueMissing, BadMediaType, AssignTooLate, MissingMetadata
<1>7. CASE NetworkFails(c) \/ TimeOut(c) \/ BodyBreaks(c) \/ ObserveCancellation(c)
  BY <1>3, <1>7 DEF NetworkFails, TimeOut, BodyBreaks, ObserveCancellation
<1>8. CASE SendClosedUpload(c)
  <2>1. Unsent(c) /\ sends'[c] = 1 BY <1>1, <1>8 DEF SendClosedUpload, Working, Unsent, TypeOK
  <2>2. Contract!Break(c) BY <1>1, <1>2, <1>8, <2>1, ThrowBreaks DEF SendClosedUpload
  <2>. QED BY <2>2 DEF Contract!Next
<1>9. CASE ProblemParsed(c)
  BY <1>1, <1>2, <1>9, ReportsIt DEF ProblemParsed, Contract!Next
<1>10. CASE ReadExcerpt(c)
  <2>. DEFINE n == MinOf(answer[c].size, host.maximum)
  <2>1. CASE Leave(c, RemoteCallException(FALSE, n), Disposed(c))
    BY <1>1, <1>2, <1>10, <2>1, ReportsIt DEF ReadExcerpt, Contract!Next
  <2>2. CASE Throw(c, "AlreadyConsumed") \/ Throw(c, "ArgumentOutOfRange")
    BY <1>3, <1>10, <2>2 DEF ReadExcerpt
  <2>. QED BY <1>10, <2>1, <2>2 DEF ReadExcerpt
<1>11. CASE ReturnVoid(c) \/ ReadRaw(c) \/ ReturnFile(c)
  BY <1>1, <1>2, <1>11, ReturnsValue DEF ReturnVoid, ReadRaw, ReturnFile, Contract!Next
<1>12. CASE ReadJson(c)
  <2>1. CASE Throw(c, "Json") BY <1>3, <1>12, <2>1 DEF ReadJson
  <2>2. CASE Leave(c, Returned, Disposed(c))
    BY <1>1, <1>2, <1>12, <2>2, ReturnsValue DEF ReadJson, Contract!Next
  <2>. QED BY <1>12, <2>1, <2>2 DEF ReadJson
<1>13. CASE OpenStreamFails(c) BY <1>1, <1>2, <1>13, Loses DEF Contract!Next
<1>14. CASE BuildRequest(c)
  <2>1. AfterRequest(c) \in Steps \ {"idle", "done"} BY DEF AfterRequest
  <2>. QED BY <1>1, <1>2, <1>14, <2>1, GotoStutters DEF BuildRequest, HeldOf
<1>15. CASE \/ \E u \in Uploads : AttachUpload(c, u)
            \/ CheckResolver(c) \/ AssignResolver(c) \/ GetTypeInfo(c)
  BY <1>1, <1>2, <1>15, GotoStutters
  DEF AttachUpload, CheckResolver, AssignResolver, GetTypeInfo, HeldOf
<1>16. CASE Send(c)
  <2>1. ExchangeOf(c) = "unsent" /\ ExchangeOf(c)' = "sent"
    BY <1>1, <1>16
    DEF Send, ExchangeOf, Sent, Answered, Goto, Working, Unsent, TypeOK
  <2>2. PhaseOf(c) = "running" /\ UNCHANGED <<phaseBar, verdictBar, heldBar>>
    <3>1. PhaseOf(c) = "running" /\ PhaseOf(c)' = "running"
      BY <1>1, <1>16 DEF Send, Goto, PhaseOf, Settled, TypeOK
    <3>2. UNCHANGED <<verdictBar, heldBar>> BY <1>16 DEF Send, Goto, verdictBar, heldBar
    <3>. QED BY <1>1, <1>2, <3>1, <3>2, BarsOf, BarsOfOthers
  <2>3. Contract!Transmit(c)
    BY <1>1, <1>2, <2>1, <2>2, BarsOf, BarsOfOthers DEF Contract!Transmit
  <2>. QED BY <2>3 DEF Contract!Next
<1>17. CASE \E a \in Answers : Receive(c, a)
  <2>1. ExchangeOf(c) = "sent" /\ ExchangeOf(c)' \in {"succeeded", "failed"}
    BY <1>1, <1>17, EnvironmentAssumption
    DEF Receive, ExchangeOf, Sent, Answered, Goto, Working, TypeOK
  <2>2. PhaseOf(c) = "running" /\ UNCHANGED <<phaseBar, verdictBar>>
    <3>1. PhaseOf(c) = "running" /\ PhaseOf(c)' = "running"
      BY <1>1, <1>17 DEF Receive, Goto, PhaseOf, Settled, TypeOK
    <3>2. UNCHANGED verdictBar BY <1>17 DEF Receive, Goto, verdictBar
    <3>. QED BY <1>1, <1>2, <3>1, <3>2, BarsOf, BarsOfOthers
  <2>3. HeldOf(c)' = TRUE BY <1>1, <1>17 DEF Receive, HeldOf, TypeOK
  <2>4. Contract!Reply(c)
    BY <1>1, <1>2, <2>1, <2>2, <2>3, BarsOf, BarsOfOthers DEF Contract!Reply
  <2>. QED BY <2>4 DEF Contract!Next
<1>18. CASE ProblemUnusable(c)
  <2>1. HeldOf(c) /\ HeldOf(c)'
    BY <1>1, <1>18 DEF ProblemUnusable, HeldOf, Working, ResponseOf, TypeOK
  <2>. QED BY <1>1, <1>2, <1>18, <2>1, GotoStutters DEF ProblemUnusable
<1>19. CASE Cancel(c)
  <2>1. UNCHANGED <<pc, sends, answer, outcome, response>> BY <1>19 DEF Cancel, local
  <2>. QED
    BY <2>1
    DEF Contract!vars, phaseBar, exchangeBar, verdictBar, heldBar, PhaseOf, ExchangeOf,
        Settled, Sent, Answered, IsSuccess
<1>20. CASE DisposeFile(c)
  <2>1. UNCHANGED <<phaseBar, exchangeBar, verdictBar>>
    BY <1>20 DEF DisposeFile, phaseBar, exchangeBar, verdictBar, PhaseOf, ExchangeOf, Settled, Sent, Answered, IsSuccess
  <2>2. VerdictOf(c) = "value"
    BY <1>20 DEF DisposeFile, VerdictOf, Verdict, Returned, Outcome
  <2>3. HeldOf(c) = TRUE /\ HeldOf(c)' = FALSE
    BY <1>1, <1>20 DEF DisposeFile, HeldOf, TypeOK
  <2>4. Contract!Release(c)
    BY <1>1, <1>2, <2>1, <2>2, <2>3, BarsOf, BarsOfOthers DEF Contract!Release, VerdictOf, HeldOf
  <2>. QED BY <2>4 DEF Contract!Next
<1>. QED
  BY <1>4, <1>5, <1>6, <1>7, <1>8, <1>9, <1>10, <1>11, <1>12, <1>13, <1>14, <1>15, <1>16,
     <1>17, <1>18, <1>19, <1>20
  DEF Step, Compute, ReadFailure, Network, Caller

\* The calls implement the contract.
THEOREM CallsImplementContract == Spec => ImplementsContract
<1>1. Init => Contract!Init
  <2>. SUFFICES ASSUME Init PROVE Contract!Init OBVIOUS
  <2>1. phaseBar = [c \in Calls |-> "idle"] BY DEF Init, phaseBar, PhaseOf
  <2>2. exchangeBar = [c \in Calls |-> "unsent"] BY DEF Init, exchangeBar, ExchangeOf, Sent
  <2>3. verdictBar = [c \in Calls |-> "none"]
    BY DEF Init, verdictBar, Verdict, Pending, Outcome
  <2>4. heldBar = [c \in Calls |-> FALSE]
    <3>. SUFFICES ASSUME NEW c \in Calls PROVE HeldOf(c) = FALSE
      BY DEF heldBar, HeldOf
    <3>1. response[c] = "none" BY DEF Init
    <3>. QED BY <3>1 DEF HeldOf
  <2>. QED BY <2>1, <2>2, <2>3, <2>4 DEF Contract!Init
<1>2. Inv /\ [Next]_vars => [Contract!Next]_(Contract!vars)
  <2>. SUFFICES ASSUME Inv, [Next]_vars
                PROVE  Contract!Next \/ UNCHANGED Contract!vars
    OBVIOUS
  <2>1. CASE UNCHANGED vars
    BY <2>1 DEF vars, local, Contract!vars, phaseBar, exchangeBar, verdictBar, heldBar, PhaseOf, ExchangeOf, Settled, Sent, Answered, IsSuccess
  <2>2. CASE Next BY <2>2, StepRefines DEF Next
  <2>. QED BY <2>1, <2>2
<1>. QED
  BY <1>1, <1>2, Invariance, PTL DEF Spec, ImplementsContract, Contract!Spec
=============================================================================
