------------------------ MODULE ServerEndpointProofs ------------------------
(***************************************************************************)
(* Theorems about ServerEndpoint, for any operations, any number of        *)
(* requests and either handler.                                            *)
(***************************************************************************)
EXTENDS ServerEndpoint, TLAPS

USE DEF Results, Defects, Inputs, Steps, Faults, NoFault

-----------------------------------------------------------------------------
(* The inductive invariant.                                                 *)

\* The service was not called for r, or it was, with values that could be bound.
Unexecuted(r) == executed[r] = 0 /\ result[r] = "none"
Executed(r) == executed[r] = 1 /\ input[r] = "good"
Returned(r) == Executed(r) /\ result[r] # "none"

IsError(code) == code \in 400..599

\* What is known once something was thrown, by where it was.
Located(r) ==
    /\ fault[r].at \in {"resolve", "bind", "running", "describe", "write", "body"}
    /\ fault[r].at \in {"resolve", "bind"} => Unexecuted(r)
    /\ fault[r].at = "running" => Executed(r) /\ result[r] = "none"
    /\ fault[r].at \in {"describe", "write", "body"} => Returned(r)
    /\ started[r] <=> fault[r].at = "body"
    /\ started[r] => IsSuccess(status[r])

Failed(r) ==
    /\ Located(r)
    /\ content[r] # "open"
    /\ fault[r].kind \in {"Remote", "BadRequest", "Other"}
    /\ fault[r].kind = "Remote" => IsError(fault[r].status)
    /\ fault[r].kind = "BadRequest" => fault[r].at = "bind"

\* The constructor of the service threw outside the try block.
Uncaught(r) == fault[r].at = "resolve" /\ DynamicCode(r)
\* A file failed on its first read.
Unread(r) == fault[r].at = "write" /\ Op(r).result = "file"

\* The three ways in which a request is settled.
Refused(r) ==
    /\ fault[r] = NoFault /\ Unexecuted(r) /\ content[r] # "open"
    /\ status[r] = 400 /\ body[r] = "other"

Succeeded(r) ==
    /\ fault[r] = NoFault /\ Returned(r) /\ content[r] # "open"
    /\ \/ IsSuccess(status[r]) /\ body[r] \in {"whole", "empty"}
       \/ IsWithheld(r)

FailureAnswered(r) ==
    /\ Failed(r)
    /\ started[r] => body[r] = "broken"
    /\ ~started[r] =>
         \/ /\ fault[r].kind = "Remote" /\ ~Uncaught(r)
            /\ status[r] = fault[r].status /\ body[r] = "problem"
         \/ fault[r].kind = "BadRequest" /\ status[r] = 400 /\ body[r] = "other"
         \/ fault[r].kind = "Other" /\ status[r] = 500 /\ body[r] = "other"
         \/ /\ fault[r].kind = "Remote" /\ (Uncaught(r) \/ Unread(r))
            /\ status[r] = 500 /\ body[r] = "other"

Untouched(r) == fault[r] = NoFault /\ ~started[r]

\* What is known at each step of the handler.
Consistent(r) ==
    /\ pc[r] # "none" => operation[r] \in Operations
    /\ pc[r] \in {"none", "resolve", "bind", "call"} =>
         Untouched(r) /\ Unexecuted(r) /\ content[r] # "open"
    /\ pc[r] = "call" => input[r] = "good"
    /\ pc[r] = "running" =>
         Untouched(r) /\ Executed(r) /\ result[r] = "none" /\ content[r] # "open"
    /\ pc[r] \in {"describe", "write"} =>
         Untouched(r) /\ Returned(r) /\ (content[r] = "open" => Op(r).result = "file")
    /\ pc[r] = "body" =>
         fault[r] = NoFault /\ started[r] /\ Returned(r) /\ IsSuccess(status[r])
    /\ pc[r] = "problem" => Failed(r) /\ fault[r].kind = "Remote" /\ ~Uncaught(r)
    /\ pc[r] = "escaped" =>
         /\ Failed(r)
         /\ fault[r].kind = "Remote" => started[r] \/ Uncaught(r) \/ Unread(r)
    /\ pc[r] = "done" => Refused(r) \/ Succeeded(r) \/ FailureAnswered(r)

Inv == TypeOK /\ \A r \in Requests : Consistent(r)

-----------------------------------------------------------------------------
(* Facts about the parameters.                                              *)

\* What an operation's handler does is a record of the fields the model reads.
LEMMA HandlesType ==
    ASSUME NEW o \in Operations
    PROVE  /\ Handles[o].result \in Results
           /\ Handles[o].success \in {0} \cup 200..299
           /\ Handles[o].defects \subseteq Defects
BY OperationAssumption

\* Every success status is one.
LEMMA SuccessStatuses ==
    ASSUME NEW o \in Operations
    PROVE  /\ SuccessStatus(o) \in Nat /\ IsSuccess(SuccessStatus(o))
           /\ \A s \in WrittenStatuses(o) : s \in Nat /\ IsSuccess(s)
BY HandlesType DEF SuccessStatus, WrittenStatuses, DefaultStatus, IsSuccess

\* A file is written under a status that has a body.
LEMMA FilesHaveBodies ==
    ASSUME NEW o \in Operations, Handles[o].result = "file"
    PROVE  ~(WrittenStatuses(o) \subseteq Bodiless)
BY DEF WrittenStatuses, Bodiless

\* What user code throws.
LEMMA ThrownType ==
    ASSUME NEW exception \in Thrown
    PROVE  \/ exception.kind = "Remote" /\ exception.status \in Nat
                /\ IsError(exception.status)
           \/ exception.kind = "Other" /\ exception.status = 500
BY StatusAssumption DEF Thrown, Remote, Other, IsError
\* A step of the request r.
Step(r) ==
    \/ \E o \in Operations : \E i \in {"good"} \cup Handles[o].defects : Arrive(r, o, i)
    \/ Handle(r)
    \/ Service(r)
    \/ Abort(r)

-----------------------------------------------------------------------------
(* Types.                                                                   *)

\* Throwing preserves the types.
LEMMA ThrowTypes ==
    ASSUME TypeOK, NEW r \in Requests, NEW exception,
           exception.kind \in {"Remote", "BadRequest", "Other"}, exception.status \in Nat,
           Throw(r, exception)
    PROVE  TypeOK'
<1>1. fault' \in [Requests -> Faults] BY DEF Throw, TypeOK
<1>2. pc' \in [Requests -> Steps] BY DEF Throw, Goto, TypeOK
<1>3. content' \in [Requests -> {"none", "open", "disposed"}]
  BY DEF Throw, ReleaseContent, TypeOK
<1>. QED BY <1>1, <1>2, <1>3 DEF Throw, Goto, ReleaseContent, response, TypeOK

\* Every step preserves the types.
LEMMA StepTypes ==
    ASSUME TypeOK, NEW r \in Requests, Consistent(r), Step(r)
    PROVE  TypeOK'
<1>. USE DEF Goto, Answer, response, file
<1>1. ASSUME NEW exception \in Thrown, Throw(r, exception) PROVE TypeOK'
  BY <1>1, ThrownType, ThrowTypes
<1>2. ASSUME Throw(r, Other) PROVE TypeOK' BY <1>1, <1>2 DEF Thrown
<1>3. CASE \E o \in Operations : \E i \in {"good"} \cup Handles[o].defects : Arrive(r, o, i)
  BY <1>3, HandlesType DEF Arrive, TypeOK
<1>4. CASE ResolveService(r) BY <1>4 DEF ResolveService, TypeOK
<1>5. CASE \E exception \in Thrown :
             ActivationFails(r, exception) \/ ServiceThrows(r, exception) \/ BodyFails(r, exception)
  BY <1>1, <1>5 DEF ActivationFails, ServiceThrows, BodyFails
<1>6. CASE Bind(r) BY <1>6 DEF Bind, TypeOK
<1>7. CASE BindUndescribed(r) \/ BindMalformed(r) \/ BindAborted(r) \/ DescribeFails(r) \/ NullRefused(r)
  BY <1>2, <1>7 DEF BindUndescribed, BindMalformed, BindAborted, DescribeFails, NullRefused
<1>8. CASE FrameworkRefuses(r) BY <1>8 DEF FrameworkRefuses, TypeOK
<1>9. CASE BindMissing(r) BY <1>9, ThrowTypes DEF BindMissing, BadRequest
<1>10. CASE CallService(r) BY <1>10 DEF CallService, TypeOK
<1>11. CASE \E value \in {"null", "some"}, owned \in BOOLEAN : ServiceReturns(r, value, owned)
  BY <1>11 DEF ServiceReturns, TypeOK
<1>12. CASE Describe(r) BY <1>12 DEF Describe, TypeOK
<1>13. CASE WriteNothing(r)
  BY <1>13, SuccessStatuses DEF WriteNothing, Consistent, TypeOK
<1>14. CASE StartBody(r)
  <2>1. operation[r] \in Operations BY <1>14 DEF StartBody, Consistent
  <2>. QED BY <1>14, <2>1, SuccessStatuses DEF StartBody, TypeOK
<1>22. CASE Withhold(r) BY <1>22 DEF Withhold, Withheld, ReleaseContent, TypeOK
<1>15. CASE BodyRefused(r)
  <2>1. CASE Throw(r, Other) BY <1>2, <2>1
  <2>2. CASE ~Throw(r, Other)
    <3>1. operation[r] \in Operations BY <1>15 DEF BodyRefused, Consistent
    <3>2. \A s \in WrittenStatuses(operation[r]) : s \in Nat BY <3>1, SuccessStatuses
    <3>3. status' \in [Requests -> Nat] BY <1>15, <2>2, <3>2 DEF BodyRefused, TypeOK
    <3>4. UNCHANGED <<operation, input, aborted, executed, result, fault, started, content, owner>>
      BY <1>15, <2>2 DEF BodyRefused
    <3>5. pc' \in [Requests -> Steps]
      BY <1>15, <2>2 DEF BodyRefused, TypeOK
    <3>6. body' \in [Requests -> {"none", "empty", "problem", "other", "partial", "whole",
                                  "broken"}]
      BY <1>15, <2>2 DEF BodyRefused, TypeOK
    <3>. QED BY <3>3, <3>4, <3>5, <3>6 DEF TypeOK
  <2>. QED BY <2>1, <2>2
<1>16. CASE FinishBody(r) BY <1>16 DEF FinishBody, ReleaseContent, TypeOK
<1>17. CASE ExecuteProblem(r) BY <1>17 DEF ExecuteProblem, TypeOK
<1>18. CASE ProblemFails(r) BY <1>18 DEF ProblemFails, TypeOK
<1>19. CASE HostAnswers(r) BY <1>19 DEF HostAnswers, TypeOK
<1>20. CASE HostBreaks(r) BY <1>20 DEF HostBreaks, TypeOK
<1>21. CASE Abort(r) BY <1>21 DEF Abort, TypeOK
<1>. QED
  BY <1>3, <1>4, <1>5, <1>6, <1>7, <1>8, <1>9, <1>10, <1>11, <1>12, <1>13, <1>14, <1>15,
     <1>16, <1>17, <1>18, <1>19, <1>20, <1>21, <1>22
  DEF Step, Handle, Service

-----------------------------------------------------------------------------
(* One request.                                                             *)

\* Where an exception may be thrown, and which.
MayThrow(r, exception) ==
    /\ exception.kind \in {"Remote", "BadRequest", "Other"} /\ exception.status \in Nat
    /\ exception.kind = "Remote" => IsError(exception.status) /\ pc[r] # "bind"
    /\ exception.kind = "BadRequest" => pc[r] = "bind"
    /\ pc[r] \in {"resolve", "bind", "running", "describe", "write", "body"}

\* Throwing leaves the request failed, and so consistent.
LEMMA ThrowConsistent ==
    ASSUME TypeOK, NEW r \in Requests, Consistent(r), NEW exception,
           MayThrow(r, exception), Throw(r, exception)
    PROVE  Consistent(r)'
<1>1. /\ fault'[r].kind = exception.kind /\ fault'[r].status = exception.status
      /\ fault'[r].at = pc[r]
  BY DEF Throw, TypeOK
<1>2. /\ UNCHANGED <<operation[r], input[r], executed[r], result[r], status[r], started[r]>>
      /\ content'[r] # "open"
  BY DEF Throw, Goto, ReleaseContent, response, TypeOK
<1>3. pc'[r] = IF exception.kind = "Remote" /\ InTry(r) THEN "problem" ELSE "escaped"
  BY DEF Throw, Goto, TypeOK
<1>4. Located(r)'
  BY <1>1, <1>2
  DEF MayThrow, Located, Consistent, Untouched, Unexecuted, Executed, Returned, IsSuccess
<1>5. Failed(r)' BY <1>1, <1>2, <1>4 DEF MayThrow, Failed
<1>6. exception.kind = "Remote" => (Uncaught(r)' <=> ~InTry(r))
  BY <1>1, <1>2 DEF InTry, Uncaught, DynamicCode, Op, MayThrow
<1>. QED BY <1>1, <1>2, <1>3, <1>5, <1>6 DEF Consistent, MayThrow

\* Every step of a request leaves it consistent.
LEMMA StepOfRequest ==
    ASSUME TypeOK, NEW r \in Requests, Consistent(r), Step(r)
    PROVE  Consistent(r)'
<1>. USE DEF Goto, Answer, response, file, Untouched, Unexecuted, Executed, Returned
<1>1. ASSUME NEW exception \in Thrown, Throw(r, exception),
             exception.kind = "Remote" => pc[r] # "bind",
             pc[r] \in {"resolve", "bind", "running", "describe", "write", "body"}
      PROVE  Consistent(r)'
  BY <1>1, ThrownType, ThrowConsistent DEF MayThrow
<1>2. ASSUME Throw(r, Other), pc[r] \in {"bind", "describe", "write"} PROVE Consistent(r)'
  BY <1>1, <1>2 DEF Thrown, Other
<1>3. CASE \E o \in Operations : \E i \in {"good"} \cup Handles[o].defects : Arrive(r, o, i)
  BY <1>3 DEF Arrive, Consistent, TypeOK
<1>4. CASE ResolveService(r) BY <1>4 DEF ResolveService, Consistent, TypeOK
<1>5. CASE \E exception \in Thrown :
             ActivationFails(r, exception) \/ ServiceThrows(r, exception) \/ BodyFails(r, exception)
  BY <1>1, <1>5 DEF ActivationFails, ServiceThrows, BodyFails
<1>6. CASE Bind(r) BY <1>6 DEF Bind, Consistent, TypeOK
<1>7. CASE BindUndescribed(r) \/ BindMalformed(r) \/ BindAborted(r) \/ DescribeFails(r) \/ NullRefused(r)
  BY <1>2, <1>7 DEF BindUndescribed, BindMalformed, BindAborted, DescribeFails, NullRefused
<1>8. CASE FrameworkRefuses(r) BY <1>8 DEF FrameworkRefuses, Consistent, Refused, TypeOK
<1>9. CASE BindMissing(r)
  BY <1>9, ThrowConsistent DEF BindMissing, BadRequest, MayThrow
<1>10. CASE CallService(r) BY <1>10 DEF CallService, Consistent, TypeOK
<1>11. CASE \E value \in {"null", "some"}, owned \in BOOLEAN : ServiceReturns(r, value, owned)
  BY <1>11 DEF ServiceReturns, Consistent, Op, TypeOK
<1>12. CASE Describe(r) BY <1>12 DEF Describe, Consistent, Op, TypeOK
<1>13. CASE WriteNothing(r)
  BY <1>13, SuccessStatuses DEF WriteNothing, Consistent, Succeeded, Op, TypeOK
<1>14. CASE StartBody(r)
  <2>1. operation[r] \in Operations BY <1>14 DEF StartBody, Consistent
  <2>. QED BY <1>14, <2>1, SuccessStatuses DEF StartBody, Consistent, TypeOK
<1>22. CASE Withhold(r)
  BY <1>22 DEF Withhold, ReleaseContent, Consistent, Succeeded, IsWithheld, Op, TypeOK
<1>15. CASE BodyRefused(r)
  <2>1. CASE Throw(r, Other) BY <1>2, <1>15, <2>1 DEF BodyRefused
  <2>2. CASE ~Throw(r, Other)
    <3>1. operation[r] \in Operations /\ Op(r).result # "file"
      BY <1>15, FilesHaveBodies DEF BodyRefused, Consistent, Op
    <3>. QED
      BY <1>15, <2>2, <3>1, SuccessStatuses
      DEF BodyRefused, Consistent, Succeeded, IsSuccess, TypeOK
  <2>. QED BY <2>1, <2>2
<1>16. CASE FinishBody(r)
  BY <1>16 DEF FinishBody, ReleaseContent, Consistent, Succeeded, IsSuccess, TypeOK
<1>17. CASE ExecuteProblem(r)
  BY <1>17
  DEF ExecuteProblem, Consistent, Failed, Located, FailureAnswered, Uncaught, DynamicCode, Op,
      TypeOK
<1>18. CASE ProblemFails(r)
  BY <1>18
  DEF ProblemFails, Consistent, Failed, Located, Uncaught, Unread, DynamicCode, Op, IsSuccess,
      TypeOK
<1>19. CASE HostAnswers(r)
  BY <1>19
  DEF HostAnswers, Consistent, Failed, Located, FailureAnswered, Uncaught, Unread, DynamicCode,
      Op, TypeOK
<1>20. CASE HostBreaks(r)
  BY <1>20 DEF HostBreaks, Consistent, Failed, Located, FailureAnswered, IsSuccess, TypeOK
<1>21. CASE Abort(r)
  BY <1>21
  DEF Abort, Consistent, Failed, Located, Refused, Succeeded, FailureAnswered, IsSuccess, Op,
      IsWithheld, Uncaught, Unread, DynamicCode
<1>. QED
  BY <1>3, <1>4, <1>5, <1>6, <1>7, <1>8, <1>9, <1>10, <1>11, <1>12, <1>13, <1>14, <1>15,
     <1>16, <1>17, <1>18, <1>19, <1>20, <1>21, <1>22
  DEF Step, Handle, Service

\* A step of one request leaves the others where they are.
Unmoved(q) ==
    UNCHANGED <<pc[q], operation[q], input[q], executed[q], result[q], fault[q], status[q],
                body[q], started[q], content[q], aborted[q]>>

LEMMA OthersUnmoved ==
    ASSUME TypeOK, NEW r \in Requests, NEW q \in Requests \ {r}, Step(r)
    PROVE  Unmoved(q)
<1>. USE DEF Unmoved
<1>. USE DEF Goto, Answer, ReleaseContent, response, file
<1>1. ASSUME NEW exception, Throw(r, exception) PROVE Unmoved(q) BY <1>1 DEF Throw, TypeOK
<1>2. CASE \E o \in Operations : \E i \in {"good"} \cup Handles[o].defects : Arrive(r, o, i)
  BY <1>2 DEF Arrive, TypeOK
<1>3. CASE Service(r)
  BY <1>1, <1>3 DEF Service, ServiceReturns, ActivationFails, ServiceThrows, BodyFails, TypeOK
<1>4. CASE Abort(r) BY <1>4 DEF Abort
<1>5. CASE ResolveService(r) \/ Bind(r) \/ FrameworkRefuses(r) \/ CallService(r) \/ Describe(r)
  BY <1>5 DEF ResolveService, Bind, FrameworkRefuses, CallService, Describe, TypeOK
<1>6. CASE \/ BindUndescribed(r) \/ BindMissing(r) \/ BindMalformed(r) \/ BindAborted(r)
           \/ DescribeFails(r) \/ NullRefused(r)
  BY <1>1, <1>6
  DEF BindUndescribed, BindMissing, BindMalformed, BindAborted, DescribeFails, NullRefused
<1>7. CASE WriteNothing(r) \/ StartBody(r) \/ Withhold(r) \/ FinishBody(r)
  BY <1>7 DEF WriteNothing, StartBody, Withhold, FinishBody, TypeOK
<1>8. CASE BodyRefused(r)
  <2>1. CASE Throw(r, Other) BY <1>1, <2>1
  <2>2. CASE ~Throw(r, Other) BY <1>8, <2>2 DEF BodyRefused, TypeOK
  <2>. QED BY <2>1, <2>2
<1>9. CASE ExecuteProblem(r) \/ ProblemFails(r) \/ HostAnswers(r) \/ HostBreaks(r)
  BY <1>9 DEF ExecuteProblem, ProblemFails, HostAnswers, HostBreaks, TypeOK
<1>. QED BY <1>2, <1>3, <1>4, <1>5, <1>6, <1>7, <1>8, <1>9 DEF Step, Handle

\* And it does not show in what is known of them.
LEMMA StepOfOther ==
    ASSUME TypeOK, NEW r \in Requests, NEW q \in Requests \ {r}, Step(r), Consistent(q)
    PROVE  Consistent(q)'
BY OthersUnmoved
DEF Unmoved, Consistent, Untouched, Unexecuted, Executed, Returned, Failed, Located, Refused,
    Succeeded, FailureAnswered, IsSuccess, Op, IsWithheld, Uncaught, Unread, DynamicCode

-----------------------------------------------------------------------------
(* The invariant holds.                                                     *)

\* It holds initially.
LEMMA InitInv == Init => Inv
BY DEF Init, Inv, TypeOK, Consistent, Untouched, Unexecuted

\* Every step keeps it.
LEMMA NextInv == Inv /\ [Next]_vars => Inv'
<1>. SUFFICES ASSUME Inv, [Next]_vars PROVE Inv' OBVIOUS
<1>1. CASE Next
  <2>1. PICK r \in Requests : Step(r) BY <1>1 DEF Next, Step
  <2>2. TypeOK' BY <2>1, StepTypes DEF Inv
  <2>3. ASSUME NEW q \in Requests PROVE Consistent(q)'
    <3>1. CASE q = r BY <2>1, <3>1, StepOfRequest DEF Inv
    <3>2. CASE q # r BY <2>1, <3>2, StepOfOther DEF Inv
    <3>. QED BY <3>1, <3>2
  <2>. QED BY <2>2, <2>3 DEF Inv
<1>2. CASE UNCHANGED vars
  BY <1>2
  DEF vars, response, file, Inv, TypeOK, Consistent, Untouched, Unexecuted, Executed,
      Returned, Failed, Located, Refused, Succeeded, FailureAnswered, IsSuccess, Op,
      IsWithheld, Uncaught, Unread, DynamicCode
<1>. QED BY <1>1, <1>2

\* The inductive invariant holds in every behaviour of the endpoints: at every step of
\* a handler, what has been executed, thrown and written agree.
THEOREM Invariance == Spec => []Inv
BY InitInv, NextInv, PTL DEF Spec

-----------------------------------------------------------------------------
(* Its consequences.                                                        *)

\* Type correctness.
THEOREM TypesAreKept == Spec => []TypeOK
<1>1. Inv => TypeOK BY DEF Inv
<1>. QED BY <1>1, Invariance, PTL

\* A request whose values cannot be bound never reaches the service method, whichever
\* handler was mapped; no request reaches it twice.
THEOREM UnboundsNeverExecute == Spec => []UnboundNeverExecutes
<1>1. Inv => UnboundNeverExecutes
  <2>. SUFFICES ASSUME Inv, NEW r \in Requests
                PROVE  /\ executed[r] <= 1
                       /\ input[r] # "good" => executed[r] = 0
                       /\ Settled(r) /\ input[r] # "good"
                          /\ fault[r].kind \in {"none", "BadRequest"} => status[r] = 400
    BY DEF UnboundNeverExecutes
  <2>1. Unexecuted(r) \/ Executed(r)
    BY DEF Inv, TypeOK, Consistent, Returned, Failed, Located, Refused, Succeeded,
           FailureAnswered
  <2>2. Settled(r) => Refused(r) \/ Succeeded(r) \/ FailureAnswered(r)
    BY DEF Inv, Consistent, Settled
  <2>3. FailureAnswered(r) /\ fault[r].kind \in {"none", "BadRequest"} => status[r] = 400
    BY DEF FailureAnswered, Failed, Located
  <2>. QED
    BY <2>1, <2>2, <2>3 DEF Unexecuted, Executed, Refused, Succeeded, Returned
<1>. QED BY <1>1, Invariance, PTL

\* What the service method throws is what the response says.
THEOREM ThrownErrorsBecomeProblems == Spec => []ThrownErrorsAreProblems
<1>1. Inv => ThrownErrorsAreProblems
  <2>. SUFFICES ASSUME Inv, NEW r \in Requests, Settled(r),
                       fault[r].kind \in {"Remote", "Other"}, fault[r].at # "body"
                PROVE  IF fault[r].kind = "Other" \/ Uncaught(r)
                       THEN status[r] = 500 /\ body[r] = "other"
                       ELSE \/ status[r] = fault[r].status /\ body[r] = "problem"
                            \/ Unread(r) /\ status[r] = 500 /\ body[r] = "other"
    BY DEF ThrownErrorsAreProblems, Uncaught, Unread
  <2>1. FailureAnswered(r) BY DEF Inv, Consistent, Settled, Refused, Succeeded
  <2>2. ~started[r] BY <2>1 DEF FailureAnswered, Failed, Located
  <2>. QED BY <2>1, <2>2 DEF FailureAnswered, Uncaught
<1>. QED BY <1>1, Invariance, PTL

\* The status of a settled response is a success's, or a file's conditions withheld the
\* file, exactly when the service returned and nothing was thrown before the response
\* started.
THEOREM SuccessesMeanReturned == Spec => []SuccessMeansReturned
<1>1. Inv => SuccessMeansReturned
  <2>. SUFFICES ASSUME Inv, NEW r \in Requests, Settled(r)
                PROVE  /\ IsSuccess(status[r]) \/ (fault[r] = NoFault /\ IsWithheld(r)) <=>
                            result[r] # "none" /\ (fault[r] = NoFault \/ fault[r].at = "body")
                       /\ body[r] = "whole" => fault[r] = NoFault
                       /\ body[r] = "broken" <=> fault[r].at = "body"
    BY DEF SuccessMeansReturned
  <2>1. CASE Refused(r) BY <2>1 DEF Refused, Unexecuted, IsSuccess, IsWithheld
  <2>2. CASE Succeeded(r)
    <3>1. fault[r] = NoFault /\ result[r] # "none" BY <2>2 DEF Succeeded, Returned
    <3>2. body[r] \in {"whole", "empty"} /\ (IsSuccess(status[r]) \/ IsWithheld(r))
      BY <2>2 DEF Succeeded, IsWithheld
    <3>3. fault[r].at # "body" BY <3>1
    <3>. QED BY <3>1, <3>2, <3>3
  <2>3. CASE FailureAnswered(r)
    <3>1. CASE started[r] BY <2>3, <3>1 DEF FailureAnswered, Failed, Located, Returned
    <3>2. CASE ~started[r]
      <4>1. fault[r].at # "body" /\ fault[r].kind # "none"
        BY <2>3, <3>2 DEF FailureAnswered, Failed, Located, Inv, TypeOK
      <4>2. body[r] \in {"problem", "other"} /\ (IsError(status[r]) \/ status[r] \in {400, 500})
        BY <2>3, <3>2 DEF FailureAnswered, Failed
      <4>3. ~IsSuccess(status[r]) BY <4>2 DEF IsError, IsSuccess
      <4>. QED BY <4>1, <4>2, <4>3
    <3>. QED BY <3>1, <3>2 DEF Inv, TypeOK
  <2>. QED BY <2>1, <2>2, <2>3 DEF Inv, Consistent, Settled
<1>. QED BY <1>1, Invariance, PTL

\* The stream of a returned file is closed however the response ended.
THEOREM ContentsAreReleased == Spec => []ContentIsReleased
<1>1. Inv => ContentIsReleased
  BY DEF Inv, ContentIsReleased, Consistent, Settled, Refused, Succeeded, FailureAnswered,
         Failed
<1>. QED BY <1>1, Invariance, PTL

\* What is on the wire stays, and what is settled is final.
THEOREM ResponsesAreFinal == Spec => ResponseIsFinal
<1>. DEFINE Final(q) ==
        /\ started[q] => /\ started'[q] /\ status'[q] = status[q]
                         /\ body'[q] \in {body[q], "whole", "broken"}
        /\ Settled(q) => /\ Settled(q)' /\ status'[q] = status[q]
                         /\ body'[q] = body[q] /\ executed'[q] = executed[q]
<1>. DEFINE A == \A r \in Requests :
         /\ started[r] => /\ started'[r] /\ status'[r] = status[r]
                          /\ body'[r] \in {body[r], "whole", "broken"}
         /\ Settled(r) => /\ Settled(r)' /\ status'[r] = status[r]
                          /\ body'[r] = body[r] /\ executed'[r] = executed[r]
<1>1. ASSUME Inv, NEW r \in Requests, Step(r), NEW q \in Requests PROVE Final(q)
  <2>. USE DEF Goto, Answer, ReleaseContent, response, file, Settled
  <2>1. started[q] => pc[q] \in {"body", "problem", "escaped", "done"}
    BY <1>1 DEF Inv, TypeOK, Consistent, Untouched
  <2>2. ASSUME NEW exception, Throw(r, exception), pc[r] # "done" PROVE Final(q)
    BY <1>1, <2>2 DEF Throw, Inv, TypeOK
  <2>3. CASE \E o \in Operations : \E i \in {"good"} \cup Handles[o].defects : Arrive(r, o, i)
    BY <1>1, <2>1, <2>3 DEF Arrive, Inv, TypeOK
  <2>4. CASE Service(r)
    BY <1>1, <2>1, <2>2, <2>4
    DEF Service, ServiceReturns, ActivationFails, ServiceThrows, BodyFails, Inv, TypeOK
  <2>5. CASE Abort(r) BY <1>1, <2>5 DEF Abort
  <2>6. CASE ResolveService(r) \/ Bind(r) \/ FrameworkRefuses(r) \/ CallService(r) \/ Describe(r)
    BY <1>1, <2>1, <2>6
    DEF ResolveService, Bind, FrameworkRefuses, CallService, Describe, Inv, TypeOK
  <2>7. CASE \/ BindUndescribed(r) \/ BindMissing(r) \/ BindMalformed(r) \/ BindAborted(r)
             \/ DescribeFails(r) \/ NullRefused(r)
    BY <2>2, <2>7
    DEF BindUndescribed, BindMissing, BindMalformed, BindAborted, DescribeFails, NullRefused
  <2>8. CASE WriteNothing(r) \/ StartBody(r) \/ Withhold(r) \/ FinishBody(r)
    BY <1>1, <2>1, <2>8 DEF WriteNothing, StartBody, Withhold, FinishBody, Inv, TypeOK
  <2>9. CASE BodyRefused(r)
    <3>1. CASE Throw(r, Other) BY <2>2, <2>9, <3>1 DEF BodyRefused
    <3>2. CASE ~Throw(r, Other) BY <1>1, <2>1, <2>9, <3>2 DEF BodyRefused, Inv, TypeOK
    <3>. QED BY <3>1, <3>2
  <2>10. CASE ExecuteProblem(r) \/ ProblemFails(r) \/ HostAnswers(r) \/ HostBreaks(r)
    BY <1>1, <2>10 DEF ExecuteProblem, ProblemFails, HostAnswers, HostBreaks, Inv, TypeOK
  <2>. QED
    BY <1>1, <2>3, <2>4, <2>5, <2>6, <2>7, <2>8, <2>9, <2>10 DEF Step, Handle
<1>2. Inv /\ [Next]_vars => [A]_vars
  <2>. SUFFICES ASSUME Inv, Next PROVE A OBVIOUS
  <2>. QED BY <1>1 DEF Next, Step
<1>3. Spec => [][A]_vars BY <1>2, Invariance, PTL DEF Spec
<1>. QED BY <1>3 DEF ResponseIsFinal

-----------------------------------------------------------------------------
(* A handler gets done: every step of it leaves fewer, whatever was thrown. *)

\* The steps that a request has ahead at most, in the order of the handler, with the
\* catch clause and the host behind the last of them.
Ahead(r) ==
    CASE pc[r] = "none"     -> 10
      [] pc[r] = "resolve"  -> 9
      [] pc[r] = "bind"     -> 8
      [] pc[r] = "call"     -> 7
      [] pc[r] = "running"  -> 6
      [] pc[r] = "describe" -> 5
      [] pc[r] = "write"    -> 4
      [] pc[r] = "body"     -> 3
      [] pc[r] = "problem"  -> 2
      [] pc[r] = "escaped"  -> 1
      [] OTHER -> 0

\* And one more, that its client goes away.
Left(r) == Ahead(r) + (IF aborted[r] THEN 0 ELSE 1)

\* A step of r is one less for r, and none for the others.
Advances(r) ==
    /\ Left(r) \in 1..11 /\ Left(r)' \in 0..10 /\ Left(r)' < Left(r)
    /\ \A q \in Requests \ {r} : Left(q)' = Left(q)

\* Every step does.
LEMMA StepAdvances ==
    ASSUME TypeOK, NEW r \in Requests, Step(r), TypeOK'
    PROVE  Advances(r)
<1>. DEFINE Lowers == Left(r)' < Left(r)
<1>1. Lowers
  <2>. USE DEF Goto, Left, Ahead
  <2>1. ASSUME NEW exception, Throw(r, exception),
               pc[r] \in {"resolve", "bind", "running", "describe", "write", "body"}
        PROVE  Lowers
    BY <2>1 DEF Throw, TypeOK
  <2>2. CASE \E o \in Operations : \E i \in {"good"} \cup Handles[o].defects : Arrive(r, o, i)
    BY <2>2 DEF Arrive, TypeOK
  <2>3. CASE \E exception \in Thrown :
               ActivationFails(r, exception) \/ ServiceThrows(r, exception) \/ BodyFails(r, exception)
    BY <2>1, <2>3 DEF ActivationFails, ServiceThrows, BodyFails
  <2>4. CASE \E value \in {"null", "some"}, owned \in BOOLEAN : ServiceReturns(r, value, owned)
    BY <2>4 DEF ServiceReturns, TypeOK
  <2>5. CASE Abort(r) BY <2>5 DEF Abort, TypeOK
  <2>6. CASE ResolveService(r) \/ Bind(r) \/ FrameworkRefuses(r) \/ CallService(r) \/ Describe(r)
    BY <2>6 DEF ResolveService, Bind, FrameworkRefuses, CallService, Describe, TypeOK
  <2>7. CASE \/ BindUndescribed(r) \/ BindMissing(r) \/ BindMalformed(r) \/ BindAborted(r)
             \/ DescribeFails(r) \/ NullRefused(r)
    BY <2>1, <2>7
    DEF BindUndescribed, BindMissing, BindMalformed, BindAborted, DescribeFails, NullRefused
  <2>8. CASE WriteNothing(r) \/ StartBody(r) \/ Withhold(r) \/ FinishBody(r)
    BY <2>8 DEF WriteNothing, StartBody, Withhold, FinishBody, TypeOK
  <2>9. CASE BodyRefused(r)
    <3>1. CASE Throw(r, Other) BY <2>1, <2>9, <3>1 DEF BodyRefused
    <3>2. CASE ~Throw(r, Other) BY <2>9, <3>2 DEF BodyRefused, TypeOK
    <3>. QED BY <3>1, <3>2
  <2>10. CASE ExecuteProblem(r) \/ ProblemFails(r) \/ HostAnswers(r) \/ HostBreaks(r)
    BY <2>10 DEF ExecuteProblem, ProblemFails, HostAnswers, HostBreaks, TypeOK
  <2>. QED
    BY <2>2, <2>3, <2>4, <2>5, <2>6, <2>7, <2>8, <2>9, <2>10 DEF Step, Handle, Service
<1>2. \A q \in Requests \ {r} : Left(q)' = Left(q)
  BY OthersUnmoved DEF Unmoved, Left, Ahead
<1>3. Left(r) \in 0..11 /\ Left(r)' \in 0..11
  BY DEF Left, Ahead, TypeOK
<1>. QED BY <1>1, <1>2, <1>3 DEF Advances

\* A request is settled after eleven steps at most, its arrival and its client's going away
\* among them: an exception leads to the catch clause or to the host and never back into the
\* handler, which neither calls the service again nor writes a second response.
THEOREM HandlersGetDone == Spec => [][\E r \in Requests : Advances(r)]_vars
<1>1. Inv /\ [Next]_vars /\ Inv' => [\E r \in Requests : Advances(r)]_vars
  <2>. SUFFICES ASSUME Inv, Inv', NEW r \in Requests, Step(r) PROVE Advances(r)
    BY DEF Next, Step
  <2>. QED BY StepAdvances DEF Inv
<1>. QED BY <1>1, Invariance, PTL DEF Spec

-----------------------------------------------------------------------------
(* The status on the wire.                                                  *)

\* A response that is a success's, or the beginning of one, comes from a service that has
\* returned; where it has not begun, what follows an exception has no part of it.
Written(r) == started[r] \/ body[r] \in {"partial", "whole", "empty", "broken"}
StatusIsDeclared(r) ==
    /\ Written(r) =>
         /\ pc[r] \in {"body", "problem", "escaped", "done"}
         /\ result[r] # "none"
         /\ \/ status[r] \in WrittenStatuses(operation[r])
            \/ Settled(r) /\ IsWithheld(r)
    /\ pc[r] \in {"problem", "escaped"} /\ ~started[r] => ~Written(r)

\* Whatever the response turns into, where one has begun its status is the one that the
\* operation declares, or 204 without a result and 200 with one (EmitResult). For files and
\* bytes the declaration has no effect: bytes are written under 200, and a file whole under
\* 200, in part under 206, or not at all.
DeclaredStatuses ==
    \A r \in Requests : Written(r) =>
        CASE Op(r).result = "file"  -> status[r] \in {200, 206} \/ (Settled(r) /\ IsWithheld(r))
          [] Op(r).result = "bytes" -> status[r] = 200
          [] OTHER -> status[r] = IF Op(r).success # 0 THEN Op(r).success
                                  ELSE IF Op(r).result = "void" THEN 204 ELSE 200

\* One request's step keeps it.
LEMMA StatusStays ==
    ASSUME Inv, NEW r \in Requests, Step(r), StatusIsDeclared(r)
    PROVE  StatusIsDeclared(r)'
<1>. USE DEF Goto, Answer, ReleaseContent, response, file, StatusIsDeclared, Written, Settled
<1>1. TypeOK /\ Consistent(r) BY DEF Inv
<1>2. ASSUME NEW exception, Throw(r, exception), pc[r] # "done" PROVE StatusIsDeclared(r)'
  <2>1. pc[r] = "body" => started[r] BY <1>1 DEF Consistent
  <2>2. pc'[r] \in {"problem", "escaped"} BY <1>1, <1>2 DEF Throw, TypeOK
  <2>3. UNCHANGED <<started, body, status, operation, result>> BY <1>2 DEF Throw
  <2>. QED BY <1>2, <2>1, <2>2, <2>3
<1>3. CASE \E o \in Operations : \E i \in {"good"} \cup Handles[o].defects : Arrive(r, o, i)
  BY <1>1, <1>3 DEF Arrive, TypeOK
<1>4. CASE \E exception \in Thrown :
             ActivationFails(r, exception) \/ ServiceThrows(r, exception) \/ BodyFails(r, exception)
  BY <1>2, <1>4 DEF ActivationFails, ServiceThrows, BodyFails
<1>5. CASE \E value \in {"null", "some"}, owned \in BOOLEAN : ServiceReturns(r, value, owned)
  BY <1>1, <1>5 DEF ServiceReturns, TypeOK
<1>6. CASE Abort(r) BY <1>1, <1>6 DEF Abort, TypeOK
<1>7. CASE ResolveService(r) \/ Bind(r) \/ FrameworkRefuses(r) \/ CallService(r) \/ Describe(r)
  BY <1>1, <1>7 DEF ResolveService, Bind, FrameworkRefuses, CallService, Describe, TypeOK
<1>8. CASE \/ BindUndescribed(r) \/ BindMissing(r) \/ BindMalformed(r) \/ BindAborted(r)
           \/ DescribeFails(r) \/ NullRefused(r)
  BY <1>2, <1>8
  DEF BindUndescribed, BindMissing, BindMalformed, BindAborted, DescribeFails, NullRefused
<1>9. CASE WriteNothing(r)
  <2>1. WrittenStatuses(operation[r]) = {SuccessStatus(operation[r])}
    BY <1>9 DEF WriteNothing, WrittenStatuses, Op
  <2>. QED BY <1>1, <1>9, <2>1 DEF WriteNothing, Consistent, Returned, TypeOK
<1>10. CASE StartBody(r) BY <1>1, <1>10 DEF StartBody, Consistent, Returned, TypeOK
<1>14. CASE Withhold(r)
  BY <1>1, <1>14 DEF Withhold, Consistent, Returned, IsWithheld, Op, TypeOK
<1>11. CASE FinishBody(r) BY <1>1, <1>11 DEF FinishBody, Consistent, Returned, TypeOK
<1>12. CASE BodyRefused(r)
  <2>1. CASE Throw(r, Other) BY <1>2, <1>12, <2>1 DEF BodyRefused
  <2>2. CASE ~Throw(r, Other)
    BY <1>1, <1>12, <2>2 DEF BodyRefused, Consistent, Returned, TypeOK
  <2>. QED BY <2>1, <2>2
<1>13. CASE ExecuteProblem(r) \/ ProblemFails(r) \/ HostAnswers(r) \/ HostBreaks(r)
  BY <1>1, <1>13 DEF ExecuteProblem, ProblemFails, HostAnswers, HostBreaks, TypeOK
<1>. QED
  BY <1>3, <1>4, <1>5, <1>6, <1>7, <1>8, <1>9, <1>10, <1>11, <1>12, <1>13, <1>14
  DEF Step, Handle, Service

\* The declared status of a success is the one that is written, for every operation but those
\* that return a file or bytes, for which it is 200, or 206 for a part of a file.
THEOREM DeclaredStatusesAreWritten == Spec => []DeclaredStatuses
<1>. DEFINE I == \A r \in Requests : StatusIsDeclared(r)
<1>1. Init => I BY DEF Init, StatusIsDeclared, Written
<1>2. Inv /\ I /\ [Next]_vars => I'
  <2>. SUFFICES ASSUME Inv, I, [Next]_vars, NEW q \in Requests PROVE StatusIsDeclared(q)'
    OBVIOUS
  <2>1. CASE UNCHANGED vars
    BY <2>1 DEF vars, response, file, StatusIsDeclared, Written, Settled, IsWithheld, Op
  <2>2. ASSUME NEW r \in Requests, Step(r) PROVE StatusIsDeclared(q)'
    <3>1. CASE q = r BY <2>2, <3>1, StatusStays
    <3>2. CASE q # r
      BY <2>2, <3>2, OthersUnmoved
      DEF Inv, Unmoved, StatusIsDeclared, Written, Settled, IsWithheld, Op
    <3>. QED BY <3>1, <3>2
  <2>. QED BY <2>1, <2>2 DEF Next, Step
<1>3. I => DeclaredStatuses
  <2>. SUFFICES ASSUME I, NEW r \in Requests, Written(r)
                PROVE  CASE Op(r).result = "file" ->
                              status[r] \in {200, 206} \/ (Settled(r) /\ IsWithheld(r))
                         [] Op(r).result = "bytes" -> status[r] = 200
                         [] OTHER -> status[r] = IF Op(r).success # 0 THEN Op(r).success
                                                 ELSE IF Op(r).result = "void" THEN 204 ELSE 200
    BY DEF DeclaredStatuses
  <2>1. status[r] \in WrittenStatuses(operation[r]) \/ (Settled(r) /\ IsWithheld(r))
    BY DEF StatusIsDeclared
  <2>2. CASE Op(r).result = "file" BY <2>1, <2>2 DEF WrittenStatuses, Op
  <2>3. CASE Op(r).result # "file"
    <3>1. status[r] \in WrittenStatuses(operation[r]) BY <2>1, <2>3 DEF IsWithheld
    <3>. QED BY <2>3, <3>1 DEF WrittenStatuses, SuccessStatus, DefaultStatus, Op
  <2>. QED BY <2>2, <2>3
<1>. QED BY <1>1, <1>2, <1>3, Invariance, PTL DEF Spec
=============================================================================
