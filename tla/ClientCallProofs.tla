-------------------------- MODULE ClientCallProofs --------------------------
(***************************************************************************)
(* Theorems about ClientCall, for every contract, every set of concurrent  *)
(* calls, every server and every host configuration.                       *)
(***************************************************************************)
EXTENDS ClientCall, TLAPS

USE DEF Contents, Results, Resolvers, Steps, Exceptions, Kinds, OpenResponses, Outcomes,
        shared, options

-----------------------------------------------------------------------------
(* The inductive invariant.                                                 *)

Unsent(c) == sends[c] = 0 /\ answer[c] = NoAnswer /\ response[c] = "none"
Received(c) == sends[c] = 1 /\ answer[c] \in Answers
ResponseOf(c) == IF Op(c).result = "file" THEN "stream" ELSE "buffered"

\* What is known at each step of the method: the exchange so far, and what the
\* call holds.
Working(c) ==
    /\ pc[c] # "done" => outcome[c] = Pending
    /\ pc[c] \in {"idle", "build"} =>
         Unsent(c) /\ request[c] = "none" /\ attached[c] = <<>>
    /\ pc[c] \notin {"idle", "build", "done"} => request[c] = "live"
    /\ pc[c] = "form" => Unsent(c) /\ Len(attached[c]) < Op(c).files
    /\ pc[c] \notin {"idle", "build", "form", "done"} => Len(attached[c]) = Op(c).files
    /\ pc[c] \in {"check", "assign", "type"} =>
         \/ Unsent(c) /\ Op(c).content = "json"
         \/ /\ Received(c) /\ IsSuccess(answer[c])
            /\ Op(c).result = "json" /\ response[c] = "buffered"
    /\ pc[c] = "send" => Unsent(c)
    /\ pc[c] = "awaiting" =>
         sends[c] = 1 /\ answer[c] = NoAnswer /\ response[c] = "none"
    /\ pc[c] = "problem" =>
         /\ Received(c) /\ ~IsSuccess(answer[c]) /\ answer[c].media = "problem"
         /\ response[c] = ResponseOf(c)
    /\ pc[c] = "error" =>
         /\ Received(c) /\ ~IsSuccess(answer[c])
         /\ ~(answer[c].media = "problem" /\ answer[c].payload = "valid")
         /\ response[c] \in {ResponseOf(c), "consumed"}
         /\ response[c] = "consumed" => Op(c).result = "file"
    /\ pc[c] = "read" =>
         Received(c) /\ IsSuccess(answer[c]) /\ response[c] = ResponseOf(c)

\* What remains of a call that ended: what it was told, given its exchange, and
\* what it still holds.
NoExcerpt(c) ==
    host.maximum < 0 /\ ~(answer[c].media = "problem" /\ answer[c].payload = "valid")

ToldOfException(c) ==
    LET o == outcome[c] IN
        /\ o.kind = "Transport" /\ o.cause # "none"
        /\ o.cause \in {"ArgumentNull", "Format"} => Unsent(c)
        /\ o.cause = "MissingMetadata" /\ sends[c] > 0 =>
             Op(c).result = "json" /\ IsSuccess(answer[c])
        /\ Received(c) /\ ~IsSuccess(answer[c]) /\ Op(c).result # "file" =>
             NoExcerpt(c) /\ o.cause = "ArgumentOutOfRange"

ToldOfFailure(c) ==
    LET o == outcome[c] a == answer[c] IN
        /\ o.kind = "RemoteCall" /\ o.cause = "none"
        /\ Received(c) /\ ~IsSuccess(a)
        /\ o.problem <=> a.media = "problem" /\ a.payload = "valid"
        /\ o.excerpt <= a.size /\ (o.problem \/ o.excerpt <= host.maximum)

Told(c) ==
    \/ outcome[c] = Outcome("Rejected", "none") /\ Unsent(c)
    \/ /\ outcome[c] = Returned /\ Received(c) /\ IsSuccess(answer[c])
       /\ Op(c).result = "json" => answer[c].payload # "malformed"
    \/ ToldOfFailure(c)
    \/ ToldOfException(c)
    \/ /\ outcome[c] = Outcome("Canceled", "OperationCanceled")
       /\ cancelled[c] \/ (sends[c] = 1 /\ answer[c] = NoAnswer)

Settlement(c) ==
    pc[c] = "done" =>
        /\ Told(c)
        /\ request[c] \in {"none", "disposed"}
        /\ sends[c] > 0 => Len(attached[c]) = Op(c).files
        /\ Unsent(c) \/ Received(c)
             \/ (sends[c] = 1 /\ answer[c] = NoAnswer /\ response[c] = "none")
        /\ response[c] \in OpenResponses =>
             /\ Received(c) /\ IsSuccess(answer[c]) /\ Op(c).result = "file"
             /\ outcome[c] = Returned \/ outcome[c].cause = "HttpRequest"

-----------------------------------------------------------------------------
(* Types. An excerpt's length is a number because a body of a known size    *)
(* was received.                                                            *)

OptionTypes ==
    host \in Hosts /\ resolver \in Resolvers /\ defaults \in Nat /\ readOnly \in BOOLEAN

\* Whatever is thrown is an outcome.
LEMMA CaughtType == ASSUME NEW e \in Exceptions PROVE Caught(e) \in Outcomes
BY DEF Caught, Outcome

\* Leaving the method preserves the types.
LEMMA LeaveTypes ==
    ASSUME TypeOK, NEW c \in Calls, NEW o \in Outcomes,
           NEW r \in {"none", "disposed"} \cup OpenResponses,
           Leave(c, o, r), sends' \in [Calls -> Nat],
           OptionTypes'
    PROVE  TypeOK'
<1>1. DisposeRequest(c) BY DEF Leave
<1>2. open' \in [Uploads -> BOOLEAN] BY <1>1 DEF DisposeRequest, TypeOK
<1>3. request' \in [Calls -> {"none", "live", "disposed"}]
  BY <1>1 DEF DisposeRequest, TypeOK
<1>4. outcome' \in [Calls -> Outcomes] BY DEF Leave, TypeOK
<1>. QED BY <1>2, <1>3, <1>4 DEF Leave, OptionTypes, TypeOK

\* So does throwing.
LEMMA ThrowTypes ==
    ASSUME TypeOK, NEW c \in Calls, NEW e \in Exceptions, Throw(c, e),
           sends' \in [Calls -> Nat], OptionTypes'
    PROVE  TypeOK'
<1>1. Disposed(c) \in {"none", "disposed"} \cup OpenResponses BY DEF Disposed
<1>2. Leave(c, Caught(e), Disposed(c)) BY DEF Throw
<1>. QED BY <1>1, <1>2, CaughtType, LeaveTypes

\* Going to another step does too.
LEMMA GotoTypes ==
    ASSUME TypeOK, NEW c \in Calls, NEW step \in Steps, Goto(c, step),
           request' \in [Calls -> {"none", "live", "disposed"}],
           response' \in [Calls -> {"none", "disposed"} \cup OpenResponses],
           answer' \in [Calls -> Answers \cup {NoAnswer}],
           attached' \in [Calls -> Seq(Uploads)],
           sends' \in [Calls -> Nat], OptionTypes', UNCHANGED open
    PROVE  TypeOK'
BY DEF Goto, OptionTypes, TypeOK

\* The type of the answer of a call that was answered.
LEMMA AnswerType ==
    ASSUME NEW a \in Answers
    PROVE  /\ a.status \in Nat /\ a.size \in Nat
           /\ a.media \in {"problem", "other"}
           /\ a.payload \in {"valid", "malformed", "null"}
BY EnvironmentAssumption

\* Every step of a call preserves the types.
LEMMA StepTypes ==
    ASSUME TypeOK, NEW c \in Calls, Working(c), Step(c)
    PROVE  TypeOK'
<1>1. ASSUME NEW e \in Exceptions, Throw(c, e), UNCHANGED <<sends, options>>
      PROVE  TypeOK'
  BY <1>1, ThrowTypes DEF OptionTypes, TypeOK
<1>2. ASSUME NEW o \in Outcomes, NEW r \in {response[c], Disposed(c)}, Leave(c, o, r),
             UNCHANGED sends, OptionTypes'
      PROVE  TypeOK'
  <2>1. r \in {"none", "disposed"} \cup OpenResponses BY DEF Disposed, TypeOK
  <2>. QED BY <1>2, <2>1, LeaveTypes DEF TypeOK
<1>32. UNCHANGED options => OptionTypes' BY DEF options, OptionTypes, TypeOK
<1>3. Returned \in Outcomes BY DEF Returned, Outcome
<1>4. CASE \E view \in Verbs \cup {NoVerb} : RejectVerb(c, view)
  BY <1>4, ContractAssumption DEF RejectVerb, Selected, Outcome, TypeOK
<1>5. CASE \E view \in Verbs \cup {NoVerb} : Begin(c, view)
  BY <1>5, ContractAssumption DEF Begin, Selected, TypeOK
<1>6. CASE RouteValueMissing(c) BY <1>1, <1>6 DEF RouteValueMissing
<1>7. CASE BuildRequest(c)
  BY <1>7, ContractAssumption DEF BuildRequest, AfterRequest, Goto, Op, TypeOK
<1>8. CASE BadMediaType(c) BY <1>1, <1>8 DEF BadMediaType
<1>9. CASE \E u \in Uploads : AttachUpload(c, u)
  <2>. PICK u \in Uploads : AttachUpload(c, u) BY <1>9
  <2>1. Append(attached[c], u) \in Seq(Uploads) BY DEF TypeOK
  <2>2. attached' \in [Calls -> Seq(Uploads)] BY <2>1 DEF AttachUpload, TypeOK
  <2>. QED BY <2>2, GotoTypes, <1>32 DEF AttachUpload, TypeOK
<1>10. CASE CheckResolver(c) BY <1>10 DEF CheckResolver, Goto, TypeOK
<1>11. CASE AssignResolver(c) BY <1>11 DEF AssignResolver, Goto, TypeOK
<1>12. CASE AssignTooLate(c) BY <1>1, <1>12 DEF AssignTooLate
<1>13. CASE GetTypeInfo(c) BY <1>13 DEF GetTypeInfo, Goto, TypeOK
<1>14. CASE MissingMetadata(c) BY <1>1, <1>14 DEF MissingMetadata
<1>15. CASE Send(c) BY <1>15 DEF Send, Goto, TypeOK
<1>16. CASE SendClosedUpload(c)
  BY <1>16, <1>32, ThrowTypes DEF SendClosedUpload, TypeOK
<1>17. CASE \E a \in Answers : Receive(c, a)
  BY <1>17 DEF Receive, Goto, TypeOK
<1>18. CASE NetworkFails(c) BY <1>1, <1>18 DEF NetworkFails
<1>19. CASE TimeOut(c) BY <1>1, <1>19 DEF TimeOut
<1>20. CASE ProblemParsed(c)
  <2>1. RemoteCallException(TRUE, 0) \in Outcomes BY DEF RemoteCallException
  <2>. QED BY <1>2, <1>20, <1>32, <2>1 DEF ProblemParsed
<1>21. CASE ProblemUnusable(c) BY <1>21 DEF ProblemUnusable, Goto, TypeOK
<1>22. CASE ReadExcerpt(c)
  <2>. DEFINE n == MinOf(answer[c].size, host.maximum)
  <2>1. CASE Throw(c, "AlreadyConsumed") BY <1>1, <1>22, <2>1 DEF ReadExcerpt
  <2>2. CASE Throw(c, "ArgumentOutOfRange") BY <1>1, <1>22, <2>2 DEF ReadExcerpt
  <2>3. CASE /\ response[c] # "consumed" /\ n >= 0
             /\ Leave(c, RemoteCallException(FALSE, n), Disposed(c))
    <3>1. n \in Nat
      BY <1>22, <2>3, AnswerType, HostAssumption
      DEF ReadExcerpt, Working, Received, MinOf, TypeOK
    <3>2. RemoteCallException(FALSE, n) \in Outcomes BY <3>1 DEF RemoteCallException
    <3>. QED BY <1>2, <1>22, <1>32, <2>3, <3>2 DEF ReadExcerpt
  <2>. QED BY <1>22, <2>1, <2>2, <2>3 DEF ReadExcerpt
<1>23. CASE BodyBreaks(c) BY <1>1, <1>23 DEF BodyBreaks
<1>24. CASE ReturnVoid(c) BY <1>2, <1>3, <1>24, <1>32 DEF ReturnVoid
<1>25. CASE ReadRaw(c) BY <1>2, <1>3, <1>25, <1>32 DEF ReadRaw
<1>26. CASE ReadJson(c)
  <2>1. OptionTypes' BY <1>26 DEF ReadJson, OptionTypes, TypeOK
  <2>2. CASE answer[c].payload = "malformed"
    BY <1>26, <2>1, <2>2, ThrowTypes DEF ReadJson, TypeOK
  <2>3. CASE answer[c].payload # "malformed"
    BY <1>2, <1>3, <1>26, <2>1, <2>3 DEF ReadJson
  <2>. QED BY <2>2, <2>3
<1>27. CASE ReturnFile(c) BY <1>2, <1>3, <1>27, <1>32 DEF ReturnFile
<1>28. CASE OpenStreamFails(c) BY <1>2, <1>28, <1>32, CaughtType DEF OpenStreamFails
<1>29. CASE Cancel(c) BY <1>29 DEF Cancel, local, TypeOK
<1>30. CASE ObserveCancellation(c) BY <1>1, <1>30 DEF ObserveCancellation
<1>31. CASE DisposeFile(c) BY <1>31 DEF DisposeFile, TypeOK
<1>. QED
  BY <1>4, <1>5, <1>6, <1>7, <1>8, <1>9, <1>10, <1>11, <1>12, <1>13, <1>14, <1>15, <1>16,
     <1>17, <1>18, <1>19, <1>20, <1>21, <1>22, <1>23, <1>24, <1>25, <1>26, <1>27, <1>28,
     <1>29, <1>30, <1>31
  DEF Step, Compute, ReadFailure, Network, Caller

-----------------------------------------------------------------------------
(* One call.                                                                *)

\* When an exception may leave the method.
MayThrow(c, e) ==
    /\ \/ Unsent(c)
       \/ sends[c] = 1 /\ answer[c] = NoAnswer /\ response[c] = "none"
       \/ Received(c)
    /\ \/ /\ e = "OperationCanceled"
          /\ cancelled[c] \/ (sends[c] = 1 /\ answer[c] = NoAnswer)
       \/ /\ e # "OperationCanceled"
          /\ e \in {"ArgumentNull", "Format"} => Unsent(c)
          /\ e = "MissingMetadata" /\ sends[c] > 0 =>
               Op(c).result = "json" /\ IsSuccess(answer[c])
          /\ Received(c) /\ ~IsSuccess(answer[c]) /\ Op(c).result # "file" =>
               NoExcerpt(c) /\ e = "ArgumentOutOfRange"

\* The step of a call, whatever it is, leaves it consistent.
LEMMA StepOfCall ==
    ASSUME TypeOK, NEW c \in Calls, Working(c), Settlement(c), Step(c)
    PROVE  Working(c)' /\ Settlement(c)'
<1>. USE DEF Received, Unsent, ResponseOf, Op, Goto, NoExcerpt
<1>1. CASE \E view \in Verbs \cup {NoVerb} : RejectVerb(c, view)
  BY <1>1 DEF RejectVerb, TypeOK, Working, Settlement, Told
<1>2. CASE \E view \in Verbs \cup {NoVerb} : Begin(c, view)
  BY <1>2 DEF Begin, TypeOK, Working, Settlement
<1>3. CASE BuildRequest(c)
  BY <1>3, ContractAssumption DEF BuildRequest, AfterRequest, TypeOK, Working, Settlement
<1>4. CASE \E u \in Uploads : AttachUpload(c, u)
  <2>. PICK u \in Uploads : AttachUpload(c, u) BY <1>4
  <2>1. /\ attached'[c] = Append(attached[c], u)
        /\ Len(attached'[c]) = Len(attached[c]) + 1 /\ Len(attached[c]) \in Nat
    BY DEF AttachUpload, TypeOK
  <2>2. Op(c).files \in Nat /\ Len(attached[c]) < Op(c).files
    BY ContractAssumption DEF AttachUpload, Working, TypeOK
  <2>. QED BY <2>1, <2>2 DEF AttachUpload, TypeOK, Working, Settlement
<1>5. CASE CheckResolver(c) BY <1>5 DEF CheckResolver, TypeOK, Working, Settlement
<1>6. CASE AssignResolver(c) BY <1>6 DEF AssignResolver, TypeOK, Working, Settlement
<1>7. CASE GetTypeInfo(c) BY <1>7 DEF GetTypeInfo, TypeOK, Working, Settlement
<1>8. CASE Send(c) BY <1>8 DEF Send, TypeOK, Working, Settlement
<1>9. CASE \E a \in Answers : Receive(c, a)
  BY <1>9, EnvironmentAssumption DEF Receive, TypeOK, Working, Settlement
<1>10. CASE ProblemUnusable(c)
  BY <1>10 DEF ProblemUnusable, TypeOK, Working, Settlement
<1>11. CASE Cancel(c) BY <1>11 DEF Cancel, local, TypeOK, Working, Settlement
<1>12. CASE DisposeFile(c)
  BY <1>12 DEF DisposeFile, TypeOK, Working, Settlement, Told, ToldOfFailure, ToldOfException
<1>20. ASSUME NEW o \in Outcomes, NEW r, Leave(c, o, r), NEW n \in {0, 1}, sends'[c] = n,
              pc[c] # "done", Told(c)', r \notin OpenResponses,
              n > 0 => Len(attached[c]) = Op(c).files,
              \/ answer[c] \in Answers /\ n = 1
              \/ answer[c] = NoAnswer /\ r = "none"
       PROVE  Working(c)' /\ Settlement(c)'
  <2>1. request'[c] \in {"none", "disposed"}
    BY <1>20 DEF Leave, DisposeRequest, TypeOK
  <2>. QED BY <1>20, <2>1 DEF Leave, Working, Settlement, TypeOK
<1>21. ASSUME NEW e \in Exceptions, Throw(c, e), UNCHANGED <<sends, host>>, pc[c] # "done",
              MayThrow(c, e)
       PROVE  Working(c)' /\ Settlement(c)'
  <2>1. /\ Leave(c, Caught(e), Disposed(c)) /\ Caught(e) \in Outcomes
        /\ Disposed(c) \notin OpenResponses
        /\ answer[c] = NoAnswer => Disposed(c) = "none"
    BY <1>21, CaughtType, EnvironmentAssumption DEF Throw, Disposed, MayThrow, TypeOK
  <2>2. Told(c)'
    <3>1. outcome'[c] = Caught(e) BY <2>1 DEF Leave, TypeOK
    <3>2. UNCHANGED <<answer, sends, method, verb, cancelled, host>> /\ (Unsent(c) => Unsent(c)')
      BY <1>21, <2>1, EnvironmentAssumption DEF Leave, Disposed, TypeOK
    <3>3. CASE e = "OperationCanceled"
      BY <1>21, <3>1, <3>2, <3>3 DEF Told, Caught, MayThrow
    <3>4. CASE e # "OperationCanceled"
      <4>1. outcome'[c] = Outcome("Transport", e) BY <3>1, <3>4 DEF Caught
      <4>2. outcome'[c].kind = "Transport" /\ outcome'[c].cause = e BY <4>1 DEF Outcome
      <4>3. ToldOfException(c)'
        BY <1>21, <3>2, <3>4, <4>2 DEF ToldOfException, IsSuccess, MayThrow
      <4>. QED BY <4>3 DEF Told
    <3>. QED BY <3>3, <3>4
  <2>3. sends[c] > 0 => Len(attached[c]) = Op(c).files
    BY <1>21 DEF Working, TypeOK
  <2>. QED BY <1>20, <1>21, <2>1, <2>2, <2>3, EnvironmentAssumption DEF TypeOK, MayThrow
<1>22. CASE RouteValueMissing(c)
  BY <1>21, <1>22 DEF RouteValueMissing, Working, MayThrow
<1>23. CASE BadMediaType(c)
  BY <1>21, <1>23 DEF BadMediaType, Working, MayThrow
<1>24. CASE AssignTooLate(c)
  BY <1>21, <1>24 DEF AssignTooLate, Working, MayThrow
<1>25. CASE MissingMetadata(c)
  BY <1>21, <1>25 DEF MissingMetadata, Working, MayThrow
<1>26. CASE NetworkFails(c)
  BY <1>21, <1>26, EnvironmentAssumption DEF NetworkFails, Working, MayThrow
<1>27. CASE TimeOut(c)
  BY <1>21, <1>27 DEF TimeOut, Working, MayThrow
<1>28. CASE BodyBreaks(c)
  BY <1>21, <1>28 DEF BodyBreaks, Working, MayThrow
<1>29. CASE ObserveCancellation(c)
  <2>1. \/ sends[c] = 1 /\ answer[c] = NoAnswer /\ response[c] = "none"
        \/ Received(c)
    BY <1>29 DEF ObserveCancellation, Working
  <2>2. MayThrow(c, "OperationCanceled")
    BY <1>29, <2>1 DEF ObserveCancellation, MayThrow
  <2>. QED BY <1>21, <1>29, <2>2 DEF ObserveCancellation
<1>30. CASE SendClosedUpload(c)
  <2>1. Leave(c, Caught("HttpRequest"), "none") /\ sends'[c] = 1
    BY <1>30 DEF SendClosedUpload, Throw, Disposed, Working, TypeOK
  <2>2. Told(c)'
    <3>1. outcome'[c].kind = "Transport" /\ outcome'[c].cause = "HttpRequest"
      BY <2>1 DEF Leave, Caught, Outcome, TypeOK
    <3>2. answer'[c] = NoAnswer BY <1>30, <2>1 DEF SendClosedUpload, Leave, Working
    <3>. QED BY <3>1, <3>2, EnvironmentAssumption DEF Told, ToldOfException
  <2>. QED BY <1>20, <1>30, <2>1, <2>2, CaughtType DEF SendClosedUpload, Working
<1>31. ASSUME NEW o \in Outcomes, NEW r \in {response[c], Disposed(c)}, Leave(c, o, r),
              UNCHANGED sends, Received(c), pc[c] # "done", Told(c)',
              r \in OpenResponses =>
                /\ Received(c) /\ IsSuccess(answer[c]) /\ Op(c).result = "file"
                /\ o = Returned \/ o.cause = "HttpRequest"
       PROVE  Working(c)' /\ Settlement(c)'
  <2>1. request'[c] \in {"none", "disposed"}
    BY <1>31 DEF Leave, DisposeRequest, TypeOK
  <2>2. Len(attached[c]) = Op(c).files BY <1>31 DEF Working
  <2>. QED BY <1>31, <2>1, <2>2 DEF Leave, Working, Settlement, TypeOK
<1>32. CASE ProblemParsed(c)
  <2>. DEFINE o == RemoteCallException(TRUE, 0)
  <2>1. o \in Outcomes /\ Disposed(c) \notin OpenResponses
    BY DEF RemoteCallException, Disposed
  <2>2. Received(c) /\ pc[c] # "done" BY <1>32 DEF ProblemParsed, Working
  <2>3. Told(c)'
    BY <1>32, <2>2, AnswerType
    DEF ProblemParsed, Leave, RemoteCallException, Told, ToldOfFailure, Working, TypeOK
  <2>. QED BY <1>31, <1>32, <2>1, <2>2, <2>3 DEF ProblemParsed
<1>33. CASE ReadExcerpt(c)
  <2>. DEFINE n == MinOf(answer[c].size, host.maximum)
  <2>0. host.maximum \in Int BY HostAssumption DEF TypeOK
  <2>1. Received(c) /\ pc[c] # "done" /\ UNCHANGED <<sends, host>>
    BY <1>33 DEF ReadExcerpt, Working
  <2>2. CASE Throw(c, "AlreadyConsumed") /\ response[c] = "consumed"
    BY <1>21, <1>33, <2>1, <2>2 DEF ReadExcerpt, Working, MayThrow
  <2>3. CASE Throw(c, "ArgumentOutOfRange") /\ n < 0
    <3>1. host.maximum < 0
      BY <2>0, <2>1, <2>3, AnswerType DEF MinOf
    <3>. QED BY <1>21, <1>33, <2>1, <2>3, <3>1 DEF ReadExcerpt, Working, MayThrow
  <2>4. CASE n >= 0 /\ Leave(c, RemoteCallException(FALSE, n), Disposed(c))
    <3>1. n \in Nat /\ n <= answer[c].size /\ n <= host.maximum
      BY <2>0, <2>1, <2>4, AnswerType DEF MinOf
    <3>2. RemoteCallException(FALSE, n) \in Outcomes /\ Disposed(c) \notin OpenResponses
      BY <3>1 DEF RemoteCallException, Disposed
    <3>3. Told(c)'
      BY <1>33, <2>1, <2>4, <3>1
      DEF ReadExcerpt, Leave, RemoteCallException, Told, ToldOfFailure, Working, TypeOK
    <3>. QED BY <1>31, <2>1, <2>4, <3>2, <3>3
  <2>. QED BY <1>33, <2>2, <2>3, <2>4 DEF ReadExcerpt
<1>34. ASSUME NEW r \in {response[c], Disposed(c)}, Leave(c, Returned, r), UNCHANGED sends,
              pc[c] = "read", Op(c).result = "json" => answer[c].payload # "malformed",
              r \in OpenResponses => Op(c).result = "file"
       PROVE  Working(c)' /\ Settlement(c)'
  <2>1. Returned \in Outcomes BY DEF Returned, Outcome
  <2>2. Received(c) /\ IsSuccess(answer[c]) BY <1>34 DEF Working
  <2>3. Told(c)' BY <1>34, <2>2 DEF Leave, Told, TypeOK
  <2>. QED BY <1>31, <1>34, <2>1, <2>2, <2>3
<1>35. Disposed(c) \notin OpenResponses BY DEF Disposed
<1>36. CASE ReturnVoid(c) BY <1>34, <1>35, <1>36 DEF ReturnVoid
<1>37. CASE ReadRaw(c) BY <1>34, <1>35, <1>37 DEF ReadRaw
<1>38. CASE ReadJson(c)
  <2>1. CASE Throw(c, "Json")
    BY <1>21, <1>38, <2>1 DEF ReadJson, Working, MayThrow
  <2>2. CASE answer[c].payload # "malformed" /\ Leave(c, Returned, Disposed(c))
    BY <1>34, <1>35, <1>38, <2>2 DEF ReadJson
  <2>. QED BY <1>38, <2>1, <2>2 DEF ReadJson
<1>39. CASE ReturnFile(c) BY <1>34, <1>39 DEF ReturnFile
<1>40. CASE OpenStreamFails(c)
  <2>1. Caught("HttpRequest") \in Outcomes BY CaughtType
  <2>2. Received(c) /\ IsSuccess(answer[c]) BY <1>40 DEF OpenStreamFails, Working
  <2>3. Told(c)'
    BY <1>40, <2>2, EnvironmentAssumption
    DEF OpenStreamFails, Leave, Told, ToldOfException, Caught, Outcome, TypeOK
  <2>4. Caught("HttpRequest").cause = "HttpRequest" BY DEF Caught, Outcome
  <2>. QED BY <1>31, <1>40, <2>1, <2>2, <2>3, <2>4 DEF OpenStreamFails
<1>. QED
  BY <1>1, <1>2, <1>3, <1>4, <1>5, <1>6, <1>7, <1>8, <1>9, <1>10, <1>11, <1>12, <1>22,
     <1>23, <1>24, <1>25, <1>26, <1>27, <1>28, <1>29, <1>30, <1>32, <1>33, <1>36, <1>37,
     <1>38, <1>39, <1>40
  DEF Step, Compute, ReadFailure, Network, Caller

-----------------------------------------------------------------------------
(* All calls.                                                               *)

\* What a step of one call may touch.
Footprint(c) ==
    /\ \A d \in Calls \ {c} :
         UNCHANGED <<pc[d], verb[d], request[d], response[d], answer[d], cancelled[d],
                     sends[d], outcome[d], attached[d]>>
    /\ UNCHANGED <<method, host>>
    /\ pc[c] # "idle" => UNCHANGED verb
    /\ sends'[c] >= sends[c]
    /\ pc[c] = "done" =>
         UNCHANGED <<pc, verb, attached, request, answer, cancelled, sends, outcome, shared>>

LEMMA StepFootprint ==
    ASSUME TypeOK, NEW c \in Calls, Step(c)
    PROVE  Footprint(c)
<1>1. ASSUME NEW o, NEW r, Leave(c, o, r), pc[c] # "done", sends' \in [Calls -> Nat],
             sends'[c] >= sends[c], \A d \in Calls \ {c} : sends'[d] = sends[d],
             UNCHANGED host
      PROVE  Footprint(c)
  BY <1>1 DEF Footprint, Leave, DisposeRequest, TypeOK
<1>3. ASSUME NEW o, NEW r, Leave(c, o, r), pc[c] # "done", UNCHANGED <<sends, host>>
      PROVE  Footprint(c)
  <2>1. sends' \in [Calls -> Nat] /\ sends'[c] >= sends[c] /\ host' = host
    BY <1>3 DEF TypeOK
  <2>2. \A d \in Calls \ {c} : sends'[d] = sends[d] BY <1>3
  <2>. QED BY <1>1, <1>3, <2>1, <2>2
<1>4. ASSUME NEW e, Throw(c, e), pc[c] # "done", UNCHANGED <<sends, host>> PROVE Footprint(c)
  BY <1>3, <1>4 DEF Throw
<1>5. CASE \E view \in Verbs \cup {NoVerb} : RejectVerb(c, view) \/ Begin(c, view)
  BY <1>5 DEF Footprint, RejectVerb, Begin, TypeOK
<1>6. CASE RouteValueMissing(c) \/ BadMediaType(c) \/ AssignTooLate(c) \/ MissingMetadata(c)
  BY <1>4, <1>6 DEF RouteValueMissing, BadMediaType, AssignTooLate, MissingMetadata
<1>7. CASE NetworkFails(c) \/ TimeOut(c) \/ BodyBreaks(c) \/ ObserveCancellation(c)
  BY <1>4, <1>7 DEF NetworkFails, TimeOut, BodyBreaks, ObserveCancellation
<1>8. CASE SendClosedUpload(c)
  <2>1. /\ sends' \in [Calls -> Nat] /\ sends'[c] >= sends[c]
        /\ \A d \in Calls \ {c} : sends'[d] = sends[d]
        /\ pc[c] # "done" /\ UNCHANGED host
    BY <1>8 DEF SendClosedUpload, TypeOK
  <2>. QED BY <1>1, <1>8, <2>1 DEF SendClosedUpload, Throw
<1>9. CASE ProblemParsed(c) \/ ReadExcerpt(c)
  BY <1>3, <1>4, <1>9 DEF ProblemParsed, ReadExcerpt
<1>10. CASE ReturnVoid(c) \/ ReadRaw(c) \/ ReadJson(c) \/ ReturnFile(c) \/ OpenStreamFails(c)
  BY <1>3, <1>4, <1>10 DEF ReturnVoid, ReadRaw, ReadJson, ReturnFile, OpenStreamFails
<1>11. CASE BuildRequest(c) BY <1>11 DEF Footprint, BuildRequest, Goto, TypeOK
<1>12. CASE \E u \in Uploads : AttachUpload(c, u)
  BY <1>12 DEF Footprint, AttachUpload, Goto, TypeOK
<1>13. CASE CheckResolver(c) BY <1>13 DEF Footprint, CheckResolver, Goto, TypeOK
<1>14. CASE AssignResolver(c) BY <1>14 DEF Footprint, AssignResolver, Goto, TypeOK
<1>15. CASE GetTypeInfo(c) BY <1>15 DEF Footprint, GetTypeInfo, Goto, TypeOK
<1>16. CASE Send(c) BY <1>16 DEF Footprint, Send, Goto, TypeOK
<1>19. CASE \E a \in Answers : Receive(c, a)
  BY <1>19 DEF Footprint, Receive, Goto, TypeOK
<1>20. CASE ProblemUnusable(c) BY <1>20 DEF Footprint, ProblemUnusable, Goto, TypeOK
<1>17. CASE Cancel(c) BY <1>17 DEF Footprint, Cancel, local, TypeOK
<1>18. CASE DisposeFile(c) BY <1>18 DEF Footprint, DisposeFile, TypeOK
<1>. QED
  BY <1>5, <1>6, <1>7, <1>8, <1>9, <1>10, <1>11, <1>12, <1>13, <1>14, <1>15, <1>16, <1>17,
     <1>18, <1>19, <1>20
  DEF Step, Compute, ReadFailure, Network, Caller

\* Consistent(c): everything known of one call.
Consistent(c) == Working(c) /\ Settlement(c)

\* The steps of the others leave a call consistent.
LEMMA StepOfOther ==
    ASSUME TypeOK, NEW c \in Calls, Footprint(c), NEW d \in Calls \ {c}, Consistent(d)
    PROVE  Consistent(d)'
<1>1. UNCHANGED <<pc[d], method[d], verb[d], request[d], response[d], answer[d], cancelled[d],
                  sends[d], outcome[d], attached[d], host>>
  BY DEF Footprint
<1>2. Working(d)' BY <1>1 DEF Consistent, Working, Unsent, Received, ResponseOf, Op, IsSuccess
<1>3. Told(d)' <=> Told(d)
  BY <1>1
  DEF Told, ToldOfFailure, ToldOfException, Unsent, Received, Op, NoExcerpt, IsSuccess
<1>4. Settlement(d)'
  BY <1>1, <1>3 DEF Consistent, Settlement, Unsent, Received, Op, IsSuccess
<1>. QED BY <1>2, <1>4 DEF Consistent

-----------------------------------------------------------------------------
(* The streams of the uploads.                                              *)

Closes(c, u) == Settled(c) /\ u \in Attached(c)
UploadsAccounted == \A u \in Uploads : ~open[u] <=> \E c \in Calls : Closes(c, u)

\* A step settles its call or closes nothing; settling closes the uploads that joined
\* the call's content.
LEMMA StepOnUploads ==
    ASSUME TypeOK, NEW c \in Calls, Working(c), Step(c), NEW u \in Uploads
    PROVE  open'[u] = (open[u] /\ ~(pc[c] # "done" /\ Closes(c, u)'))
<1>. DEFINE Goal == open'[u] = (open[u] /\ ~(pc[c] # "done" /\ Closes(c, u)'))
<1>. USE DEF Closes, Settled, Attached
<1>1. ASSUME NEW o, NEW r, Leave(c, o, r), pc[c] # "done" PROVE Goal
  <2>1. open'[u] = (open[u] /\ u \notin Attached(c))
    BY <1>1 DEF Leave, DisposeRequest
  <2>2. Closes(c, u)' <=> u \in Attached(c) BY <1>1 DEF Leave, TypeOK
  <2>. QED BY <1>1, <2>1, <2>2
<1>2. ASSUME NEW e, Throw(c, e), pc[c] # "done" PROVE Goal BY <1>1, <1>2 DEF Throw
<1>4. ASSUME NEW step \in Steps \ {"done"}, Goto(c, step), UNCHANGED open PROVE Goal
  BY <1>4 DEF Goto, TypeOK
<1>6. CASE \E view \in Verbs \cup {NoVerb} : RejectVerb(c, view) \/ Begin(c, view)
  <2>1. open' = open /\ attached' = attached /\ pc[c] = "idle"
    BY <1>6 DEF RejectVerb, Begin, shared
  <2>2. attached[c] = <<>> BY <2>1 DEF Working
  <2>3. ~Closes(c, u)' BY <2>1, <2>2
  <2>. QED BY <2>1, <2>3 DEF TypeOK
<1>7. CASE RouteValueMissing(c) \/ BadMediaType(c) \/ AssignTooLate(c) \/ MissingMetadata(c)
  BY <1>2, <1>7 DEF RouteValueMissing, BadMediaType, AssignTooLate, MissingMetadata
<1>8. CASE NetworkFails(c) \/ TimeOut(c) \/ BodyBreaks(c) \/ ObserveCancellation(c)
  BY <1>2, <1>8 DEF NetworkFails, TimeOut, BodyBreaks, ObserveCancellation
<1>9. CASE SendClosedUpload(c) BY <1>2, <1>9 DEF SendClosedUpload
<1>10. CASE ProblemParsed(c) \/ ReadExcerpt(c)
  BY <1>1, <1>2, <1>10 DEF ProblemParsed, ReadExcerpt
<1>11. CASE ReturnVoid(c) \/ ReadRaw(c) \/ ReadJson(c) \/ ReturnFile(c) \/ OpenStreamFails(c)
  BY <1>1, <1>2, <1>11 DEF ReturnVoid, ReadRaw, ReadJson, ReturnFile, OpenStreamFails
<1>12. CASE BuildRequest(c)
  <2>1. AfterRequest(c) \in Steps \ {"done"} BY DEF AfterRequest
  <2>. QED BY <1>4, <1>12, <2>1 DEF BuildRequest
<1>13. CASE (\E v \in Uploads : AttachUpload(c, v)) \/ ProblemUnusable(c)
  BY <1>4, <1>13 DEF AttachUpload, ProblemUnusable
<1>14. CASE CheckResolver(c) \/ AssignResolver(c) \/ GetTypeInfo(c)
  BY <1>4, <1>14 DEF CheckResolver, AssignResolver, GetTypeInfo
<1>15. CASE Send(c) BY <1>4, <1>15 DEF Send
<1>16. CASE \E a \in Answers : Receive(c, a) BY <1>4, <1>16 DEF Receive
<1>17. CASE Cancel(c) BY <1>17 DEF Cancel, local, TypeOK
<1>18. CASE DisposeFile(c) BY <1>18 DEF DisposeFile, TypeOK
<1>. QED
  BY <1>6, <1>7, <1>8, <1>9, <1>10, <1>11, <1>12, <1>13, <1>14, <1>15, <1>16, <1>17, <1>18
  DEF Step, Compute, ReadFailure, Network, Caller

\* Hence the account of the closed streams is kept.
LEMMA UploadsStayAccounted ==
    ASSUME TypeOK, TypeOK', NEW c \in Calls, Consistent(c), Step(c), UploadsAccounted
    PROVE  UploadsAccounted'
<1>1. Footprint(c) BY StepFootprint
<1>. SUFFICES ASSUME NEW u \in Uploads PROVE (~open[u] <=> \E d \in Calls : Closes(d, u))'
  BY DEF UploadsAccounted
<1>2. open'[u] = (open[u] /\ ~(pc[c] # "done" /\ Closes(c, u)'))
  BY StepOnUploads DEF Consistent
<1>3. \A d \in Calls \ {c} : Closes(d, u)' <=> Closes(d, u)
  BY <1>1 DEF Footprint, Closes, Attached, Settled
<1>4. pc[c] = "done" => (Closes(c, u)' <=> Closes(c, u))
  BY <1>1 DEF Footprint, Closes, Attached, Settled
<1>5. pc[c] # "done" => ~Closes(c, u) BY DEF Closes, Settled
<1>. QED BY <1>2, <1>3, <1>4, <1>5 DEF UploadsAccounted, TypeOK

-----------------------------------------------------------------------------
(* The serializer options.                                                  *)

\* Where the resolver comes from.
ResolverOrigin ==
    \/ host.resolver # "none" /\ resolver = host.resolver
    \/ host.resolver = "none" /\ resolver = "none"
    \/ host.resolver = "none" /\ resolver = "reflection" /\ host.reflection

\* What a call knows of the options: it assigns a resolver only where none was
\* configured and before it used any metadata itself, and a body of JSON is sent
\* only when there is a resolver.
KnowsOptions(c) ==
    /\ pc[c] = "assign" =>
         /\ host.resolver = "none" /\ host.reflection
         /\ Op(c).content = "json" => sends[c] = 0
    /\ pc[c] = "type" => resolver # "none" \/ ~host.reflection
    /\ Op(c).content = "json" /\ (pc[c] = "send" \/ sends[c] > 0) => resolver # "none"

\* Locked options were used by a call, unless the host configured them, and a call
\* that used them locked them.
LockHasReason ==
    /\ readOnly => host.resolver # "none" \/ \E d \in Calls : UsedJson(d)
    /\ \A d \in Calls : UsedJson(d) => readOnly

OptionsInv ==
    /\ ResolverOrigin
    /\ \A c \in Calls : KnowsOptions(c)
    /\ LockHasReason
    /\ AssignmentRaceNeedsAnotherCall
    /\ MetadataFailureIsTheHosts

\* The default resolver is assigned only over none or another default, by a call, before
\* the options are locked, and nothing unlocks the options.
LEMMA StepOnOptions ==
    ASSUME TypeOK, NEW c \in Calls, OptionsInv, Step(c)
    PROVE  /\ resolver # "none" => resolver' = resolver
           /\ readOnly => UNCHANGED <<resolver, defaults>>
           /\ host.resolver # "none" => UNCHANGED <<resolver, defaults>>
           /\ resolver' # resolver => AssignResolver(c)
           /\ readOnly => readOnly'
           /\ readOnly' # readOnly => Send(c) \/ ReadJson(c)
<1>1. AssignResolver(c) =>
        host.resolver = "none" /\ resolver \in {"none", "reflection"} /\ resolver' = "reflection"
  BY DEF AssignResolver, OptionsInv, KnowsOptions, ResolverOrigin
<1>2. CASE AssignResolver(c) BY <1>1, <1>2 DEF AssignResolver
<1>3. CASE Send(c) \/ ReadJson(c) BY <1>3 DEF Send, ReadJson
<1>4. CASE ~(AssignResolver(c) \/ Send(c) \/ ReadJson(c))
  <2>1. CASE Compute(c)
    BY <1>4, <2>1
    DEF Compute, RouteValueMissing, BuildRequest, BadMediaType, AttachUpload, CheckResolver,
        AssignTooLate, GetTypeInfo, MissingMetadata, SendClosedUpload, ReturnVoid, ReadRaw,
        ReturnFile, OpenStreamFails
  <2>2. CASE ReadFailure(c) \/ ObserveCancellation(c)
    <3>1. UNCHANGED resolver /\ UNCHANGED readOnly /\ UNCHANGED defaults
      BY <2>2
      DEF ReadFailure, ProblemParsed, ProblemUnusable, ReadExcerpt, ObserveCancellation
    <3>. QED BY <3>1
  <2>3. CASE Network(c)
    BY <2>3 DEF Network, Receive, NetworkFails, TimeOut, BodyBreaks
  <2>4. CASE Caller(c)
    BY <2>4 DEF Caller, RejectVerb, Begin, Cancel, DisposeFile
  <2>. QED BY <2>1, <2>2, <2>3, <2>4 DEF Step
<1>. QED BY <1>2, <1>3, <1>4

\* A use of the options is not undone.
LEMMA UsesStay ==
    ASSUME TypeOK, TypeOK', NEW c \in Calls, Footprint(c), Consistent(c),
           NEW d \in Calls, UsedJson(d)
    PROVE  UsedJson(d)'
<1>1. CASE d # c BY <1>1 DEF Footprint, UsedJson, Sent, Op
<1>2. CASE d = c
  <2>1. CASE pc[c] = "done" BY <1>2, <2>1 DEF Footprint, UsedJson, Sent, Op
  <2>2. CASE pc[c] # "done"
    <3>1. Sent(c) /\ Op(c).content = "json" /\ pc[c] # "idle"
      BY <1>2, <2>2
      DEF UsedJson, Sent, Consistent, Working, Unsent, Pending, Outcome, TypeOK
    <3>. QED BY <1>2, <3>1 DEF Footprint, UsedJson, Sent, Op, TypeOK
  <2>. QED BY <2>1, <2>2
<1>. QED BY <1>1, <1>2

\* Only the two actions that throw them cause these two exceptions.
LEMMA StepCause ==
    ASSUME TypeOK, NEW c \in Calls, Step(c)
    PROVE  \/ outcome'[c] = outcome[c]
           \/ outcome'[c].cause \notin {"ReadOnlyOptions", "MissingMetadata"}
           \/ AssignTooLate(c) /\ outcome'[c].cause = "ReadOnlyOptions"
           \/ MissingMetadata(c) /\ outcome'[c].cause = "MissingMetadata"
<1>1. ASSUME NEW o \in Outcomes, NEW r, Leave(c, o, r) PROVE outcome'[c] = o
  BY <1>1 DEF Leave, TypeOK
<1>2. ASSUME NEW e \in Exceptions, Throw(c, e) PROVE outcome'[c].cause = e
  <2>1. outcome'[c] = Caught(e) BY <1>1, <1>2, CaughtType DEF Throw
  <2>. QED BY <2>1 DEF Caught, Outcome
<1>3. ASSUME NEW n PROVE RemoteCallException(TRUE, n).cause = "none"
                         /\ RemoteCallException(FALSE, n).cause = "none"
  BY DEF RemoteCallException
<1>4. Returned.cause = "none" /\ Returned \in Outcomes BY DEF Returned, Outcome
<1>5. CASE AssignTooLate(c) BY <1>2, <1>5 DEF AssignTooLate
<1>6. CASE MissingMetadata(c) BY <1>2, <1>6 DEF MissingMetadata
<1>7. CASE RouteValueMissing(c) \/ BadMediaType(c) \/ SendClosedUpload(c)
  BY <1>2, <1>7 DEF RouteValueMissing, BadMediaType, SendClosedUpload
<1>8. CASE NetworkFails(c) \/ TimeOut(c) \/ BodyBreaks(c) \/ ObserveCancellation(c)
  BY <1>2, <1>8 DEF NetworkFails, TimeOut, BodyBreaks, ObserveCancellation
<1>9. CASE ReturnVoid(c) \/ ReadRaw(c) \/ ReadJson(c) \/ ReturnFile(c)
  BY <1>1, <1>2, <1>4, <1>9 DEF ReturnVoid, ReadRaw, ReadJson, ReturnFile
<1>10. CASE OpenStreamFails(c)
  BY <1>1, <1>10, CaughtType DEF OpenStreamFails, Caught, Outcome
<1>11. CASE ProblemParsed(c)
  BY <1>11 DEF ProblemParsed, Leave, RemoteCallException, TypeOK
<1>12. CASE ReadExcerpt(c)
  <2>. DEFINE n == MinOf(answer[c].size, host.maximum)
  <2>1. CASE Leave(c, RemoteCallException(FALSE, n), Disposed(c))
    BY <2>1 DEF Leave, RemoteCallException, TypeOK
  <2>. QED BY <1>2, <1>12, <2>1 DEF ReadExcerpt
<1>13. CASE \E view \in Verbs \cup {NoVerb} : RejectVerb(c, view)
  BY <1>13 DEF RejectVerb, Outcome, TypeOK
<1>14. CASE \/ BuildRequest(c) \/ (\E u \in Uploads : AttachUpload(c, u)) \/ CheckResolver(c) \/ AssignResolver(c)
            \/ GetTypeInfo(c) \/ Send(c) \/ ProblemUnusable(c) \/ Cancel(c)
            \/ DisposeFile(c) \/ \E a \in Answers : Receive(c, a)
            \/ \E view \in Verbs \cup {NoVerb} : Begin(c, view)
  BY <1>14
  DEF BuildRequest, AttachUpload, CheckResolver, AssignResolver, GetTypeInfo, Send,
      ProblemUnusable, Cancel, DisposeFile, Receive, Begin, Goto, local
<1>. QED
  BY <1>5, <1>6, <1>7, <1>8, <1>9, <1>10, <1>11, <1>12, <1>13, <1>14
  DEF Step, Compute, ReadFailure, Network, Caller

\* A call that comes to have used the options locks them.
LEMMA StepOnUses ==
    ASSUME TypeOK, NEW c \in Calls, Working(c), Step(c), UsedJson(c)'
    PROVE  UsedJson(c) \/ readOnly'
<1>. DEFINE Goal == UsedJson(c) \/ readOnly'
<1>. USE DEF UsedJson, Sent, Op
<1>1. ASSUME NEW o \in Outcomes, NEW r, Leave(c, o, r), UNCHANGED sends, o.cause # "Json",
             o.kind = "Returned" => Op(c).result # "json"
      PROVE  Goal
  BY <1>1 DEF Leave, TypeOK
<1>2. ASSUME NEW e \in Exceptions \ {"Json"}, Throw(c, e), UNCHANGED sends PROVE Goal
  <2>1. Caught(e) \in Outcomes /\ Caught(e).cause # "Json" /\ Caught(e).kind # "Returned"
    BY CaughtType DEF Caught, Outcome
  <2>. QED BY <1>1, <1>2, <2>1 DEF Throw
<1>3. Returned \in Outcomes /\ Returned.cause # "Json" BY DEF Returned, Outcome
<1>4. CASE \E view \in Verbs \cup {NoVerb} : RejectVerb(c, view) \/ Begin(c, view)
  BY <1>4 DEF RejectVerb, Begin, Working, Unsent, Pending, Outcome, TypeOK
<1>5. CASE RouteValueMissing(c) \/ BadMediaType(c) \/ AssignTooLate(c) \/ MissingMetadata(c)
  BY <1>2, <1>5 DEF RouteValueMissing, BadMediaType, AssignTooLate, MissingMetadata
<1>6. CASE NetworkFails(c) \/ TimeOut(c) \/ BodyBreaks(c) \/ ObserveCancellation(c)
  BY <1>2, <1>6 DEF NetworkFails, TimeOut, BodyBreaks, ObserveCancellation
<1>7. CASE SendClosedUpload(c)
  <2>1. Len(attached[c]) > 0 BY <1>7 DEF SendClosedUpload, Attached, TypeOK
  <2>2. Op(c).content = "form"
    BY <1>7, <2>1, ContractAssumption DEF SendClosedUpload, Working, TypeOK
  <2>3. outcome'[c] = Caught("HttpRequest") /\ UNCHANGED <<method, verb>>
    BY <1>7 DEF SendClosedUpload, Throw, Leave, TypeOK
  <2>. QED BY <2>2, <2>3 DEF Caught, Outcome
<1>8. CASE ProblemParsed(c)
  BY <1>8 DEF ProblemParsed, Leave, RemoteCallException, TypeOK
<1>9. CASE ReadExcerpt(c)
  <2>. DEFINE n == MinOf(answer[c].size, host.maximum)
  <2>1. CASE Leave(c, RemoteCallException(FALSE, n), Disposed(c))
    BY <1>9, <2>1 DEF ReadExcerpt, Leave, RemoteCallException, TypeOK
  <2>. QED BY <1>2, <1>9, <2>1 DEF ReadExcerpt
<1>10. CASE ReturnVoid(c) \/ ReadRaw(c) \/ ReturnFile(c)
  BY <1>1, <1>3, <1>10 DEF ReturnVoid, ReadRaw, ReturnFile
<1>11. CASE OpenStreamFails(c)
  <2>1. outcome'[c] = Caught("HttpRequest") /\ UNCHANGED <<method, verb, sends>>
    BY <1>11 DEF OpenStreamFails, Leave, TypeOK
  <2>. QED BY <2>1 DEF Caught, Outcome
<1>12. CASE ReadJson(c) BY <1>12 DEF ReadJson
<1>13. CASE Send(c) BY <1>13 DEF Send, Goto, TypeOK
<1>14. CASE \/ BuildRequest(c) \/ (\E u \in Uploads : AttachUpload(c, u)) \/ CheckResolver(c)
            \/ AssignResolver(c) \/ GetTypeInfo(c) \/ ProblemUnusable(c) \/ Cancel(c)
            \/ DisposeFile(c) \/ \E a \in Answers : Receive(c, a)
  BY <1>14
  DEF BuildRequest, AttachUpload, CheckResolver, AssignResolver, GetTypeInfo,
      ProblemUnusable, Cancel, DisposeFile, Receive, Goto, local
<1>. QED
  BY <1>4, <1>5, <1>6, <1>7, <1>8, <1>9, <1>10, <1>11, <1>12, <1>13, <1>14
  DEF Step, Compute, ReadFailure, Network, Caller

\* One conjunct of OptionsInv after the other.
LEMMA OptionsInvStays ==
    ASSUME TypeOK, TypeOK', NEW c \in Calls, Consistent(c), Step(c), OptionsInv
    PROVE  OptionsInv'
<1>. USE DEF Op
<1>1. Footprint(c) BY StepFootprint
<1>2. /\ resolver # "none" => resolver' = resolver
      /\ resolver' # resolver => AssignResolver(c)
      /\ readOnly => readOnly'
      /\ readOnly' # readOnly => Send(c) \/ ReadJson(c)
      /\ UNCHANGED host
  BY <1>1, StepOnOptions DEF Footprint
<1>3. ResolverOrigin'
  <2>1. CASE resolver' = resolver BY <1>2, <2>1 DEF OptionsInv, ResolverOrigin
  <2>2. CASE AssignResolver(c)
    BY <1>2, <2>2 DEF OptionsInv, ResolverOrigin, KnowsOptions, AssignResolver
  <2>. QED BY <1>2, <2>1, <2>2
<1>4. ASSUME NEW d \in Calls \ {c} PROVE KnowsOptions(d)'
  <2>1. UNCHANGED <<pc[d], method[d], verb[d], sends[d]>> BY <1>1 DEF Footprint
  <2>. QED BY <1>2, <2>1 DEF OptionsInv, KnowsOptions
<1>5. KnowsOptions(c)'
  <2>1. ASSUME pc'[c] \notin {"assign", "type", "send"},
               sends'[c] = sends[c] \/ Op(c)'.content = "form",
               pc[c] # "idle" \/ sends'[c] = 0
        PROVE  KnowsOptions(c)'
    BY <1>1, <1>2, <2>1 DEF Footprint, OptionsInv, KnowsOptions
  <2>2. ASSUME NEW e, Throw(c, e), sends' = sends, pc[c] # "idle" PROVE KnowsOptions(c)'
    BY <2>1, <2>2 DEF Throw, Leave, TypeOK
  <2>3. ASSUME NEW o, NEW r, Leave(c, o, r), sends' = sends, pc[c] # "idle"
        PROVE  KnowsOptions(c)'
    BY <2>1, <2>3 DEF Leave, TypeOK
  <2>4. CASE \E view \in Verbs \cup {NoVerb} : RejectVerb(c, view) \/ Begin(c, view)
    BY <2>1, <2>4 DEF RejectVerb, Begin, Consistent, Working, Unsent, TypeOK
  <2>5. CASE RouteValueMissing(c) \/ BadMediaType(c) \/ AssignTooLate(c) \/ MissingMetadata(c)
    BY <2>2, <2>5 DEF RouteValueMissing, BadMediaType, AssignTooLate, MissingMetadata
  <2>6. CASE NetworkFails(c) \/ TimeOut(c) \/ BodyBreaks(c) \/ ObserveCancellation(c)
    BY <2>2, <2>6 DEF NetworkFails, TimeOut, BodyBreaks, ObserveCancellation
  <2>7. CASE ProblemParsed(c) \/ ReadExcerpt(c)
    BY <2>2, <2>3, <2>7 DEF ProblemParsed, ReadExcerpt
  <2>8. CASE ReturnVoid(c) \/ ReadRaw(c) \/ ReadJson(c) \/ ReturnFile(c) \/ OpenStreamFails(c)
    BY <2>2, <2>3, <2>8 DEF ReturnVoid, ReadRaw, ReadJson, ReturnFile, OpenStreamFails
  <2>9. CASE SendClosedUpload(c)
    <3>1. Len(attached[c]) > 0 BY <2>9 DEF SendClosedUpload, Attached, TypeOK
    <3>2. Op(c).content = "form"
      BY <2>9, <3>1, ContractAssumption DEF SendClosedUpload, Consistent, Working, TypeOK
    <3>. QED BY <2>1, <2>9, <3>2 DEF SendClosedUpload, Throw, Leave, TypeOK
  <2>10. CASE BuildRequest(c) \/ \E u \in Uploads : AttachUpload(c, u)
    <3>1. Unsent(c) /\ sends' = sends /\ UNCHANGED <<method, verb>>
      BY <2>10 DEF BuildRequest, AttachUpload, Goto, Consistent, Working
    <3>2. Op(c).content = "json" => pc'[c] = "check"
      <4>1. CASE BuildRequest(c) BY <4>1 DEF BuildRequest, AfterRequest, Goto, TypeOK
      <4>2. CASE \E u \in Uploads : AttachUpload(c, u)
        <5>1. Len(attached[c]) \in Nat /\ Len(attached[c]) < Op(c).files
          BY <4>2 DEF AttachUpload, Consistent, Working, TypeOK
        <5>2. Op(c).files \in Nat /\ (Op(c).files > 0 => Op(c).content = "form")
          BY ContractAssumption DEF TypeOK
        <5>3. Op(c)' = Op(c) BY <3>1
        <5>. QED BY <5>1, <5>2, <5>3
      <4>. QED BY <2>10, <4>1, <4>2
    <3>3. pc'[c] \notin {"assign", "type"}
      BY <2>10 DEF BuildRequest, AttachUpload, AfterRequest, Goto, TypeOK
    <3>. QED BY <3>1, <3>2, <3>3 DEF KnowsOptions, Unsent
  <2>11. CASE CheckResolver(c)
    BY <1>2, <2>11
    DEF CheckResolver, Goto, OptionsInv, KnowsOptions, ResolverOrigin, TypeOK
  <2>12. CASE AssignResolver(c) BY <2>12 DEF AssignResolver, Goto, KnowsOptions, TypeOK
  <2>13. CASE GetTypeInfo(c)
    BY <2>13 DEF GetTypeInfo, Describes, Goto, KnowsOptions, TypeOK
  <2>14. CASE Send(c)
    BY <1>2, <2>14 DEF Send, Goto, OptionsInv, KnowsOptions, TypeOK
  <2>15. CASE \E a \in Answers : Receive(c, a)
    BY <2>1, <2>15 DEF Receive, Goto, TypeOK
  <2>16. CASE ProblemUnusable(c) BY <2>1, <2>16 DEF ProblemUnusable, Goto, TypeOK
  <2>17. CASE Cancel(c) \/ DisposeFile(c)
    <3>1. UNCHANGED <<pc, method, verb, sends, resolver, host>>
      BY <2>17 DEF Cancel, DisposeFile, local
    <3>. QED BY <3>1 DEF OptionsInv, KnowsOptions
  <2>. QED
    BY <2>4, <2>5, <2>6, <2>7, <2>8, <2>9, <2>10, <2>11, <2>12, <2>13, <2>14, <2>15, <2>16,
       <2>17
    DEF Step, Compute, ReadFailure, Network, Caller
<1>6. LockHasReason'
  <2>1. ASSUME readOnly' PROVE host'.resolver # "none" \/ \E d \in Calls : UsedJson(d)'
    <3>1. CASE Send(c)
      <4>1. readOnly \/ UsedJson(c)' BY <2>1, <3>1 DEF Send, Goto, UsedJson, Sent, TypeOK
      <4>. QED BY <1>1, <1>2, <4>1, UsesStay DEF OptionsInv, LockHasReason
    <3>2. CASE ReadJson(c)
      <4>1. Op(c)'.result = "json" BY <3>2 DEF ReadJson, Throw, Leave
      <4>2. \/ outcome'[c] = Returned
            \/ outcome'[c] = Caught("Json")
        BY <3>2 DEF ReadJson, Throw, Leave, TypeOK
      <4>3. UsedJson(c)' BY <4>1, <4>2 DEF UsedJson, Returned, Caught, Outcome
      <4>. QED BY <4>3
    <3>3. CASE readOnly
      BY <1>1, <1>2, <3>3, UsesStay DEF OptionsInv, LockHasReason
    <3>. QED BY <1>2, <2>1, <3>1, <3>2, <3>3
  <2>2. ASSUME NEW d \in Calls, UsedJson(d)' PROVE readOnly'
    <3>1. CASE d = c BY <1>2, <2>2, <3>1, StepOnUses DEF Consistent, OptionsInv, LockHasReason
    <3>2. CASE d # c
      <4>1. UNCHANGED <<sends[d], outcome[d], method[d], verb[d]>> BY <1>1, <3>2 DEF Footprint
      <4>2. UsedJson(d) BY <2>2, <4>1 DEF UsedJson, Sent
      <4>. QED BY <1>2, <4>2 DEF OptionsInv, LockHasReason
    <3>. QED BY <3>1, <3>2
  <2>. QED BY <2>1, <2>2 DEF LockHasReason
<1>7. AssignmentRaceNeedsAnotherCall'
  <2>. SUFFICES ASSUME NEW d \in Calls, outcome'[d].cause = "ReadOnlyOptions"
                PROVE  /\ host'.resolver = "none"
                       /\ \E e \in Calls \ {d} : UsedJson(e)'
    BY DEF AssignmentRaceNeedsAnotherCall
  <2>1. CASE outcome'[d] = outcome[d]
    BY <1>1, <1>2, <2>1, UsesStay DEF OptionsInv, AssignmentRaceNeedsAnotherCall
  <2>2. CASE d = c /\ AssignTooLate(c)
    <3>1. host.resolver = "none" /\ readOnly /\ ~UsedJson(c)
      BY <2>2
      DEF AssignTooLate, OptionsInv, KnowsOptions, UsedJson, Sent, Consistent, Working,
          Pending, Outcome, TypeOK
    <3>2. PICK e \in Calls : UsedJson(e) BY <3>1 DEF OptionsInv, LockHasReason
    <3>. QED BY <1>1, <1>2, <2>2, <3>1, <3>2, UsesStay
  <2>3. d # c => outcome'[d] = outcome[d] BY <1>1 DEF Footprint
  <2>. QED BY <2>1, <2>2, <2>3, StepCause
<1>8. MetadataFailureIsTheHosts'
  <2>. SUFFICES ASSUME NEW d \in Calls, outcome'[d].cause = "MissingMetadata"
                PROVE  /\ \/ host'.resolver = "foreign"
                          \/ host'.resolver = "none" /\ ~host'.reflection
                       /\ Sent(d)' => Op(d)'.result = "json" /\ IsSuccess(answer'[d])
    BY DEF MetadataFailureIsTheHosts, IsSuccess
  <2>1. CASE pc[d] = "done" /\ outcome'[d] = outcome[d]
    <3>1. UNCHANGED <<method[d], verb[d], sends[d], answer[d]>>
      BY <1>1, <2>1 DEF Footprint
    <3>. QED BY <1>2, <2>1, <3>1 DEF OptionsInv, MetadataFailureIsTheHosts, Sent, IsSuccess
  <2>2. CASE d = c /\ MissingMetadata(c)
    <3>1. \/ host.resolver = "foreign"
          \/ host.resolver = "none" /\ ~host.reflection
      BY <2>2
      DEF MissingMetadata, Describes, OptionsInv, KnowsOptions, ResolverOrigin, TypeOK
    <3>2. UNCHANGED <<method[c], verb[c], sends[c], answer[c]>>
      BY <2>2 DEF MissingMetadata, Throw, Leave
    <3>3. sends[c] > 0 => Op(c).result = "json" /\ IsSuccess(answer[c])
      BY <2>2 DEF MissingMetadata, Consistent, Working, Unsent
    <3>. QED BY <1>2, <2>2, <3>1, <3>2, <3>3 DEF Sent, IsSuccess
  <2>3. CASE d # c
    <3>1. UNCHANGED <<method[d], verb[d], sends[d], answer[d], outcome[d]>>
      BY <1>1, <2>3 DEF Footprint
    <3>. QED BY <1>2, <3>1 DEF OptionsInv, MetadataFailureIsTheHosts, Sent, IsSuccess
  <2>4. pc[c] # "done" /\ outcome'[c] = outcome[c] => outcome'[c].cause = "none"
    BY DEF Consistent, Working, Pending, Outcome
  <2>. QED BY <2>1, <2>2, <2>3, <2>4, StepCause
<1>. QED BY <1>3, <1>4, <1>5, <1>6, <1>7, <1>8 DEF OptionsInv

-----------------------------------------------------------------------------
(* The theorems.                                                            *)

Inv ==
    /\ TypeOK
    /\ \A c \in Calls : Consistent(c)
    /\ UploadsAccounted
    /\ OptionsInv

LEMMA InitInv == Init => Inv
<1>. SUFFICES ASSUME Init PROVE Inv OBVIOUS
<1>1. TypeOK
  <2>1. host \in Hosts /\ resolver \in Resolvers BY HostAssumption DEF Init
  <2>2. attached \in [Calls -> Seq(Uploads)] BY DEF Init
  <2>. QED BY <2>1, <2>2, ContractAssumption DEF Init, TypeOK, Pending, Outcome
<1>2. \A c \in Calls : Consistent(c)
  BY DEF Init, Consistent, Working, Settlement, Unsent
<1>3. UploadsAccounted BY DEF Init, UploadsAccounted, Closes, Settled
<1>4. OptionsInv
  BY HostAssumption
  DEF Init, OptionsInv, ResolverOrigin, KnowsOptions, LockHasReason, Pending, Outcome,
      UsedJson, Sent, AssignmentRaceNeedsAnotherCall, MetadataFailureIsTheHosts
<1>. QED BY <1>1, <1>2, <1>3, <1>4 DEF Inv

LEMMA NextInv == Inv /\ [Next]_vars => Inv'
<1>. SUFFICES ASSUME Inv, [Next]_vars PROVE Inv' OBVIOUS
<1>1. CASE UNCHANGED vars
  BY <1>1
  DEF vars, local, Inv, TypeOK, Consistent, Working, Settlement, Told, ToldOfFailure,
      ToldOfException, Unsent, Received, ResponseOf, Op, NoExcerpt, IsSuccess,
      UploadsAccounted, Closes, Attached, Sent, Settled, Answered, OptionsInv, ResolverOrigin,
      KnowsOptions, LockHasReason, UsedJson, AssignmentRaceNeedsAnotherCall,
      MetadataFailureIsTheHosts
<1>2. ASSUME NEW c \in Calls, Step(c) PROVE Inv'
  <2>1. TypeOK' BY <1>2, StepTypes DEF Inv, Consistent
  <2>2. Consistent(c)' BY <1>2, StepOfCall DEF Inv, Consistent
  <2>3. \A d \in Calls \ {c} : Consistent(d)'
    BY <1>2, StepFootprint, StepOfOther DEF Inv
  <2>4. UploadsAccounted' BY <1>2, <2>1, UploadsStayAccounted DEF Inv
  <2>5. OptionsInv' BY <1>2, <2>1, OptionsInvStays DEF Inv
  <2>. QED BY <2>1, <2>2, <2>3, <2>4, <2>5 DEF Inv
<1>. QED BY <1>1, <1>2 DEF Next

\* The invariant holds throughout every behaviour.
THEOREM Invariance == Spec => []Inv
<1>. QED BY InitInv, NextInv, PTL DEF Spec

\* Every variable keeps its type.
THEOREM TypesAreKept == Spec => []TypeOK
<1>1. Inv => TypeOK BY DEF Inv
<1>. QED BY <1>1, Invariance, PTL

\* An open response of a call that has ended has an owner, unless it is a file's whose
\* stream could not be opened.
THEOREM ResponsesAreOwned == Spec => []ResponseHasOwner
<1>1. Inv => ResponseHasOwner
  BY DEF Inv, Consistent, Settlement, ResponseHasOwner, Settled, Owned, Received
<1>. QED BY <1>1, Invariance, PTL

\* The uploads closed are those that joined the content of a call that ended, every
\* upload of a call is sent with it, and no request outlives its call.
THEOREM UploadsAreFollowed == Spec => []UploadsFollowRequests
<1>1. Inv => UploadsFollowRequests
  <2>. SUFFICES ASSUME Inv PROVE UploadsFollowRequests OBVIOUS
  <2>1. ASSUME NEW c \in Calls
        PROVE  /\ Settled(c) => request[c] \in {"none", "disposed"}
               /\ Sent(c) => Len(attached[c]) = Op(c).files
    BY DEF Inv, Consistent, Working, Unsent, Settlement, Settled, Sent, TypeOK
  <2>2. \A u \in Uploads : ~open[u] <=> \E c \in Calls : Settled(c) /\ u \in Attached(c)
    BY DEF Inv, UploadsAccounted, Closes
  <2>. QED BY <2>1, <2>2 DEF UploadsFollowRequests
<1>. QED BY <1>1, Invariance, PTL

\* What a caller is told is what the server answered.
THEOREM OutcomesAgree == Spec => []OutcomeAgreesWithAnswer
<1>1. Inv => OutcomeAgreesWithAnswer
  <2>. SUFFICES ASSUME Inv, NEW c \in Calls
                PROVE  LET o == outcome[c] a == answer[c] IN
                        /\ o.kind = "Returned" =>
                             /\ Answered(c) /\ IsSuccess(a)
                             /\ Op(c).result = "json" => a.payload # "malformed"
                        /\ o.kind = "RemoteCall" =>
                             /\ Answered(c) /\ ~IsSuccess(a)
                             /\ o.problem <=> a.media = "problem" /\ a.payload = "valid"
                             /\ o.excerpt <= a.size
                             /\ o.problem \/ o.excerpt <= host.maximum
    BY DEF OutcomeAgreesWithAnswer
  <2>1. CASE pc[c] # "done"
    BY <2>1 DEF Inv, Consistent, Working, Pending, Outcome
  <2>2. CASE Told(c)
    BY <2>2, EnvironmentAssumption
    DEF Told, ToldOfFailure, ToldOfException, Received, Answered, Returned, Outcome
  <2>. QED BY <2>1, <2>2 DEF Inv, Consistent, Settlement
<1>. QED BY <1>1, Invariance, PTL

\* Nothing is sent for a call that is refused or whose arguments are.
THEOREM RefusalsPrecedeSending == Spec => []RefusedBeforeSending
<1>1. Inv => RefusedBeforeSending
  <2>. SUFFICES ASSUME Inv, NEW c \in Calls,
                       \/ outcome[c].kind = "Rejected"
                       \/ outcome[c].cause \in {"ArgumentNull", "Format"}
                PROVE  ~Sent(c) /\ ~Answered(c)
    BY DEF RefusedBeforeSending
  <2>1. CASE pc[c] # "done" BY <2>1 DEF Inv, Consistent, Working, Pending, Outcome
  <2>2. CASE Told(c)
    BY <2>2
    DEF Told, ToldOfFailure, ToldOfException, Unsent, Sent, Answered, Returned, Outcome
  <2>. QED BY <2>1, <2>2 DEF Inv, Consistent, Settlement
<1>. QED BY <1>1, Invariance, PTL

\* After a response was received, only the caller cancels.
THEOREM CancellationsHaveAuthors == Spec => []CancellationHasAuthor
<1>1. Inv => CancellationHasAuthor
  <2>. SUFFICES ASSUME Inv, NEW c \in Calls, outcome[c].kind = "Canceled"
                PROVE  cancelled[c] \/ (Sent(c) /\ ~Answered(c))
    BY DEF CancellationHasAuthor
  <2>1. CASE pc[c] # "done" BY <2>1 DEF Inv, Consistent, Working, Pending, Outcome
  <2>2. CASE Told(c)
    BY <2>2
    DEF Told, ToldOfFailure, ToldOfException, Sent, Answered, Returned, Outcome
  <2>. QED BY <2>1, <2>2 DEF Inv, Consistent, Settlement
<1>. QED BY <1>1, Invariance, PTL

\* A buffered failure becomes a RemoteCallException, unless it would need an excerpt
\* and the host's bound on it is negative.
THEOREM BufferedFailuresAreReported == Spec => []BufferedFailureIsReported
<1>1. Inv => BufferedFailureIsReported
  <2>. SUFFICES ASSUME Inv, NEW c \in Calls, Op(c).result # "file",
                       pc[c] = "done", answer[c] # NoAnswer, ~IsSuccess(answer[c])
                PROVE  \/ outcome[c].kind = "RemoteCall"
                       \/ outcome[c].kind = "Canceled" /\ cancelled[c]
                       \/ NoExcerpt(c) /\ outcome[c].cause = "ArgumentOutOfRange"
    BY DEF BufferedFailureIsReported, ReportsFailure, Settled, Answered, NoExcerpt
  <2>1. Received(c)
    BY DEF Inv, Consistent, Settlement, Unsent
  <2>2. Told(c) BY DEF Inv, Consistent, Settlement
  <2>. QED
    BY <2>1, <2>2 DEF Told, ToldOfFailure, ToldOfException, Unsent, Outcome
<1>. QED BY <1>1, Invariance, PTL

\* The default resolver is assigned too late only because of another call.
THEOREM AssignmentRacesNeedAnotherCall == Spec => []AssignmentRaceNeedsAnotherCall
<1>1. Inv => AssignmentRaceNeedsAnotherCall BY DEF Inv, OptionsInv
<1>. QED BY <1>1, Invariance, PTL

\* Metadata is missing only where the host did not provide it.
THEOREM MetadataFailuresAreTheHosts == Spec => []MetadataFailureIsTheHosts
<1>1. Inv => MetadataFailureIsTheHosts BY DEF Inv, OptionsInv
<1>. QED BY <1>1, Invariance, PTL

\* No step replaces a configured resolver, nor any once a call has used the options, and
\* none unlocks the options.
THEOREM OptionsDoSettle == Spec => OptionsSettle
<1>. DEFINE A == /\ host.resolver # "none" \/ (\E c \in Calls : UsedJson(c)) =>
                      UNCHANGED <<resolver, defaults>>
                 /\ resolver # "none" => resolver' # "none"
                 /\ readOnly => readOnly'
<1>1. Inv /\ [Next]_vars => [A]_vars
  <2>. SUFFICES ASSUME Inv, NEW c \in Calls, Step(c) PROVE A
    BY DEF Next
  <2>1. (\E d \in Calls : UsedJson(d)) => readOnly BY DEF Inv, OptionsInv, LockHasReason
  <2>. QED BY <2>1, StepOnOptions DEF Inv
<1>2. Spec => [][A]_vars BY <1>1, Invariance, PTL DEF Spec
<1>. QED BY <1>2 DEF OptionsSettle

-----------------------------------------------------------------------------
(* A call gets done: every step of it leaves fewer, whatever the others do. *)

\* The uploads of a call that have not joined its content.
Parts(c) == Op(c).files - Len(attached[c])

\* The steps that a call's method has ahead at most: its uploads join the content one by
\* one, the metadata is resolved once before the request is sent and once after, and a
\* file is disposed in the end.
Ahead(c) ==
    CASE pc[c] = "idle"     -> 12 + MaximumFiles
      [] pc[c] = "build"    -> 11 + MaximumFiles
      [] pc[c] = "form"     -> 7 + Parts(c)
      [] pc[c] = "check"    -> IF response[c] = "none" THEN 10 ELSE 5
      [] pc[c] = "assign"   -> IF response[c] = "none" THEN 9 ELSE 4
      [] pc[c] = "type"     -> IF response[c] = "none" THEN 8 ELSE 3
      [] pc[c] = "send"     -> 7
      [] pc[c] = "awaiting" -> 6
      [] pc[c] = "problem"  -> 3
      [] pc[c] \in {"error", "read"} -> 2
      [] OTHER -> IF response[c] = "stream" THEN 1 ELSE 0

\* And one more, its caller's cancellation.
Left(c) == Ahead(c) + (IF cancelled[c] THEN 0 ELSE 1)

\* A step of c is one less for c, and none for the others.
Advances(c) ==
    /\ Left(c) \in 1..(13 + MaximumFiles) /\ Left(c)' \in Nat /\ Left(c)' < Left(c)
    /\ \A d \in Calls \ {c} : Left(d)' = Left(d)

\* They are a number, and the uploads still to be attached are some.
LEMMA AheadType ==
    ASSUME TypeOK, NEW c \in Calls, Working(c)
    PROVE  Ahead(c) \in 0..(12 + MaximumFiles) /\ (pc[c] # "done" => Ahead(c) >= 2)
<1>1. MaximumFiles \in Nat BY ContractAssumption
<1>2. pc[c] = "form" => Parts(c) \in 1..MaximumFiles
  <2>1. Op(c).files \in 0..MaximumFiles /\ Len(attached[c]) \in Nat
    BY ContractAssumption DEF TypeOK, Op
  <2>. QED BY <1>1, <2>1 DEF Parts, Working
<1>3. pc[c] \in Steps BY DEF TypeOK
<1>. QED BY <1>1, <1>2, <1>3 DEF Ahead

\* With the caller's cancellation they are one more.
LEMMA LeftType ==
    ASSUME TypeOK, NEW c \in Calls, Working(c)
    PROVE  Left(c) \in 0..(13 + MaximumFiles)
<1>1. MaximumFiles \in Nat BY ContractAssumption
<1>. QED BY <1>1, AheadType DEF Left

\* Every step is one that advances.
LEMMA StepAdvances ==
    ASSUME TypeOK, NEW c \in Calls, Working(c), Step(c), TypeOK', Working(c)'
    PROVE  Advances(c)
<1>. DEFINE Lowers == Left(c)' < Left(c)
<1>4. MaximumFiles \in Nat BY ContractAssumption
<1>5. pc[c] = "form" => Parts(c) \in 1..MaximumFiles
  <2>1. Op(c).files \in 0..MaximumFiles /\ Len(attached[c]) \in Nat
    BY ContractAssumption DEF TypeOK, Op
  <2>. QED BY <1>4, <2>1 DEF Parts, Working
<1>6. pc'[c] = "form" => Parts(c)' \in 1..MaximumFiles
  <2>1. Op(c)'.files \in 0..MaximumFiles /\ Len(attached'[c]) \in Nat
    BY ContractAssumption DEF TypeOK, Op
  <2>. QED BY <1>4, <2>1 DEF Parts, Working
<1>7. Ahead(c) \in 0..(12 + MaximumFiles) /\ (pc[c] # "done" => Ahead(c) >= 2)
  BY AheadType
<1>8. Ahead(c)' \in 0..(12 + MaximumFiles)
  <2>1. pc'[c] \in Steps BY DEF TypeOK
  <2>. QED BY <1>4, <1>6, <2>1 DEF Ahead
<1>1. Lowers
  <2>. USE DEF Left, Ahead
  <2>1. ASSUME NEW o, NEW r, Leave(c, o, r), pc[c] # "done" PROVE Lowers
    <3>1. Ahead(c)' \in 0..1 /\ UNCHANGED cancelled BY <2>1 DEF Leave, TypeOK
    <3>2. Ahead(c) >= 2 /\ Ahead(c) \in Nat BY <1>4, <1>7, <2>1
    <3>. HIDE DEF Ahead
    <3>. QED BY <3>1, <3>2
  <2>2. ASSUME NEW e, Throw(c, e), pc[c] # "done" PROVE Lowers
    BY <2>1, <2>2 DEF Throw
  <2>3. CASE \E view \in Verbs \cup {NoVerb} : RejectVerb(c, view) \/ Begin(c, view)
    <3>1. pc[c] = "idle" /\ pc'[c] \in {"build", "done"} /\ UNCHANGED cancelled
      BY <2>3 DEF RejectVerb, Begin, TypeOK
    <3>2. response'[c] = "none" BY <2>3 DEF RejectVerb, Begin, Working, Unsent
    <3>. QED BY <1>4, <3>1, <3>2
  <2>4. CASE RouteValueMissing(c) \/ BadMediaType(c) \/ AssignTooLate(c) \/ MissingMetadata(c)
    BY <2>2, <2>4 DEF RouteValueMissing, BadMediaType, AssignTooLate, MissingMetadata
  <2>5. CASE NetworkFails(c) \/ TimeOut(c) \/ BodyBreaks(c) \/ ObserveCancellation(c)
    BY <2>2, <2>5 DEF NetworkFails, TimeOut, BodyBreaks, ObserveCancellation
  <2>6. CASE SendClosedUpload(c) \/ ProblemParsed(c) \/ ReadExcerpt(c)
    BY <2>1, <2>2, <2>6 DEF SendClosedUpload, ProblemParsed, ReadExcerpt
  <2>7. CASE ReturnVoid(c) \/ ReadRaw(c) \/ ReadJson(c) \/ ReturnFile(c) \/ OpenStreamFails(c)
    BY <2>1, <2>2, <2>7 DEF ReturnVoid, ReadRaw, ReadJson, ReturnFile, OpenStreamFails
  <2>8. CASE BuildRequest(c)
    <3>1. pc[c] = "build" /\ response' = response /\ response[c] = "none" /\ UNCHANGED cancelled
      BY <2>8 DEF BuildRequest, Goto, Working, Unsent
    <3>2. pc'[c] \in {"send", "check", "form"}
      BY <2>8 DEF BuildRequest, AfterRequest, Goto, TypeOK
    <3>. QED BY <1>4, <1>6, <3>1, <3>2 DEF TypeOK
  <2>9. CASE \E u \in Uploads : AttachUpload(c, u)
    <3>. PICK u \in Uploads : AttachUpload(c, u) BY <2>9
    <3>1. Len(attached'[c]) = Len(attached[c]) + 1 BY DEF AttachUpload, TypeOK
    <3>2. pc[c] = "form" /\ pc'[c] \in {"form", "send"} /\ UNCHANGED <<method, verb, cancelled>>
      BY DEF AttachUpload, Goto, TypeOK
    <3>3. Op(c)' = Op(c) BY <3>2 DEF Op
    <3>4. Op(c).files \in Nat /\ Len(attached[c]) \in Nat BY ContractAssumption DEF TypeOK, Op
    <3>5. Parts(c)' = Parts(c) - 1 BY <3>1, <3>3, <3>4 DEF Parts
    <3>. QED BY <1>4, <1>5, <3>2, <3>5
  <2>10. CASE CheckResolver(c) \/ AssignResolver(c) \/ GetTypeInfo(c)
    BY <2>10 DEF CheckResolver, AssignResolver, GetTypeInfo, Goto, TypeOK
  <2>11. CASE Send(c) BY <2>11 DEF Send, Goto, TypeOK
  <2>12. CASE \E a \in Answers : Receive(c, a)
    BY <2>12 DEF Receive, Goto, Working, TypeOK
  <2>13. CASE ProblemUnusable(c)
    <3>1. pc[c] = "problem" /\ pc'[c] = "error" /\ UNCHANGED cancelled
      BY <2>13 DEF ProblemUnusable, Goto, TypeOK
    <3>. QED BY <3>1
  <2>14. CASE Cancel(c)
    <3>1. Ahead(c)' = Ahead(c) BY <2>14 DEF Cancel, local, Parts, Op
    <3>2. ~cancelled[c] /\ cancelled'[c] BY <2>14 DEF Cancel, TypeOK
    <3>. HIDE DEF Ahead
    <3>. QED BY <1>4, <1>7, <3>1, <3>2
  <2>15. CASE DisposeFile(c) BY <2>15 DEF DisposeFile, TypeOK
  <2>. QED
    BY <2>3, <2>4, <2>5, <2>6, <2>7, <2>8, <2>9, <2>10, <2>11, <2>12, <2>13, <2>14, <2>15
    DEF Step, Compute, ReadFailure, Network, Caller
<1>2. \A d \in Calls \ {c} : Left(d)' = Left(d)
  BY StepFootprint DEF Footprint, Left, Ahead, Parts, Op
<1>3. Left(c) \in 0..(13 + MaximumFiles) /\ Left(c)' \in 0..(13 + MaximumFiles)
  BY <1>4, <1>7, <1>8 DEF Left
<1>. QED BY <1>1, <1>2, <1>3, <1>4 DEF Advances

\* A call ends after thirteen steps at most and one for each upload, those of its caller
\* among them, however many calls share the client: none of them makes another repeat a step, not even the race for
\* the serializer options, and no failure makes a method go back.
THEOREM CallsGetDone == Spec => [][\E c \in Calls : Advances(c)]_vars
<1>1. Inv /\ [Next]_vars /\ Inv' => [\E c \in Calls : Advances(c)]_vars
  <2>. SUFFICES ASSUME Inv, Inv', NEW c \in Calls, Step(c) PROVE Advances(c)
    BY DEF Next
  <2>. QED BY StepAdvances DEF Inv, Consistent
<1>. QED BY <1>1, Invariance, PTL DEF Spec
=============================================================================
