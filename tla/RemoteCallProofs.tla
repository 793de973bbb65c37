-------------------------- MODULE RemoteCallProofs --------------------------
(***************************************************************************)
(* Theorems about RemoteCall, for any contract, any number of calls and    *)
(* any host. The invariants of the two ends are proved in ClientCallProofs *)
(* and ServerEndpointProofs; here they are joined.                         *)
(***************************************************************************)
EXTENDS RemoteCall, TLAPS

ClientSide == INSTANCE ClientCallProofs WITH Operation <- ClientOperation
ServerSide == INSTANCE ServerEndpointProofs
    WITH Requests <- Calls, Operations <- AllOperations, pc <- handler

-----------------------------------------------------------------------------
(* What the ends assume of their constants is what RemoteCall assumes.      *)

\* What the proxies do is derived from the handlers, and typed as ClientCall expects.
LEMMA ClientContract ==
    /\ Exposed \in [Methods -> SUBSET Verbs]
    /\ ClientDefault \in [Methods -> Verbs]
    /\ \A m \in Methods : ClientDefault[m] \in Exposed[m]
    /\ ClientOperation \in
         [Methods -> [Verbs -> [content : ClientSide!Contents, files : 0..MaximumFiles,
                                result : ClientSide!Results]]]
    /\ \A m \in Methods, v \in Verbs :
         ClientOperation[m][v].files > 0 => ClientOperation[m][v].content = "form"
    /\ NoVerb \notin Verbs
    /\ MaximumFiles \in Nat
<1>1. \A m \in Methods, v \in Verbs :
        /\ Handles[<<m, v>>].result \in Server!Results
        /\ Files[<<m, v>>] \in 0..MaximumFiles
        /\ Files[<<m, v>>] > 0 => Handles[<<m, v>>].reads /\ ~Handles[<<m, v>>].body
  BY ContractAssumption DEF AllOperations
<1>2. \A m \in Methods, v \in Verbs :
        ClientOperation[m][v] \in [content : ClientSide!Contents, files : 0..MaximumFiles,
                                   result : ClientSide!Results]
  BY <1>1 DEF ClientOperation, Server!Results, ClientSide!Contents, ClientSide!Results
<1>3. \A m \in Methods, v \in Verbs :
        ClientOperation[m][v].files > 0 => ClientOperation[m][v].content = "form"
  BY <1>1 DEF ClientOperation
<1> QED BY <1>2, <1>3, ContractAssumption DEF ClientOperation

\* The endpoints' responses are among those ClientCall was proved for.
LEMMA ClientEnvironment ==
    /\ LeaveOpen \subseteq Uploads
    /\ Answers \subseteq [status : Nat, media : {"problem", "other"},
                          payload : {"valid", "malformed", "null"}, size : Nat]
    /\ NoAnswer \notin Answers
    /\ BadArguments \in BOOLEAN
<1>1. \A o \in AllOperations : Handles[o].success \in Nat BY ContractAssumption
<1>2. Statuses \subseteq Nat
  <2>1. RemoteStatuses \subseteq Nat BY EnvironmentAssumption
  <2>2. Declared \subseteq Nat BY <1>1 DEF Declared
  <2> QED BY <2>1, <2>2 DEF Statuses, Server!Withheld
<1>3. Answers \subseteq [status : Nat, media : {"problem", "other"},
                        payload : {"valid", "malformed", "null"}, size : Nat]
  <2> SUFFICES ASSUME NEW a \in Answers
               PROVE  a \in [status : Nat, media : {"problem", "other"},
                             payload : {"valid", "malformed", "null"}, size : Nat]
    OBVIOUS
  <2>1. a \in [status : Statuses, media : {"problem", "other"},
               payload : {"valid", "malformed", "null"}, size : 0..1]
    BY DEF Answers
  <2>2. a.status \in Statuses /\ a.size \in 0..1 BY <2>1
  <2>3. a.status \in Nat BY <1>2, <2>2
  <2>4. a.size \in Nat BY <2>2
  <2> QED BY <2>1, <2>3, <2>4
<1> QED BY <1>3, EnvironmentAssumption

\* So are the client applications.
LEMMA ClientHosts ==
    Hosts \subseteq [resolver : ClientSide!Resolvers, reflection : BOOLEAN, maximum : Int]
BY EnvironmentAssumption DEF Client!Resolvers, ClientSide!Resolvers

\* The operations are those of ServerEndpoint.
LEMMA ServerOperations ==
    /\ Handles \in [AllOperations -> [body : BOOLEAN, reads : BOOLEAN,
                                      defects : SUBSET ServerSide!Defects,
                                      result : ServerSide!Results,
                                      success : {0} \cup 200..299, dynamic : BOOLEAN]]
    /\ NoOperation \notin AllOperations
    /\ DescribedBodies \subseteq AllOperations
    /\ DescribedResults \subseteq AllOperations
BY ContractAssumption
DEF Server!Defects, Server!Results, ServerSide!Defects, ServerSide!Results

\* An expected service error has an error's status.
LEMMA ServerStatuses == RemoteStatuses \subseteq 400..599
BY EnvironmentAssumption

-----------------------------------------------------------------------------
(* ClientCallProofs speaks of the same steps as ClientCall.                 *)

\* The proxy of a call has one operation.
LEMMA SameOp == \A c : Client!Op(c) = ClientSide!Op(c)
BY DEF Client!Op, ClientSide!Op

\* Both ends begin as they do alone.
LEMMA SameInit == (Client!Init <=> ClientSide!Init) /\ (Server!Init <=> ServerSide!Init)
BY DEF Client!Init, ClientSide!Init, Client!Pending, ClientSide!Pending,
       Client!Outcome, ClientSide!Outcome, Server!Init, ServerSide!Init,
       Server!NoFault, ServerSide!NoFault

\* The proxy's helpers are the same.
LEMMA SameLeave ==
    ASSUME NEW c
    PROVE  /\ \A o, r : Client!Leave(c, o, r) <=> ClientSide!Leave(c, o, r)
           /\ \A e : Client!Throw(c, e) <=> ClientSide!Throw(c, e)
           /\ \A step : Client!Goto(c, step) <=> ClientSide!Goto(c, step)
BY DEF Client!Leave, ClientSide!Leave, Client!Throw, ClientSide!Throw, Client!Caught,
       ClientSide!Caught, Client!Outcome, ClientSide!Outcome, Client!Disposed,
       ClientSide!Disposed, Client!DisposeRequest, ClientSide!DisposeRequest,
       Client!Attached, ClientSide!Attached,
       Client!Goto, ClientSide!Goto

\* So are its steps.
LEMMA SameStep == ASSUME NEW c PROVE Client!Step(c) <=> ClientSide!Step(c)
<1>1. Client!Compute(c) <=> ClientSide!Compute(c)
  <2>1. /\ Client!BuildRequest(c) <=> ClientSide!BuildRequest(c)
        /\ Client!RouteValueMissing(c) <=> ClientSide!RouteValueMissing(c)
        /\ \A u : Client!AttachUpload(c, u) <=> ClientSide!AttachUpload(c, u)
        /\ Client!BadMediaType(c) <=> ClientSide!BadMediaType(c)
    BY SameOp, SameLeave
    DEF Client!shared, ClientSide!shared, Client!options, ClientSide!options, Client!BuildRequest, ClientSide!BuildRequest, Client!RouteValueMissing,
        ClientSide!RouteValueMissing, Client!AttachUpload, ClientSide!AttachUpload,
        Client!BadMediaType, ClientSide!BadMediaType, Client!AfterRequest,
        ClientSide!AfterRequest
  <2>2. /\ Client!CheckResolver(c) <=> ClientSide!CheckResolver(c)
        /\ Client!AssignResolver(c) <=> ClientSide!AssignResolver(c)
        /\ Client!AssignTooLate(c) <=> ClientSide!AssignTooLate(c)
        /\ Client!GetTypeInfo(c) <=> ClientSide!GetTypeInfo(c)
        /\ Client!MissingMetadata(c) <=> ClientSide!MissingMetadata(c)
    BY SameLeave
    DEF Client!shared, ClientSide!shared, Client!options, ClientSide!options, Client!CheckResolver, ClientSide!CheckResolver, Client!AssignResolver,
        ClientSide!AssignResolver, Client!AssignTooLate, ClientSide!AssignTooLate,
        Client!GetTypeInfo, ClientSide!GetTypeInfo, Client!MissingMetadata,
        ClientSide!MissingMetadata, Client!Describes, ClientSide!Describes
  <2>3. /\ Client!Send(c) <=> ClientSide!Send(c)
        /\ Client!SendClosedUpload(c) <=> ClientSide!SendClosedUpload(c)
    BY SameOp, SameLeave
    DEF Client!Send, ClientSide!Send, Client!SendClosedUpload, ClientSide!SendClosedUpload,
        Client!Attached, ClientSide!Attached, Client!options, ClientSide!options
  <2>4. /\ Client!ReturnVoid(c) <=> ClientSide!ReturnVoid(c)
        /\ Client!ReadRaw(c) <=> ClientSide!ReadRaw(c)
        /\ Client!ReadJson(c) <=> ClientSide!ReadJson(c)
        /\ Client!ReturnFile(c) <=> ClientSide!ReturnFile(c)
        /\ Client!OpenStreamFails(c) <=> ClientSide!OpenStreamFails(c)
    BY SameOp, SameLeave
    DEF Client!options, ClientSide!options, Client!ReturnVoid, ClientSide!ReturnVoid, Client!ReadRaw, ClientSide!ReadRaw,
        Client!ReadJson, ClientSide!ReadJson, Client!ReturnFile, ClientSide!ReturnFile,
        Client!OpenStreamFails, ClientSide!OpenStreamFails, Client!Returned,
        ClientSide!Returned, Client!Outcome, ClientSide!Outcome, Client!Disposed,
        ClientSide!Disposed, Client!Caught, ClientSide!Caught
  <2> QED BY <2>1, <2>2, <2>3, <2>4 DEF Client!Compute, ClientSide!Compute
<1>2. Client!ReadFailure(c) <=> ClientSide!ReadFailure(c)
  BY SameLeave
  DEF Client!shared, ClientSide!shared, Client!options, ClientSide!options, Client!ReadFailure, ClientSide!ReadFailure, Client!ProblemParsed,
      ClientSide!ProblemParsed, Client!ProblemUnusable, ClientSide!ProblemUnusable,
      Client!ReadExcerpt, ClientSide!ReadExcerpt, Client!MinOf, ClientSide!MinOf,
      Client!RemoteCallException, ClientSide!RemoteCallException, Client!Disposed,
      ClientSide!Disposed
<1>3. Client!Network(c) <=> ClientSide!Network(c)
  BY SameOp, SameLeave
  DEF Client!shared, ClientSide!shared, Client!options, ClientSide!options, Client!Network, ClientSide!Network, Client!Receive, ClientSide!Receive,
      Client!NetworkFails, ClientSide!NetworkFails, Client!TimeOut, ClientSide!TimeOut,
      Client!BodyBreaks, ClientSide!BodyBreaks, Client!IsSuccess, ClientSide!IsSuccess
<1>4. Client!Caller(c) <=> ClientSide!Caller(c)
  BY DEF
      Client!shared, ClientSide!shared, Client!options, ClientSide!options, Client!local, ClientSide!local, Client!Caller, ClientSide!Caller, Client!RejectVerb, ClientSide!RejectVerb,
      Client!Begin, ClientSide!Begin, Client!Selected, ClientSide!Selected, Client!Outcome,
      ClientSide!Outcome, Client!Cancel, ClientSide!Cancel, Client!DisposeFile,
      ClientSide!DisposeFile, Client!Returned, ClientSide!Returned
<1>5. Client!ObserveCancellation(c) <=> ClientSide!ObserveCancellation(c)
  BY SameOp, SameLeave
  DEF Client!ObserveCancellation, ClientSide!ObserveCancellation, Client!options,
      ClientSide!options
<1> QED BY <1>1, <1>2, <1>3, <1>4, <1>5 DEF Client!Step, ClientSide!Step

\* The handler's helpers are the same.
LEMMA SameThrow ==
    ASSUME NEW c
    PROVE  /\ \A e : Server!Throw(c, e) <=> ServerSide!Throw(c, e)
           /\ \A step : Server!Goto(c, step) <=> ServerSide!Goto(c, step)
           /\ \A code, what : Server!Answer(c, code, what) <=> ServerSide!Answer(c, code, what)
           /\ Server!ReleaseContent(c) <=> ServerSide!ReleaseContent(c)
BY DEF Server!Throw, ServerSide!Throw, Server!Goto, ServerSide!Goto, Server!InTry,
       ServerSide!InTry, Server!DynamicCode, ServerSide!DynamicCode, Server!Op, ServerSide!Op,
       Server!ReleaseContent, ServerSide!ReleaseContent, Server!Answer, ServerSide!Answer,
       Server!response, ServerSide!response

\* So are its steps, and what the framework and the client do to it.
LEMMA SameServerStep ==
    ASSUME NEW c
    PROVE  /\ Server!Handle(c) <=> ServerSide!Handle(c)
           /\ Server!Service(c) <=> ServerSide!Service(c)
           /\ \A o, i : Server!Arrive(c, o, i) <=> ServerSide!Arrive(c, o, i)
           /\ Server!Abort(c) <=> ServerSide!Abort(c)
<1> USE SameThrow
    DEF Server!Op, ServerSide!Op, Server!response, ServerSide!response, Server!file,
        ServerSide!file
<1>1. /\ Server!ResolveService(c) <=> ServerSide!ResolveService(c)
      /\ Server!Bind(c) <=> ServerSide!Bind(c)
      /\ Server!BindUndescribed(c) <=> ServerSide!BindUndescribed(c)
      /\ Server!FrameworkRefuses(c) <=> ServerSide!FrameworkRefuses(c)
      /\ Server!BindMissing(c) <=> ServerSide!BindMissing(c)
      /\ Server!BindMalformed(c) <=> ServerSide!BindMalformed(c)
      /\ Server!BindAborted(c) <=> ServerSide!BindAborted(c)
      /\ Server!CallService(c) <=> ServerSide!CallService(c)
  BY DEF Server!ResolveService, ServerSide!ResolveService, Server!Bind, ServerSide!Bind,
         Server!BindUndescribed, ServerSide!BindUndescribed, Server!FrameworkRefuses,
         ServerSide!FrameworkRefuses, Server!BindMissing, ServerSide!BindMissing,
         Server!BindMalformed, ServerSide!BindMalformed, Server!BindAborted,
         ServerSide!BindAborted, Server!CallService, ServerSide!CallService,
         Server!BodyIsDescribed, ServerSide!BodyIsDescribed, Server!DynamicCode,
         ServerSide!DynamicCode, Server!Other, ServerSide!Other, Server!BadRequest,
         ServerSide!BadRequest
<1>2. /\ Server!Describe(c) <=> ServerSide!Describe(c)
      /\ Server!DescribeFails(c) <=> ServerSide!DescribeFails(c)
      /\ Server!NullRefused(c) <=> ServerSide!NullRefused(c)
      /\ Server!WriteNothing(c) <=> ServerSide!WriteNothing(c)
      /\ Server!StartBody(c) <=> ServerSide!StartBody(c)
      /\ Server!Withhold(c) <=> ServerSide!Withhold(c)
      /\ Server!BodyRefused(c) <=> ServerSide!BodyRefused(c)
      /\ Server!FinishBody(c) <=> ServerSide!FinishBody(c)
  BY DEF Server!Describe, ServerSide!Describe, Server!DescribeFails,
         ServerSide!DescribeFails, Server!NullRefused, ServerSide!NullRefused,
         Server!WriteNothing, ServerSide!WriteNothing, Server!StartBody,
         ServerSide!StartBody, Server!BodyRefused, ServerSide!BodyRefused,
         Server!FinishBody, ServerSide!FinishBody, Server!Other, ServerSide!Other,
         Server!HasBody, ServerSide!HasBody, Server!Withhold, ServerSide!Withhold,
         Server!Withheld, ServerSide!Withheld, Server!WrittenStatuses,
         ServerSide!WrittenStatuses, Server!SuccessStatus, ServerSide!SuccessStatus,
         Server!DefaultStatus, ServerSide!DefaultStatus, Server!Bodiless,
         ServerSide!Bodiless
<1>3. /\ Server!ExecuteProblem(c) <=> ServerSide!ExecuteProblem(c)
      /\ Server!ProblemFails(c) <=> ServerSide!ProblemFails(c)
      /\ Server!HostAnswers(c) <=> ServerSide!HostAnswers(c)
      /\ Server!HostBreaks(c) <=> ServerSide!HostBreaks(c)
      /\ Server!Abort(c) <=> ServerSide!Abort(c)
      /\ \A o, i : Server!Arrive(c, o, i) <=> ServerSide!Arrive(c, o, i)
  BY DEF Server!ExecuteProblem, ServerSide!ExecuteProblem, Server!ProblemFails,
         ServerSide!ProblemFails, Server!HostAnswers, ServerSide!HostAnswers,
         Server!HostBreaks, ServerSide!HostBreaks, Server!Abort, ServerSide!Abort,
         Server!Arrive, ServerSide!Arrive
<1>4. Server!Service(c) <=> ServerSide!Service(c)
  BY DEF Server!Service, ServerSide!Service, Server!ServiceReturns,
         ServerSide!ServiceReturns, Server!ValuesOf, ServerSide!ValuesOf,
         Server!ActivationFails, ServerSide!ActivationFails, Server!ServiceThrows,
         ServerSide!ServiceThrows, Server!BodyFails, ServerSide!BodyFails,
         Server!HasBody, ServerSide!HasBody, Server!Thrown, ServerSide!Thrown,
         Server!Other, ServerSide!Other, Server!Remote, ServerSide!Remote
<1> QED BY <1>1, <1>2, <1>3, <1>4 DEF Server!Handle, ServerSide!Handle

-----------------------------------------------------------------------------
(* What a step of the endpoint may do, to its request and to the others.    *)

\* Every status that is written is one of the contract.
StatusKnown(c) ==
    /\ status[c] \in {0} \cup Statuses
    /\ fault[c].kind = "Remote" => fault[c].status \in RemoteStatuses

Active == {"resolve", "bind", "running", "describe", "write", "body"}

\* The service is called or returns, or something is thrown, or it is written; and a
\* response that has started keeps its status.
ServerMove(c) ==
    /\ handler[c] \notin {"none", "done"} /\ handler'[c] # "none"
    /\ operation'[c] = operation[c]
    /\ \/ /\ handler[c] = "call" /\ executed'[c] = executed[c] + 1
          /\ result'[c] = result[c] /\ fault'[c] = fault[c]
       \/ /\ handler[c] = "running" /\ result'[c] # "none"
          /\ executed'[c] = executed[c] /\ fault'[c] = fault[c]
       \/ /\ executed'[c] = executed[c] /\ result'[c] = result[c]
          /\ fault'[c] # fault[c] => handler[c] \in Active
          /\ handler[c] = "running" => fault'[c].at = "running"
    /\ started[c] => /\ started'[c] /\ status'[c] = status[c]
                     /\ body'[c] \in {body[c], "whole", "broken"}
    /\ ~started[c] /\ started'[c] => handler'[c] = "body" /\ body'[c] = "partial"
    /\ StatusKnown(c)'

\* Throwing is such a step.
LEMMA ThrowMoves ==
    ASSUME ServerSide!TypeOK, NEW c \in Calls, StatusKnown(c), handler[c] \in Active,
           NEW e, ServerSide!Throw(c, e), e.kind = "Remote" => e.status \in RemoteStatuses
    PROVE  ServerMove(c)
BY DEF ServerSide!Throw, ServerSide!Goto, ServerSide!ReleaseContent, ServerSide!response,
       ServerSide!TypeOK, ServerMove, StatusKnown, Active

\* What a result is written under is a status of the contract.
LEMMA ContractStatuses ==
    ASSUME NEW o \in AllOperations
    PROVE  /\ ServerSide!SuccessStatus(o) \in Statuses
           /\ ServerSide!WrittenStatuses(o) \subseteq Statuses
<1>1. Handles[o].success = 0 \/ Handles[o].success \in Declared BY DEF Declared
<1> QED
  BY <1>1
  DEF Statuses, ServerSide!SuccessStatus, ServerSide!WrittenStatuses, ServerSide!DefaultStatus

\* Every step of a handler is such a step.
LEMMA ServerMoves ==
    ASSUME ServerSide!TypeOK, NEW c \in Calls, ServerSide!Consistent(c), StatusKnown(c),
           ServerSide!Handle(c) \/ ServerSide!Service(c)
    PROVE  ServerMove(c)
<1> USE DEF ServerSide!Goto, ServerSide!Answer, ServerSide!response, ServerSide!file
<1>1. ASSUME NEW e \in ServerSide!Thrown, ServerSide!Throw(c, e), handler[c] \in Active
      PROVE  ServerMove(c)
  BY <1>1, ThrowMoves DEF ServerSide!Thrown, ServerSide!Other, ServerSide!Remote
<1>2. ASSUME ServerSide!Throw(c, ServerSide!Other), handler[c] \in Active
      PROVE  ServerMove(c)
  BY <1>1, <1>2 DEF ServerSide!Thrown
<1>3. ASSUME ServerSide!BindMissing(c) PROVE ServerMove(c)
  <2>1. handler[c] \in Active BY <1>3 DEF ServerSide!BindMissing, Active
  <2> QED BY <1>3, <2>1, ThrowMoves DEF ServerSide!BindMissing, ServerSide!BadRequest
<1>4. CASE \/ ServerSide!BindUndescribed(c) \/ ServerSide!BindMalformed(c)
           \/ ServerSide!BindAborted(c) \/ ServerSide!DescribeFails(c)
           \/ ServerSide!NullRefused(c)
  BY <1>2, <1>4
  DEF ServerSide!BindUndescribed, ServerSide!BindMalformed, ServerSide!BindAborted,
      ServerSide!DescribeFails, ServerSide!NullRefused, Active
<1>5. CASE ServerSide!Service(c)
  <2>1. CASE \E value \in {"null", "some"}, owned \in BOOLEAN :
               ServerSide!ServiceReturns(c, value, owned)
    BY <2>1 DEF ServerSide!ServiceReturns, ServerSide!TypeOK, ServerMove, StatusKnown
  <2>2. CASE \E e \in ServerSide!Thrown :
               \/ ServerSide!ActivationFails(c, e) \/ ServerSide!ServiceThrows(c, e)
               \/ ServerSide!BodyFails(c, e)
    BY <1>1, <2>2
    DEF ServerSide!ActivationFails, ServerSide!ServiceThrows, ServerSide!BodyFails, Active
  <2> QED BY <1>5, <2>1, <2>2 DEF ServerSide!Service
<1>6. CASE ServerSide!ResolveService(c) \/ ServerSide!Bind(c) \/ ServerSide!CallService(c)
           \/ ServerSide!Describe(c)
  BY <1>6
  DEF ServerSide!ResolveService, ServerSide!Bind, ServerSide!CallService,
      ServerSide!Describe, ServerSide!TypeOK, ServerMove, StatusKnown
<1>7. CASE ServerSide!FrameworkRefuses(c) \/ ServerSide!HostAnswers(c)
  <2>1. {400, 500} \subseteq Statuses BY DEF Statuses
  <2> QED
    BY <1>7, <2>1
    DEF ServerSide!FrameworkRefuses, ServerSide!HostAnswers, ServerSide!TypeOK,
        ServerSide!Consistent, ServerSide!Untouched, ServerMove, StatusKnown
<1>8. CASE ServerSide!WriteNothing(c) \/ ServerSide!StartBody(c)
  <2>1. operation[c] \in AllOperations /\ ~started[c]
    BY <1>8
    DEF ServerSide!WriteNothing, ServerSide!StartBody, ServerSide!Consistent,
        ServerSide!Untouched
  <2>2. /\ ServerSide!SuccessStatus(operation[c]) \in Statuses
        /\ ServerSide!WrittenStatuses(operation[c]) \subseteq Statuses
    BY <2>1, ContractStatuses
  <2> QED
    BY <1>8, <2>1, <2>2
    DEF ServerSide!WriteNothing, ServerSide!StartBody, ServerSide!TypeOK, ServerMove,
        StatusKnown
<1>9. CASE ServerSide!BodyRefused(c)
  <2>1. operation[c] \in AllOperations /\ ~started[c] /\ handler[c] = "write"
    BY <1>9 DEF ServerSide!BodyRefused, ServerSide!Consistent, ServerSide!Untouched
  <2>2. ServerSide!WrittenStatuses(operation[c]) \subseteq Statuses BY <2>1, ContractStatuses
  <2>3. CASE ServerSide!Throw(c, ServerSide!Other) BY <1>2, <2>1, <2>3 DEF Active
  <2>4. CASE ~ServerSide!Throw(c, ServerSide!Other)
    BY <1>9, <2>1, <2>2, <2>4
    DEF ServerSide!BodyRefused, ServerSide!TypeOK, ServerMove, StatusKnown
  <2> QED BY <2>3, <2>4
<1>12. CASE ServerSide!Withhold(c)
  <2>1. handler[c] = "write" /\ ~started[c]
    BY <1>12 DEF ServerSide!Withhold, ServerSide!Consistent, ServerSide!Untouched
  <2>2. ServerSide!Withheld \subseteq Statuses
    BY DEF Statuses, Server!Withheld, ServerSide!Withheld
  <2> QED
    BY <1>12, <2>1, <2>2
    DEF ServerSide!Withhold, ServerSide!ReleaseContent, ServerSide!TypeOK, ServerMove,
        StatusKnown
<1>10. CASE ServerSide!FinishBody(c) \/ ServerSide!ProblemFails(c) \/ ServerSide!HostBreaks(c)
  BY <1>10
  DEF ServerSide!FinishBody, ServerSide!ProblemFails, ServerSide!HostBreaks,
      ServerSide!ReleaseContent, ServerSide!TypeOK, ServerMove, StatusKnown
<1>11. CASE ServerSide!ExecuteProblem(c)
  <2>1. fault[c].status \in Statuses
    BY <1>11
    DEF ServerSide!ExecuteProblem, ServerSide!Consistent, StatusKnown, Statuses
  <2> QED
    BY <1>11, <2>1
    DEF ServerSide!ExecuteProblem, ServerSide!TypeOK, ServerMove, StatusKnown
<1> QED
  BY <1>3, <1>4, <1>5, <1>6, <1>7, <1>8, <1>9, <1>10, <1>11, <1>12
  DEF ServerSide!Handle

\* The state of a request at the endpoint.
Unmoved(d) ==
    /\ handler'[d] = handler[d] /\ operation'[d] = operation[d]
    /\ executed'[d] = executed[d] /\ result'[d] = result[d] /\ fault'[d] = fault[d]
    /\ status'[d] = status[d] /\ body'[d] = body[d] /\ started'[d] = started[d]

\* A handler does not touch another request.
LEMMA OthersUnmoved ==
    ASSUME ServerSide!TypeOK, NEW c \in Calls, NEW d \in Calls \ {c},
           ServerSide!Handle(c) \/ ServerSide!Service(c)
    PROVE  Unmoved(d)
<1> USE DEF ServerSide!Goto, ServerSide!Answer, ServerSide!ReleaseContent,
            ServerSide!response, ServerSide!file
<1>1. ASSUME NEW e, ServerSide!Throw(c, e) PROVE Unmoved(d)
  BY <1>1 DEF ServerSide!Throw, ServerSide!TypeOK, Unmoved
<1>2. CASE ServerSide!Service(c)
  BY <1>1, <1>2
  DEF ServerSide!Service, ServerSide!ServiceReturns, ServerSide!ActivationFails,
      ServerSide!ServiceThrows, ServerSide!BodyFails, ServerSide!TypeOK, Unmoved
<1>3. CASE \/ ServerSide!ResolveService(c) \/ ServerSide!Bind(c)
           \/ ServerSide!FrameworkRefuses(c) \/ ServerSide!CallService(c)
           \/ ServerSide!Describe(c)
  BY <1>3
  DEF ServerSide!ResolveService, ServerSide!Bind, ServerSide!FrameworkRefuses,
      ServerSide!CallService, ServerSide!Describe, ServerSide!TypeOK, Unmoved
<1>4. CASE \/ ServerSide!BindUndescribed(c) \/ ServerSide!BindMissing(c)
           \/ ServerSide!BindMalformed(c) \/ ServerSide!BindAborted(c)
           \/ ServerSide!DescribeFails(c) \/ ServerSide!NullRefused(c)
  BY <1>1, <1>4
  DEF ServerSide!BindUndescribed, ServerSide!BindMissing, ServerSide!BindMalformed,
      ServerSide!BindAborted, ServerSide!DescribeFails, ServerSide!NullRefused
<1>5. CASE \/ ServerSide!WriteNothing(c) \/ ServerSide!StartBody(c)
           \/ ServerSide!Withhold(c) \/ ServerSide!FinishBody(c)
  BY <1>5
  DEF ServerSide!WriteNothing, ServerSide!StartBody, ServerSide!Withhold, ServerSide!FinishBody,
      ServerSide!TypeOK, Unmoved
<1>6. CASE ServerSide!BodyRefused(c)
  BY <1>1, <1>6 DEF ServerSide!BodyRefused, ServerSide!TypeOK, Unmoved
<1>7. CASE \/ ServerSide!ExecuteProblem(c) \/ ServerSide!ProblemFails(c)
           \/ ServerSide!HostAnswers(c) \/ ServerSide!HostBreaks(c)
  BY <1>7
  DEF ServerSide!ExecuteProblem, ServerSide!ProblemFails, ServerSide!HostAnswers,
      ServerSide!HostBreaks, ServerSide!TypeOK, Unmoved
<1> QED BY <1>2, <1>3, <1>4, <1>5, <1>6, <1>7 DEF ServerSide!Handle

-----------------------------------------------------------------------------
(* The invariants of the ends are kept by their steps.                      *)

\* A proxy's step keeps the invariant of ClientCallProofs, and its footprint.
LEMMA ClientInvIsKept ==
    ASSUME ClientSide!Inv, NEW c \in Calls, ClientSide!Step(c)
    PROVE  ClientSide!Inv' /\ ClientSide!Footprint(c)
<1>1. ClientSide!Inv /\ [ClientSide!Next]_(ClientSide!vars) => ClientSide!Inv'
  BY ClientContract, ClientEnvironment, ClientHosts, ClientSide!NextInv
<1>2. ClientSide!TypeOK BY DEF ClientSide!Inv
<1>3. ClientSide!Footprint(c)
  BY <1>2, ClientContract, ClientEnvironment, ClientHosts, ClientSide!StepFootprint
<1> QED BY <1>1, <1>3 DEF ClientSide!Next

\* The endpoint's steps keep it too: they leave the proxy alone.
LEMMA ClientInvStutters == ClientSide!Inv /\ UNCHANGED clientVars => ClientSide!Inv'
<1>1. ClientSide!Inv /\ [ClientSide!Next]_(ClientSide!vars) => ClientSide!Inv'
  BY ClientContract, ClientEnvironment, ClientHosts, ClientSide!NextInv
<1>2. UNCHANGED clientVars => UNCHANGED ClientSide!vars
  BY DEF clientVars, ClientSide!vars, ClientSide!local, ClientSide!shared, ClientSide!options
<1> QED BY <1>1, <1>2

\* An endpoint's step keeps the invariant of ServerEndpointProofs.
LEMMA ServerInvIsKept ==
    ASSUME ServerSide!Inv, NEW c \in Calls, ServerSide!Step(c)
    PROVE  ServerSide!Inv'
<1>1. ServerSide!Inv /\ [ServerSide!Next]_(ServerSide!vars) => ServerSide!Inv'
  BY ServerOperations, ServerStatuses, ServerSide!NextInv
<1> QED BY <1>1 DEF ServerSide!Next, ServerSide!Step

\* The proxy's steps keep it too.
LEMMA ServerInvStutters == ServerSide!Inv /\ UNCHANGED serverVars => ServerSide!Inv'
<1>1. ServerSide!Inv /\ [ServerSide!Next]_(ServerSide!vars) => ServerSide!Inv'
  BY ServerOperations, ServerStatuses, ServerSide!NextInv
<1>2. UNCHANGED serverVars => UNCHANGED ServerSide!vars
  BY DEF serverVars, ServerSide!vars, ServerSide!response, ServerSide!file
<1> QED BY <1>1, <1>2

\* A step of the proxy that receives nothing and sends nothing.
LEMMA AloneSteps ==
    ASSUME ClientSide!TypeOK, NEW c \in Calls, ClientAlone(c)
    PROVE  ClientSide!Step(c) /\ answer' = answer /\ UNCHANGED <<serverVars, flight>>
<1> USE DEF Client!Goto, Client!Throw, Client!Leave, Client!shared, Client!options
<1>1. Client!Step(c)
  BY DEF ClientAlone, Client!Step, Client!Compute, Client!ReadFailure, Client!Network
<1>2. answer' = answer
  <2>1. CASE \/ Client!BuildRequest(c) \/ Client!RouteValueMissing(c)
             \/ (\E u \in Uploads : Client!AttachUpload(c, u))
             \/ Client!BadMediaType(c) \/ Client!CheckResolver(c)
             \/ Client!AssignResolver(c) \/ Client!AssignTooLate(c)
             \/ Client!GetTypeInfo(c) \/ Client!MissingMetadata(c)
             \/ Client!SendClosedUpload(c)
    BY <2>1
    DEF Client!BuildRequest, Client!RouteValueMissing, Client!AttachUpload,
        Client!BadMediaType, Client!CheckResolver, Client!AssignResolver,
        Client!AssignTooLate, Client!GetTypeInfo, Client!MissingMetadata,
        Client!SendClosedUpload
  <2>2. CASE \/ Client!ReturnVoid(c) \/ Client!ReadRaw(c) \/ Client!ReadJson(c)
             \/ Client!ReturnFile(c) \/ Client!OpenStreamFails(c) \/ Client!ReadFailure(c)
    BY <2>2
    DEF Client!ReturnVoid, Client!ReadRaw, Client!ReadJson, Client!ReturnFile,
        Client!OpenStreamFails, Client!ReadFailure, Client!ProblemParsed,
        Client!ProblemUnusable, Client!ReadExcerpt
  <2>3. CASE \/ Client!NetworkFails(c) \/ Client!TimeOut(c) \/ Client!BodyBreaks(c)
             \/ Client!Caller(c) \/ Client!ObserveCancellation(c)
    BY <2>3
    DEF Client!NetworkFails, Client!TimeOut, Client!BodyBreaks, Client!Caller,
        Client!RejectVerb, Client!Begin, Client!Cancel, Client!DisposeFile, Client!local,
        Client!ObserveCancellation
  <2> QED BY <2>1, <2>2, <2>3 DEF ClientAlone
<1> QED BY <1>1, <1>2, SameStep DEF ClientAlone

-----------------------------------------------------------------------------
(* The ends joined.                                                         *)

\* What was received is what the endpoint has written, or the beginning of a file.
Known(c) ==
    \/ handler[c] = "done" /\ body[c] # "broken" /\ answer[c] = AnswerOf(c)
    \/ /\ started[c] /\ Client!Op(c).result = "file"
       /\ answer[c].status = status[c] /\ answer[c].media = "other"

\* A response that has started is a success, and stays one.
Written(c) ==
    started[c] =>
        /\ body[c] \in {"partial", "whole", "broken"}
        /\ ServerSide!IsSuccess(status[c])
        /\ executed[c] = 1 /\ result[c] # "none"

\* A request is where it was sent, and an answer where it was written.
Joined(c) ==
    /\ flight[c] # "none" => sends[c] # 0
    /\ handler[c] # "none" => flight[c] = "arrived"
    /\ flight[c] = "arrived" => handler[c] # "none"
    /\ handler[c] # "none" => operation[c] = <<method[c], verb[c]>>
    /\ answer[c] # NoAnswer => Known(c)
    /\ Written(c) /\ StatusKnown(c)

JoinInv ==
    /\ ClientSide!Inv /\ ServerSide!Inv
    /\ flight \in [Calls -> {"none", "sent", "arrived"}]
    /\ \A c \in Calls : Joined(c)

\* The ends are joined initially.
LEMMA InitJoin == Init => JoinInv
<1> SUFFICES ASSUME Init PROVE JoinInv OBVIOUS
<1>1. ClientSide!Init /\ ServerSide!Init BY SameInit DEF Init
<1>2. ClientSide!Inv
  BY <1>1, ClientContract, ClientEnvironment, ClientHosts, ClientSide!InitInv
<1>3. ServerSide!Inv
  BY <1>1, ServerOperations, ServerStatuses, ServerSide!InitInv
<1>4. \A c \in Calls : Joined(c)
  BY <1>1
  DEF Init, ClientSide!Init, ServerSide!Init, ServerSide!NoFault, Joined, Written, StatusKnown
<1> QED BY <1>2, <1>3, <1>4 DEF Init, JoinInv

\* What a call without a response knows of the endpoint does not change with the proxy.
LEMMA JoinedAtProxy ==
    ASSUME JoinInv, ClientSide!Inv', UNCHANGED serverVars, NEW c \in Calls, NEW d \in Calls,
           ClientSide!Footprint(c), answer'[d] = answer[d],
           \/ flight'[d] = flight[d]
           \/ flight'[d] = "sent" /\ sends'[d] # 0 /\ handler[d] = "none"
    PROVE  Joined(d)'
<1>1. Joined(d) /\ ClientSide!TypeOK /\ ClientSide!TypeOK'
  BY DEF JoinInv, ClientSide!Inv
<1>2. sends[d] # 0 => sends'[d] # 0
  BY <1>1 DEF ClientSide!Footprint, ClientSide!TypeOK
<1>3. answer[d] # NoAnswer => pc[d] # "idle"
  BY DEF JoinInv, ClientSide!Inv, ClientSide!Consistent, ClientSide!Working, ClientSide!Unsent
<1>4. answer[d] # NoAnswer => Client!Op(d)' = Client!Op(d)
  BY <1>3 DEF ClientSide!Footprint, Client!Op
<1>5. AnswerOf(d)' = AnswerOf(d) BY DEF serverVars, AnswerOf, PayloadOf
<1>6. answer[d] # NoAnswer => Known(d)'
  BY <1>1, <1>4, <1>5 DEF Joined, Known, serverVars
<1>7. Written(d)' /\ StatusKnown(d)'
  BY <1>1 DEF Joined, Written, StatusKnown, serverVars
<1>8. handler[d] # "none" => UNCHANGED <<method[d], verb[d]>>
  <2>1. handler[d] # "none" => pc[d] # "idle"
    BY <1>1
    DEF Joined, JoinInv, ClientSide!Inv, ClientSide!Consistent, ClientSide!Working,
        ClientSide!Unsent
  <2> QED BY <2>1 DEF ClientSide!Footprint
<1> QED BY <1>1, <1>2, <1>6, <1>7, <1>8 DEF Joined, serverVars

\* What a proxy does alone keeps them joined.
LEMMA AloneKeepsJoin ==
    ASSUME JoinInv, NEW c \in Calls, ClientAlone(c)
    PROVE  JoinInv'
<1>1. ClientSide!Step(c) /\ answer' = answer /\ UNCHANGED <<serverVars, flight>>
  BY AloneSteps DEF JoinInv, ClientSide!Inv
<1>2. ClientSide!Inv' /\ ClientSide!Footprint(c) BY <1>1, ClientInvIsKept DEF JoinInv
<1>3. ServerSide!Inv' BY <1>1, ServerInvStutters DEF JoinInv
<1>4. \A d \in Calls : Joined(d)' BY <1>1, <1>2, JoinedAtProxy
<1> QED BY <1>1, <1>2, <1>3, <1>4 DEF JoinInv

\* A call sends once: when it does, nothing of it is under way.
LEMMA SendKeepsJoin ==
    ASSUME JoinInv, NEW c \in Calls, Send(c)
    PROVE  JoinInv'
<1>1. ClientSide!Step(c) /\ UNCHANGED serverVars
  BY SameStep DEF Send, Client!Step, Client!Compute
<1>2. ClientSide!Inv' /\ ClientSide!Footprint(c) BY <1>1, ClientInvIsKept DEF JoinInv
<1>3. ServerSide!Inv' BY <1>1, ServerInvStutters DEF JoinInv
<1>4. answer' = answer /\ pc[c] = "send" /\ sends' = [sends EXCEPT ![c] = @ + 1]
  BY DEF Send, Client!Send
<1>5. sends[c] = 0 /\ sends'[c] # 0
  BY <1>4
  DEF JoinInv, ClientSide!Inv, ClientSide!TypeOK, ClientSide!Consistent,
      ClientSide!Working, ClientSide!Unsent
<1>6. handler[c] = "none" BY <1>5 DEF JoinInv, Joined
<1>7. flight' = [flight EXCEPT ![c] = "sent"] BY DEF Send
<1>8. ASSUME NEW d \in Calls PROVE Joined(d)'
  <2>1. \/ flight'[d] = flight[d]
        \/ flight'[d] = "sent" /\ sends'[d] # 0 /\ handler[d] = "none"
    BY <1>5, <1>6, <1>7 DEF JoinInv
  <2> QED BY <1>1, <1>2, <1>4, <2>1, JoinedAtProxy
<1> QED BY <1>2, <1>3, <1>7, <1>8 DEF JoinInv

\* A response that can be received is a response of the contract, and known.
LEMMA AnswersAreOfTheContract ==
    ASSUME JoinInv, NEW c \in Calls, Available(c)
    PROVE  /\ AnswerOf(c) \in Answers /\ handler[c] # "none"
           /\ \/ handler[c] = "done" /\ body[c] # "broken"
              \/ /\ started[c] /\ Client!Op(c).result = "file"
                 /\ AnswerOf(c).media = "other"
<1>1. Joined(c) /\ ServerSide!Consistent(c) /\ ServerSide!TypeOK
  BY DEF JoinInv, ServerSide!Inv
<1>2. status[c] # 0
  <2>1. CASE started[c] BY <1>1, <2>1 DEF Joined, Written, ServerSide!IsSuccess
  <2>2. CASE handler[c] = "done" /\ ~started[c]
    BY <1>1, <2>2
    DEF ServerSide!Consistent, ServerSide!Refused, ServerSide!Succeeded,
        ServerSide!FailureAnswered, ServerSide!Failed, ServerSide!IsError,
        ServerSide!IsSuccess, ServerSide!IsWithheld, ServerSide!Withheld
  <2> QED BY <2>1, <2>2 DEF Available
<1>3. status[c] \in Statuses BY <1>1, <1>2 DEF Joined, StatusKnown
<1>4. AnswerOf(c) \in Answers BY <1>3 DEF AnswerOf, PayloadOf, Answers
<1>5. handler[c] # "none"
  BY <1>1 DEF Available, ServerSide!Consistent, ServerSide!Untouched
<1>6. started[c] => AnswerOf(c).media = "other"
  BY <1>1 DEF AnswerOf, Joined, Written
<1> QED BY <1>4, <1>5, <1>6 DEF Available

\* What is received is what was written.
LEMMA ReceiveKeepsJoin ==
    ASSUME JoinInv, NEW c \in Calls, Receive(c)
    PROVE  JoinInv' /\ ClientSide!Step(c)
<1>1. Available(c) /\ Client!Receive(c, AnswerOf(c)) /\ UNCHANGED <<serverVars, flight>>
  BY DEF Receive
<1>2. ClientSide!Step(c)
  BY <1>1, AnswersAreOfTheContract, SameStep DEF Client!Step, Client!Network
<1>3. ClientSide!Inv' /\ ClientSide!Footprint(c) BY <1>2, ClientInvIsKept DEF JoinInv
<1>4. ServerSide!Inv' BY <1>1, ServerInvStutters DEF JoinInv
<1>5. answer' = [answer EXCEPT ![c] = AnswerOf(c)] /\ UNCHANGED <<method, verb>>
  BY <1>1 DEF Client!Receive, Client!Goto
<1>6. \A d \in Calls \ {c} : Joined(d)'
  BY <1>1, <1>3, <1>5, JoinedAtProxy
<1>7. Joined(c)'
  <2>1. answer'[c] = AnswerOf(c) BY <1>5 DEF JoinInv, ClientSide!Inv, ClientSide!TypeOK
  <2>2. AnswerOf(c)' = AnswerOf(c) BY <1>1 DEF serverVars, AnswerOf, PayloadOf
  <2>3. AnswerOf(c).status = status[c] BY DEF AnswerOf
  <2>4. Client!Op(c)' = Client!Op(c) BY <1>5 DEF Client!Op
  <2>5. Known(c)'
    BY <1>1, <2>1, <2>2, <2>3, <2>4, AnswersAreOfTheContract DEF Known, serverVars
  <2>6. Joined(c) /\ sends' = sends
    BY <1>1 DEF JoinInv, Client!Receive
  <2>7. Written(c)' /\ StatusKnown(c)'
    BY <1>1, <2>6
    DEF Joined, Written, StatusKnown, serverVars
  <2> QED BY <1>1, <1>5, <2>5, <2>6, <2>7 DEF Joined, serverVars
<1> QED BY <1>1, <1>2, <1>3, <1>4, <1>6, <1>7 DEF JoinInv

\* What the proxy received stays what the endpoint has written.
LEMMA JoinedAtEndpoint ==
    ASSUME JoinInv, UNCHANGED clientVars, NEW d \in Calls, Unmoved(d), flight'[d] = flight[d]
    PROVE  Joined(d)'
<1>1. Joined(d) BY DEF JoinInv
<1>2. AnswerOf(d)' = AnswerOf(d) BY DEF Unmoved, AnswerOf, PayloadOf
<1>3. Client!Op(d)' = Client!Op(d) BY DEF clientVars, Client!Op
<1>4. answer[d] # NoAnswer => Known(d)'
  BY <1>1, <1>2, <1>3 DEF Joined, Known, Unmoved, clientVars
<1>5. Written(d)' /\ StatusKnown(d)'
  BY <1>1 DEF Joined, Written, StatusKnown, Unmoved, ServerSide!IsSuccess
<1> QED BY <1>1, <1>4, <1>5 DEF Joined, Unmoved, clientVars

\* A handler keeps what was received of it: the beginning of a file, or all it wrote.
LEMMA ServerKeepsJoin ==
    ASSUME JoinInv, NEW c \in Calls, ServerAlone(c)
    PROVE  /\ JoinInv'
           /\ ServerMove(c) /\ UNCHANGED clientVars
           /\ \A d \in Calls \ {c} : Unmoved(d)
<1>1. /\ ServerSide!Handle(c) \/ ServerSide!Service(c)
      /\ UNCHANGED <<clientVars, flight>>
  BY SameServerStep DEF ServerAlone
<1>2. ServerSide!Inv'
  BY <1>1, ServerInvIsKept DEF JoinInv, ServerSide!Step
<1>3. ClientSide!Inv' BY <1>1, ClientInvStutters DEF JoinInv
<1>4. /\ ServerSide!TypeOK /\ ServerSide!Consistent(c) /\ ServerSide!Consistent(c)'
      /\ Joined(c)
  BY <1>2 DEF JoinInv, ServerSide!Inv
<1>5. ServerMove(c) BY <1>1, <1>4, ServerMoves DEF Joined
<1>6. ASSUME NEW d \in Calls \ {c} PROVE Unmoved(d) /\ Joined(d)'
  BY <1>1, <1>4, <1>6, OthersUnmoved, JoinedAtEndpoint
<1>7. Joined(c)'
  <2>1. Client!Op(c)' = Client!Op(c) BY <1>1 DEF clientVars, Client!Op
  <2>2. answer[c] # NoAnswer => Known(c)'
    BY <1>1, <1>4, <1>5, <2>1 DEF Joined, Known, ServerMove, clientVars
  <2>3. Written(c)'
    <3>1. CASE ~started[c] /\ started'[c]
      BY <1>4, <1>5, <3>1
      DEF ServerMove, Written, ServerSide!Consistent, ServerSide!Returned, ServerSide!Executed
    <3>2. CASE started[c]
      <4>1. handler[c] \notin {"call", "running"}
        BY <1>4, <3>2 DEF ServerSide!Consistent, ServerSide!Untouched
      <4> QED
        BY <1>4, <1>5, <3>2, <4>1 DEF ServerMove, Joined, Written, ServerSide!IsSuccess
    <3> QED BY <3>1, <3>2 DEF Written
  <2> QED BY <1>1, <1>4, <1>5, <2>2, <2>3 DEF Joined, ServerMove, clientVars
<1> QED BY <1>1, <1>2, <1>3, <1>5, <1>6, <1>7 DEF JoinInv

\* A request arrives once, before anything of it was received.
LEMMA ArriveKeepsJoin ==
    ASSUME JoinInv, NEW c \in Calls, Arrive(c)
    PROVE  /\ JoinInv'
           /\ UNCHANGED <<clientVars, executed, result, fault>>
<1>1. PICK i \in {"good"} \cup Handles[<<method[c], verb[c]>>].defects :
        Server!Arrive(c, <<method[c], verb[c]>>, i)
  BY DEF Arrive
<1>2. UNCHANGED clientVars /\ flight[c] = "sent" /\ flight' = [flight EXCEPT ![c] = "arrived"]
  BY DEF Arrive
<1>3. <<method[c], verb[c]>> \in AllOperations
  BY DEF JoinInv, ClientSide!Inv, ClientSide!TypeOK, AllOperations
<1>4. ServerSide!Step(c) BY <1>1, <1>3, SameServerStep DEF ServerSide!Step
<1>5. ServerSide!Inv' BY <1>4, ServerInvIsKept DEF JoinInv
<1>6. ClientSide!Inv' BY <1>2, ClientInvStutters DEF JoinInv
<1>7. ServerSide!TypeOK /\ Joined(c) BY DEF JoinInv, ServerSide!Inv
<1>8. /\ handler' = [handler EXCEPT ![c] = "resolve"]
      /\ operation' = [operation EXCEPT ![c] = <<method[c], verb[c]>>]
      /\ UNCHANGED <<executed, result, fault, status, body, started>>
  BY <1>1 DEF Server!Arrive, Server!response, Server!file
<1>9. ASSUME NEW d \in Calls \ {c} PROVE Joined(d)'
  <2>1. Unmoved(d) BY <1>7, <1>8 DEF Unmoved, ServerSide!TypeOK
  <2>2. flight'[d] = flight[d] BY <1>2 DEF JoinInv
  <2> QED BY <1>2, <2>1, <2>2, JoinedAtEndpoint
<1>10. Joined(c)'
  <2>1. flight'[c] = "arrived" /\ handler'[c] = "resolve" /\ handler[c] = "none"
    BY <1>2, <1>7, <1>8 DEF JoinInv, ServerSide!TypeOK, Joined
  <2>2. answer[c] = NoAnswer
    BY <1>7, <2>1
    DEF JoinInv, Joined, Known, ServerSide!Inv, ServerSide!Consistent, ServerSide!Untouched
  <2>3. Written(c)' /\ StatusKnown(c)'
    BY <1>7, <1>8 DEF Joined, Written, StatusKnown, ServerSide!IsSuccess
  <2>4. operation'[c] = <<method[c], verb[c]>>' BY <1>2, <1>7, <1>8 DEF ServerSide!TypeOK, clientVars
  <2>5. answer'[c] = NoAnswer /\ sends'[c] = sends[c] BY <1>2, <2>2 DEF clientVars
  <2> QED BY <1>2, <1>7, <2>1, <2>3, <2>4, <2>5 DEF Joined, clientVars
<1> QED BY <1>2, <1>5, <1>6, <1>8, <1>9, <1>10 DEF JoinInv

\* The client going away changes no response.
LEMMA AbortKeepsJoin ==
    ASSUME JoinInv, NEW c \in Calls, Abort(c)
    PROVE  /\ JoinInv'
           /\ UNCHANGED <<clientVars, executed, result, fault>>
<1>1. Server!Abort(c) /\ UNCHANGED <<clientVars, flight>> BY DEF Abort
<1>2. ServerSide!Inv'
  BY <1>1, SameServerStep, ServerInvIsKept DEF JoinInv, ServerSide!Step
<1>3. ClientSide!Inv' BY <1>1, ClientInvStutters DEF JoinInv
<1>4. UNCHANGED <<handler, operation, executed, result, fault, status, body, started>>
  BY <1>1 DEF Server!Abort, Server!response
<1>5. \A d \in Calls : Joined(d)' BY <1>1, <1>4, JoinedAtEndpoint DEF Unmoved
<1> QED BY <1>1, <1>2, <1>3, <1>4, <1>5 DEF JoinInv

\* Every step keeps the ends joined.
LEMMA NextJoin == JoinInv /\ [Next]_vars => JoinInv'
<1> SUFFICES ASSUME JoinInv, [Next]_vars PROVE JoinInv' OBVIOUS
<1>1. CASE UNCHANGED vars
  <2>1. UNCHANGED <<clientVars, serverVars, flight>> BY <1>1 DEF vars
  <2>2. ClientSide!Inv' /\ ServerSide!Inv'
    BY <2>1, ClientInvStutters, ServerInvStutters DEF JoinInv
  <2>3. \A d \in Calls : Joined(d)'
    BY <2>1, JoinedAtEndpoint DEF Unmoved, serverVars
  <2> QED BY <2>1, <2>2, <2>3 DEF JoinInv
<1>2. CASE Next
  BY <1>2, AloneKeepsJoin, ServerKeepsJoin, SendKeepsJoin, ArriveKeepsJoin, ReceiveKeepsJoin,
     AbortKeepsJoin
  DEF Next
<1> QED BY <1>1, <1>2

\* In every behaviour both ends keep their invariants, and an answer is what was written.
THEOREM JoinIsInvariant == Spec => []JoinInv
BY InitJoin, NextJoin, PTL DEF Spec

-----------------------------------------------------------------------------
(* What follows.                                                            *)

\* For any number of calls, a call that was refused has no request anywhere.
THEOREM RefusalsLeaveNoTrace == Spec => []RefusedLeavesNoTrace
<1>1. JoinInv => RefusedLeavesNoTrace
  <2> SUFFICES ASSUME JoinInv, NEW c \in Calls,
                      outcome[c].kind = "Rejected" \/ outcome[c].cause \in {"ArgumentNull", "Format"}
               PROVE  flight[c] = "none" /\ handler[c] = "none" /\ executed[c] = 0
    BY DEF RefusedLeavesNoTrace
  <2>1. sends[c] = 0
    BY DEF JoinInv, ClientSide!Inv, ClientSide!Consistent, ClientSide!Working,
           ClientSide!Settlement, ClientSide!Told, ClientSide!ToldOfFailure,
           ClientSide!ToldOfException, ClientSide!Unsent, ClientSide!Outcome,
           ClientSide!Pending, ClientSide!Returned
  <2>2. flight[c] = "none" /\ handler[c] = "none"
    BY <2>1 DEF JoinInv, Joined
  <2>3. executed[c] = 0
    BY <2>2 DEF JoinInv, ServerSide!Inv, ServerSide!Consistent, ServerSide!Unexecuted
  <2> QED BY <2>2, <2>3
<1> QED BY <1>1, JoinIsInvariant, PTL

\* The endpoint of a file serves a call for a file.
LEMMA SameFiles ==
    ASSUME JoinInv, NEW c \in Calls, handler[c] # "none", ServerSide!Op(c).result = "file"
    PROVE  Client!Op(c).result = "file"
<1>1. operation[c] = <<method[c], verb[c]>> BY DEF JoinInv, Joined
<1>2. method[c] \in Methods /\ verb[c] \in Verbs
  BY DEF JoinInv, ClientSide!Inv, ClientSide!TypeOK
<1>3. Handles[<<method[c], verb[c]>>].result = "file" BY <1>1 DEF ServerSide!Op
<1> QED BY <1>2, <1>3 DEF Client!Op, ClientOperation

\* What the endpoint has done once the proxy knows its answer.
LEMMA DoneOfAnswer ==
    ASSUME JoinInv, NEW c \in Calls, answer[c] # NoAnswer
    PROVE  /\ answer[c].status = status[c]
           /\ \/ started[c] /\ ServerSide!IsSuccess(status[c])
                 /\ executed[c] = 1 /\ result[c] # "none"
              \/ /\ handler[c] = "done" /\ ~started[c]
                 /\ \/ ServerSide!Refused(c) \/ ServerSide!Succeeded(c)
                    \/ ServerSide!FailureAnswered(c)
<1>1. Known(c) /\ Written(c) /\ ServerSide!Consistent(c) /\ ServerSide!TypeOK
  BY DEF JoinInv, Joined, ServerSide!Inv
<1>2. answer[c].status = status[c] BY <1>1 DEF Known, AnswerOf
<1> QED BY <1>1, <1>2 DEF Known, Written, ServerSide!Consistent, ServerSide!TypeOK

\* A success was written by a handler whose service has returned.
LEMMA SuccessesReturned ==
    ASSUME JoinInv, NEW c \in Calls, answer[c] # NoAnswer, ClientSide!IsSuccess(answer[c])
    PROVE  /\ executed[c] = 1 /\ result[c] # "none"
           /\ started[c] \/ ServerSide!Succeeded(c)
<1>1. ServerSide!IsSuccess(status[c])
  BY DoneOfAnswer DEF ClientSide!IsSuccess, ServerSide!IsSuccess
<1>2. ~ServerSide!Refused(c) BY <1>1 DEF ServerSide!Refused, ServerSide!IsSuccess
<1>3. ASSUME ~started[c] PROVE ~ServerSide!FailureAnswered(c)
  <2> SUFFICES ASSUME ServerSide!FailureAnswered(c) PROVE FALSE OBVIOUS
  <2>1. status[c] \in {400, 500} \/ ServerSide!IsError(status[c])
    BY <1>3 DEF ServerSide!FailureAnswered, ServerSide!Failed
  <2> QED BY <1>1, <2>1 DEF ServerSide!IsError, ServerSide!IsSuccess
<1> QED
  BY <1>2, <1>3, DoneOfAnswer
  DEF ServerSide!Succeeded, ServerSide!Returned, ServerSide!Executed

\* Nothing of a call is open when both ends are through with it, but for the response of a
\* file, which its caller has got or whose stream could not be opened.
THEOREM EverythingIsReleased == Spec => []NothingIsLeftOpen
<1>1. JoinInv => NothingIsLeftOpen
  <2> SUFFICES ASSUME JoinInv, NEW c \in Calls, Client!Settled(c), handler[c] \in {"none", "done"}
               PROVE  /\ content[c] # "open"
                      /\ request[c] \in {"none", "disposed"}
                      /\ response[c] \in Client!OpenResponses
                           => /\ Client!Op(c).result = "file" /\ result[c] # "none"
                              /\ outcome[c].kind = "Returned" \/ outcome[c].cause = "HttpRequest"
    BY DEF NothingIsLeftOpen
  <2>1. content[c] # "open"
    BY DEF JoinInv, ServerSide!Inv, ServerSide!Consistent, ServerSide!Refused,
           ServerSide!Succeeded, ServerSide!FailureAnswered, ServerSide!Failed
  <2>2. ClientSide!Settlement(c) /\ pc[c] = "done"
    BY DEF JoinInv, ClientSide!Inv, ClientSide!Consistent, Client!Settled
  <2>3. ASSUME response[c] \in Client!OpenResponses
        PROVE  /\ Client!Op(c).result = "file"
               /\ outcome[c].kind = "Returned" \/ outcome[c].cause = "HttpRequest"
               /\ answer[c] \in Answers /\ ClientSide!IsSuccess(answer[c])
    BY <2>2, <2>3, SameOp
    DEF ClientSide!Settlement, Client!OpenResponses, ClientSide!OpenResponses,
        ClientSide!Returned, ClientSide!Outcome, ClientSide!Received
  <2>4. ASSUME response[c] \in Client!OpenResponses PROVE result[c] # "none"
    <3>1. answer[c] # NoAnswer /\ ClientSide!IsSuccess(answer[c])
      BY <2>3, <2>4, EnvironmentAssumption
    <3> QED BY <3>1, SuccessesReturned
  <2> QED BY <2>1, <2>2, <2>3, <2>4 DEF ClientSide!Settlement
<1> QED BY <1>1, JoinIsInvariant, PTL

\* What a call was told, by what it was told of.
LEMMA ToldOfAnswer ==
    ASSUME JoinInv, NEW c \in Calls, outcome[c].kind \in {"Returned", "RemoteCall"}
    PROVE  /\ answer[c] # NoAnswer
           /\ outcome[c].kind = "Returned" =>
                /\ ClientSide!IsSuccess(answer[c])
                /\ Client!Op(c).result = "json" => answer[c].payload # "malformed"
           /\ outcome[c].kind = "RemoteCall" =>
                /\ ~ClientSide!IsSuccess(answer[c])
                /\ outcome[c].problem <=>
                     answer[c].media = "problem" /\ answer[c].payload = "valid"
<1>1. ClientSide!Told(c) /\ Client!Op(c) = ClientSide!Op(c)
  BY SameOp
  DEF JoinInv, ClientSide!Inv, ClientSide!Consistent, ClientSide!Working,
      ClientSide!Settlement, ClientSide!Pending, ClientSide!Outcome
<1>2. NoAnswer \notin Answers BY EnvironmentAssumption
<1> QED
  BY <1>1, <1>2
  DEF ClientSide!Told, ClientSide!ToldOfFailure, ClientSide!ToldOfException,
      ClientSide!Outcome, ClientSide!Returned, ClientSide!Received

\* Errors keep their meaning between any number of calls and their handlers.
THEOREM MeaningsAreKept == Spec => []ErrorsKeepTheirMeaning
<1>1. ASSUME JoinInv, NEW c \in Calls, outcome[c].kind = "RemoteCall"
      PROVE  IF outcome[c].problem
             THEN fault[c].kind = "Remote" /\ answer[c].status = fault[c].status
             ELSE \/ answer[c].status = 400 /\ executed[c] = 0
                  \/ answer[c].status = 500 /\ fault[c].kind \in {"Remote", "Other"}
                  \/ /\ answer[c].status \in Server!Withheld
                     /\ Client!Op(c).result = "file" /\ result[c] = "some"
  <2>1. /\ answer[c] # NoAnswer /\ ~ClientSide!IsSuccess(answer[c])
        /\ outcome[c].problem <=> answer[c].media = "problem" /\ answer[c].payload = "valid"
    BY <1>1, ToldOfAnswer
  <2>2. answer[c].status = status[c] BY <1>1, <2>1, DoneOfAnswer
  <2>3. ~ServerSide!IsSuccess(status[c])
    BY <2>1, <2>2 DEF ClientSide!IsSuccess, ServerSide!IsSuccess
  <2>4. /\ ~started[c] /\ handler[c] = "done"
        /\ \/ ServerSide!Refused(c) \/ ServerSide!FailureAnswered(c)
           \/ ServerSide!IsWithheld(c)
    BY <1>1, <2>1, <2>3, DoneOfAnswer DEF ServerSide!Succeeded
  <2>5. answer[c] = AnswerOf(c) BY <1>1, <2>1, <2>4 DEF JoinInv, Joined, Known
  <2>6. outcome[c].problem <=> body[c] = "problem"
    BY <2>1, <2>5 DEF AnswerOf, PayloadOf
  <2>7. CASE ServerSide!Refused(c) \/ ServerSide!FailureAnswered(c)
    BY <2>2, <2>4, <2>6, <2>7
    DEF ServerSide!Refused, ServerSide!FailureAnswered, ServerSide!Failed,
        ServerSide!Located, ServerSide!Unexecuted
  <2>8. CASE ServerSide!IsWithheld(c)
    <3>1. ServerSide!Op(c).result = "file" BY <2>8 DEF ServerSide!IsWithheld
    <3>2. Client!Op(c).result = "file" BY <1>1, <2>4, <3>1, SameFiles
    <3> QED
      BY <2>2, <2>6, <2>8, <3>2
      DEF ServerSide!IsWithheld, Server!Withheld, ServerSide!Withheld
  <2> QED BY <2>4, <2>7, <2>8
<1>2. ASSUME JoinInv, NEW c \in Calls, outcome[c].kind = "Returned",
             Client!Op(c).result = "json"
      PROVE  (answer[c].payload = "null") = (result[c] = "null")
  <2>1. answer[c] # NoAnswer /\ answer[c].payload # "malformed"
        /\ ClientSide!IsSuccess(answer[c])
    BY <1>2, ToldOfAnswer
  <2>2. handler[c] = "done" /\ body[c] # "broken" /\ answer[c] = AnswerOf(c)
    BY <1>2, <2>1 DEF JoinInv, Joined, Known
  <2>3. ServerSide!IsSuccess(status[c])
    BY <2>1, <2>2 DEF AnswerOf, ClientSide!IsSuccess, ServerSide!IsSuccess
  <2>4. ServerSide!IsWithheld(c) => FALSE
    BY <2>3 DEF ServerSide!IsWithheld, ServerSide!Withheld, ServerSide!IsSuccess
  <2>5. body[c] = "whole"
    <3>1. started[c] \/ ServerSide!Succeeded(c) BY <1>2, <2>1, SuccessesReturned
    <3>2. body[c] # "empty" BY <2>1, <2>2 DEF AnswerOf, PayloadOf
    <3>3. started[c] => body[c] \in {"partial", "whole", "broken"}
      BY <1>2 DEF JoinInv, Joined, Written
    <3>4. body[c] # "partial"
      BY <1>2, <2>2
      DEF JoinInv, ServerSide!Inv, ServerSide!Consistent, ServerSide!Refused,
          ServerSide!Succeeded, ServerSide!IsWithheld, ServerSide!FailureAnswered
    <3> QED BY <2>2, <2>4, <3>1, <3>2, <3>3, <3>4 DEF ServerSide!Succeeded
  <2> QED BY <2>2, <2>5 DEF AnswerOf, PayloadOf
<1>3. JoinInv => ErrorsKeepTheirMeaning BY <1>1, <1>2 DEF ErrorsKeepTheirMeaning
<1> QED BY <1>3, JoinIsInvariant, PTL

\* Every step of the exchange is a step of its proxy or does not show in it.
THEOREM ProxiesAreProxies == Spec => ImplementsClient
<1>1. Init => Client!Init BY DEF Init
<1>2. JoinInv /\ [Next]_vars => [Client!Next]_(Client!vars)
  <2> SUFFICES ASSUME JoinInv, [Next]_vars PROVE [Client!Next]_(Client!vars) OBVIOUS
  <2>1. UNCHANGED clientVars => UNCHANGED Client!vars
    BY DEF clientVars, Client!vars, Client!local, Client!shared, Client!options
  <2>2. ASSUME NEW c \in Calls, ClientAlone(c) \/ Send(c) PROVE Client!Next
    BY <2>2, AloneSteps, SameStep
    DEF JoinInv, ClientSide!Inv, Send, Client!Next, Client!Step, Client!Compute
  <2>3. ASSUME NEW c \in Calls, Receive(c) PROVE Client!Next
    BY <2>3, ReceiveKeepsJoin, SameStep DEF Client!Next
  <2>4. ASSUME NEW c \in Calls, ServerAlone(c) \/ Arrive(c) \/ Abort(c)
        PROVE  UNCHANGED clientVars
    BY <2>4 DEF ServerAlone, Arrive, Abort
  <2>5. UNCHANGED vars => UNCHANGED clientVars BY DEF vars
  <2> QED BY <2>1, <2>2, <2>3, <2>4, <2>5 DEF Next
<1> QED BY <1>1, <1>2, JoinIsInvariant, PTL DEF Spec, ImplementsClient, Client!Spec

-----------------------------------------------------------------------------
(* The promise of both ends.                                                *)

ToldOf(c) == Told[Client!Verdict[outcome[c].kind]]

\* What a caller is told is read off the kind of the outcome.
LEMMA ToldByKind ==
    ASSUME NEW c, outcome[c].kind \in ClientSide!Kinds
    PROVE  /\ ToldOf(c) = "nothing" <=> outcome[c].kind = "Pending"
           /\ ToldOf(c) = "refused" <=> outcome[c].kind = "Rejected"
           /\ ToldOf(c) = "value" <=> outcome[c].kind = "Returned"
           /\ ToldOf(c) = "failure" <=> outcome[c].kind = "RemoteCall"
           /\ ToldOf(c) \in {"nothing", "refused", "value", "failure", "unknown"}
BY DEF ToldOf, Told, Client!Verdict, ClientSide!Kinds

\* What is told bounds what has happened, and a request that is about to be executed is
\* one of which nothing certain was told.
Bounds(c) ==
    /\ ToldOf(c) \in {"nothing", "refused", "value", "failure", "unknown"}
    /\ ToldOf(c) = "refused" => EffectOf(c) = "none"
    /\ ToldOf(c) = "value" => EffectOf(c) = "returned"
    /\ ToldOf(c) = "failure" => EffectOf(c) # "running"
    /\ handler[c] = "call" => ToldOf(c) \in {"nothing", "unknown"}
AllBounds == \A c \in Calls : Bounds(c)

LEMMA ToldBounds == JoinInv => AllBounds
<1> SUFFICES ASSUME JoinInv, NEW c \in Calls PROVE Bounds(c) BY DEF AllBounds
<1> USE DEF Bounds
<1>1. outcome[c].kind \in ClientSide!Kinds
  BY DEF JoinInv, ClientSide!Inv, ClientSide!TypeOK, ClientSide!Outcomes
<1>2. ServerSide!Consistent(c) BY DEF JoinInv, ServerSide!Inv
<1>3. CASE outcome[c].kind = "Rejected"
  <2>1. sends[c] = 0
    BY <1>3
    DEF JoinInv, ClientSide!Inv, ClientSide!Consistent, ClientSide!Working,
        ClientSide!Settlement, ClientSide!Told, ClientSide!ToldOfFailure,
        ClientSide!ToldOfException, ClientSide!Unsent, ClientSide!Outcome,
        ClientSide!Pending, ClientSide!Returned
  <2>2. handler[c] = "none" BY <2>1 DEF JoinInv, Joined
  <2>3. EffectOf(c) = "none"
    BY <1>2, <2>2 DEF EffectOf, ServerSide!Consistent, ServerSide!Unexecuted
  <2> QED BY <1>1, <1>3, <2>2, <2>3, ToldByKind
<1>4. CASE outcome[c].kind \in {"Returned", "RemoteCall"}
  <2>1. answer[c] # NoAnswer
        /\ (outcome[c].kind = "Returned" => ClientSide!IsSuccess(answer[c]))
    BY <1>4, ToldOfAnswer
  <2>2. CASE started[c] /\ executed[c] = 1 /\ result[c] # "none"
    <3>1. EffectOf(c) = "returned" BY <2>2 DEF EffectOf
    <3>2. handler[c] # "call" BY <1>2, <2>2 DEF ServerSide!Consistent, ServerSide!Untouched
    <3> QED BY <1>1, <1>4, <3>1, <3>2, ToldByKind
  <2>3. CASE handler[c] = "done" /\ ~started[c]
    <3>1. EffectOf(c) # "running"
      BY <2>1, <2>3, DoneOfAnswer
      DEF EffectOf, ServerSide!Refused, ServerSide!Succeeded, ServerSide!FailureAnswered,
          ServerSide!Failed, ServerSide!Located, ServerSide!Unexecuted,
          ServerSide!Executed, ServerSide!Returned
    <3>2. ASSUME outcome[c].kind = "Returned" PROVE EffectOf(c) = "returned"
      BY <2>1, <3>2, SuccessesReturned DEF EffectOf
    <3> QED BY <1>1, <1>4, <2>3, <3>1, <3>2, ToldByKind
  <2> QED BY <2>1, <2>2, <2>3, DoneOfAnswer
<1>5. CASE outcome[c].kind \notin {"Rejected", "Returned", "RemoteCall"}
  BY <1>1, <1>5, ToldByKind
<1> QED BY <1>3, <1>4, <1>5

\* A step of a proxy tells its caller something, once.
LEMMA ProxyTells ==
    ASSUME JoinInv, JoinInv', NEW c \in Calls, ClientSide!Footprint(c),
           UNCHANGED <<executed, result, fault>>
    PROVE  [Invocation!Next]_(Invocation!vars)
<1>1. effectBar' = effectBar BY DEF effectBar, EffectOf
<1>2. \A d \in Calls \ {c} : ToldOf(d)' = ToldOf(d)
  BY DEF ClientSide!Footprint, ToldOf
<1>3. CASE ToldOf(c)' = ToldOf(c)
  <2>1. toldBar' = toldBar BY <1>2, <1>3 DEF toldBar, ToldOf
  <2> QED BY <1>1, <2>1 DEF Invocation!vars
<1>4. CASE ToldOf(c)' # ToldOf(c)
  <2>1. ToldOf(c) = "nothing"
    <3>1. outcome'[c] # outcome[c] BY <1>4 DEF ToldOf
    <3>2. pc[c] # "done" BY <3>1 DEF ClientSide!Footprint
    <3>3. outcome[c].kind = "Pending"
      BY <3>2
      DEF JoinInv, ClientSide!Inv, ClientSide!Consistent, ClientSide!Working,
          ClientSide!Pending, ClientSide!Outcome
    <3> QED BY <3>3, ToldByKind DEF ClientSide!Kinds
  <2>2. toldBar[c] = "nothing" /\ toldBar' = [toldBar EXCEPT ![c] = ToldOf(c)']
    BY <1>2, <2>1 DEF toldBar, ToldOf
  <2>3. /\ ToldOf(c)' \in {"refused", "value", "failure", "unknown"}
        /\ ToldOf(c)' = "refused" => EffectOf(c)' = "none"
        /\ ToldOf(c)' = "value" => EffectOf(c)' = "returned"
        /\ ToldOf(c)' = "failure" => EffectOf(c)' # "running"
    <3>1. AllBounds' BY ToldBounds, PTL
    <3>2. Bounds(c)' BY <3>1 DEF AllBounds
    <3> QED BY <1>4, <2>1, <3>2 DEF Bounds
  <2>4. effectBar[c] = EffectOf(c) /\ EffectOf(c)' = EffectOf(c)
    BY DEF effectBar, EffectOf
  <2>5. Invocation!Next
    BY <1>1, <2>2, <2>3, <2>4
    DEF Invocation!Next, Invocation!TellRefusal, Invocation!TellValue,
        Invocation!TellFailure, Invocation!TellNothingCertain, Invocation!Tell
  <2> QED BY <2>5
<1> QED BY <1>3, <1>4

\* A step of the endpoint executes the operation, or ends it, or does not show.
LEMMA EndpointExecutes ==
    ASSUME JoinInv, JoinInv', NEW c \in Calls, ServerMove(c), UNCHANGED clientVars,
           \A d \in Calls \ {c} : Unmoved(d)
    PROVE  [Invocation!Next]_(Invocation!vars)
<1>1. toldBar' = toldBar BY DEF toldBar, clientVars
<1>2. \A d \in Calls \ {c} : EffectOf(d)' = EffectOf(d) BY DEF Unmoved, EffectOf
<1>3. effectBar' = [effectBar EXCEPT ![c] = EffectOf(c)'] BY <1>2 DEF effectBar
<1>4. effectBar[c] = EffectOf(c) /\ toldBar[c] = ToldOf(c)
  BY DEF effectBar, toldBar, ToldOf
<1>5. ServerSide!Consistent(c) BY DEF JoinInv, ServerSide!Inv
<1>6. Bounds(c) BY ToldBounds DEF AllBounds
<1>7. CASE EffectOf(c)' = EffectOf(c)
  <2>1. effectBar' = effectBar BY <1>2, <1>7 DEF effectBar
  <2> QED BY <1>1, <2>1 DEF Invocation!vars
<1>8. CASE EffectOf(c)' # EffectOf(c)
  <2>1. CASE handler[c] = "call"
    <3>1. executed[c] = 0 /\ result[c] = "none" /\ fault[c].at = "none"
      BY <1>5, <2>1
      DEF ServerSide!Consistent, ServerSide!Untouched, ServerSide!Unexecuted,
          ServerSide!NoFault
    <3>2. EffectOf(c) = "none" BY <3>1 DEF EffectOf
    <3>3. EffectOf(c)' = "running"
      BY <1>8, <2>1, <3>1 DEF ServerMove, EffectOf, Active
    <3>4. toldBar[c] \in {"nothing", "unknown"} BY <1>4, <1>6, <2>1 DEF Bounds
    <3>5. Invocation!Execute(c)
      BY <1>1, <1>3, <1>4, <3>2, <3>3, <3>4 DEF Invocation!Execute
    <3> QED BY <3>5 DEF Invocation!Next
  <2>2. CASE handler[c] = "running"
    <3>1. executed[c] = 1 /\ result[c] = "none" /\ fault[c].at = "none"
      BY <1>5, <2>2
      DEF ServerSide!Consistent, ServerSide!Untouched, ServerSide!Executed,
          ServerSide!NoFault
    <3>2. EffectOf(c) = "running" BY <3>1 DEF EffectOf
    <3>3. EffectOf(c)' \in {"returned", "threw"}
      BY <2>2, <3>1 DEF ServerMove, EffectOf
    <3>4. Invocation!Finish(c)
      BY <1>1, <1>3, <1>4, <3>2, <3>3 DEF Invocation!Finish
    <3> QED BY <3>4 DEF Invocation!Next
  <2>3. CASE handler[c] \notin {"call", "running"}
    <3>1. executed'[c] = executed[c] /\ result'[c] = result[c]
          /\ (fault'[c] # fault[c] => handler[c] \in Active)
      BY <2>3 DEF ServerMove
    <3>2. CASE fault'[c] = fault[c] BY <1>8, <3>1, <3>2 DEF EffectOf
    <3>3. CASE fault'[c] # fault[c]
      <4>1. executed[c] = 0 \/ (executed[c] = 1 /\ result[c] # "none")
        BY <1>5, <2>3, <3>1, <3>3
        DEF Active, ServerSide!Consistent, ServerSide!Unexecuted, ServerSide!Returned,
            ServerSide!Executed
      <4> QED BY <1>8, <3>1, <4>1 DEF EffectOf
    <3> QED BY <3>2, <3>3
  <2> QED BY <2>1, <2>2, <2>3
<1> QED BY <1>7, <1>8

\* Proxy and endpoint together keep the promise of RemoteInvocation, for any number of
\* calls: the initial states map to its initial state, and each step to one of its steps
\* or to a stutter.
THEOREM InvocationIsImplemented == Spec => ImplementsInvocation
<1>1. Init => Invocation!Init
  BY DEF Init, Client!Init, Client!Pending, Client!Outcome, Client!Verdict, Server!Init,
         Invocation!Init, effectBar, toldBar, EffectOf, Told
<1>2. JoinInv /\ JoinInv' /\ [Next]_vars => [Invocation!Next]_(Invocation!vars)
  <2> SUFFICES ASSUME JoinInv, JoinInv', [Next]_vars
               PROVE  [Invocation!Next]_(Invocation!vars)
    OBVIOUS
  <2>1. ASSUME UNCHANGED <<outcome, executed, result, fault>>
        PROVE  [Invocation!Next]_(Invocation!vars)
    BY <2>1 DEF Invocation!vars, effectBar, toldBar, EffectOf
  <2>2. ASSUME NEW c \in Calls, ClientAlone(c) \/ Send(c) \/ Receive(c)
        PROVE  [Invocation!Next]_(Invocation!vars)
    <3>1. ClientSide!Step(c)
      BY <2>2, AloneSteps, ReceiveKeepsJoin, SameStep
      DEF JoinInv, ClientSide!Inv, Send, Client!Step, Client!Compute
    <3>2. ClientSide!Footprint(c) BY <3>1, ClientInvIsKept DEF JoinInv
    <3>3. UNCHANGED <<executed, result, fault>>
      BY <2>2 DEF ClientAlone, Send, Receive, serverVars
    <3> QED BY <3>2, <3>3, ProxyTells
  <2>3. ASSUME NEW c \in Calls, ServerAlone(c) PROVE [Invocation!Next]_(Invocation!vars)
    BY <2>3, ServerKeepsJoin, EndpointExecutes
  <2>4. ASSUME NEW c \in Calls, Arrive(c) \/ Abort(c)
        PROVE  [Invocation!Next]_(Invocation!vars)
    BY <2>1, <2>4, ArriveKeepsJoin, AbortKeepsJoin DEF clientVars
  <2>5. CASE UNCHANGED vars BY <2>1, <2>5 DEF vars, clientVars, serverVars
  <2> QED BY <2>2, <2>3, <2>4, <2>5 DEF Next
<1> QED BY <1>1, <1>2, JoinIsInvariant, PTL DEF Spec, ImplementsInvocation, Invocation!Spec

-----------------------------------------------------------------------------
(* A call gets done at both ends, over whatever network.                    *)

\* The steps ahead of a call at both ends, and what a step of it is.
Left(c) == ClientSide!Left(c) + ServerSide!Left(c)
Advances(c) ==
    /\ Left(c) \in 1..(24 + MaximumFiles) /\ Left(c)' \in Nat /\ Left(c)' < Left(c)
    /\ \A d \in Calls \ {c} : Left(d)' = Left(d)

\* Of a step of one end the other knows nothing.
LEMMA EndsApart ==
    ASSUME JoinInv
    PROVE  /\ UNCHANGED clientVars => \A d \in Calls : ClientSide!Left(d)' = ClientSide!Left(d)
           /\ UNCHANGED serverVars => \A d \in Calls : ServerSide!Left(d)' = ServerSide!Left(d)
<1>1. UNCHANGED clientVars => \A d \in Calls : ClientSide!Left(d)' = ClientSide!Left(d)
  <2> SUFFICES ASSUME UNCHANGED clientVars, NEW d \in Calls
               PROVE  ClientSide!Left(d)' = ClientSide!Left(d)
    OBVIOUS
  <2>1. ClientSide!Parts(d)' = ClientSide!Parts(d)
    BY DEF clientVars, ClientSide!Parts, ClientSide!Op
  <2> QED BY <2>1 DEF clientVars, ClientSide!Left, ClientSide!Ahead
<1>2. UNCHANGED serverVars => \A d \in Calls : ServerSide!Left(d)' = ServerSide!Left(d)
  BY DEF serverVars, ServerSide!Left, ServerSide!Ahead
<1> QED BY <1>1, <1>2

\* At neither end are there fewer than none.
LEMMA LeftTypes ==
    ASSUME JoinInv, NEW c \in Calls
    PROVE  /\ ClientSide!Left(c) \in 0..(13 + MaximumFiles) /\ MaximumFiles \in Nat
           /\ ServerSide!Left(c) \in 0..11
<1>1. ClientSide!TypeOK /\ ClientSide!Working(c)
  BY DEF JoinInv, ClientSide!Inv, ClientSide!Consistent
<1>2. ClientSide!Left(c) \in 0..(13 + MaximumFiles)
  BY <1>1, ClientContract, ClientEnvironment, ClientHosts, ClientSide!LeftType
<1>3. ServerSide!Ahead(c) \in 0..10 BY DEF ServerSide!Ahead
<1>4. ServerSide!Left(c) \in 0..11 BY <1>3 DEF ServerSide!Left
<1> QED BY <1>2, <1>4, ContractAssumption

\* The steps of the proxy advance the call, by what ClientCallProofs shows of them.
LEMMA ProxyAdvances ==
    ASSUME JoinInv, JoinInv', NEW c \in Calls, ClientSide!Step(c), UNCHANGED serverVars
    PROVE  Advances(c)
<1>1. /\ ClientSide!TypeOK /\ ClientSide!Working(c)
      /\ ClientSide!TypeOK' /\ ClientSide!Working(c)'
  BY DEF JoinInv, ClientSide!Inv, ClientSide!Consistent
<1>2. ClientSide!Advances(c)
  BY <1>1, ClientContract, ClientEnvironment, ClientHosts, ClientSide!StepAdvances
<1>3. /\ ClientSide!Left(c) \in Nat /\ ClientSide!Left(c)' \in Nat
      /\ ClientSide!Left(c)' < ClientSide!Left(c)
      /\ \A d \in Calls \ {c} : ClientSide!Left(d)' = ClientSide!Left(d)
  BY <1>2, ContractAssumption DEF ClientSide!Advances
<1>4. \A d \in Calls : ServerSide!Left(d)' = ServerSide!Left(d) BY EndsApart
<1> QED BY <1>3, <1>4, LeftTypes DEF Advances, Left

\* So do those of the endpoint, by what ServerEndpointProofs shows.
LEMMA EndpointAdvances ==
    ASSUME JoinInv, JoinInv', NEW c \in Calls, ServerSide!Step(c), UNCHANGED clientVars
    PROVE  Advances(c)
<1>1. ServerSide!TypeOK /\ ServerSide!TypeOK'
  BY DEF JoinInv, ServerSide!Inv
<1>2. ServerSide!Advances(c)
  BY <1>1, ServerOperations, ServerStatuses, ServerSide!StepAdvances
<1>3. /\ ServerSide!Left(c)' \in Nat
      /\ ServerSide!Left(c)' < ServerSide!Left(c)
      /\ \A d \in Calls \ {c} : ServerSide!Left(d)' = ServerSide!Left(d)
  BY <1>2 DEF ServerSide!Advances
<1>4. \A d \in Calls : ClientSide!Left(d)' = ClientSide!Left(d) BY EndsApart
<1> QED BY <1>3, <1>4, LeftTypes DEF Advances, Left

\* A call is over at both ends after 24 steps and one per upload at most, however many others there are and
\* whatever the network loses, delays or breaks: no failure of one end makes the other
\* begin again, and no call costs another a step.
THEOREM InvocationsGetDone == Spec => [][\E c \in Calls : Advances(c)]_vars
<1>1. JoinInv /\ JoinInv' /\ [Next]_vars => [\E c \in Calls : Advances(c)]_vars
  <2> SUFFICES ASSUME JoinInv, JoinInv', Next PROVE \E c \in Calls : Advances(c)
    OBVIOUS
  <2>1. ASSUME NEW c \in Calls, ClientAlone(c) \/ Send(c) \/ Receive(c) PROVE Advances(c)
    <3>1. ClientSide!Step(c)
      BY <2>1, AloneSteps, ReceiveKeepsJoin, SameStep
      DEF JoinInv, ClientSide!Inv, Send, Client!Step, Client!Compute
    <3>2. UNCHANGED serverVars
      BY <2>1 DEF ClientAlone, Send, Receive
    <3> QED BY <3>1, <3>2, ProxyAdvances
  <2>2. ASSUME NEW c \in Calls, ServerAlone(c) \/ Abort(c) PROVE Advances(c)
    <3>1. ServerSide!Step(c)
      BY <2>2, SameServerStep DEF ServerAlone, Abort, ServerSide!Step
    <3>2. UNCHANGED clientVars
      BY <2>2 DEF ServerAlone, Abort
    <3> QED BY <3>1, <3>2, EndpointAdvances
  <2>3. ASSUME NEW c \in Calls, Arrive(c) PROVE Advances(c)
    <3>1. PICK i \in {"good"} \cup Handles[<<method[c], verb[c]>>].defects :
            Server!Arrive(c, <<method[c], verb[c]>>, i)
      BY <2>3 DEF Arrive
    <3>2. <<method[c], verb[c]>> \in AllOperations
      BY DEF JoinInv, ClientSide!Inv, ClientSide!TypeOK, AllOperations
    <3>3. ServerSide!Step(c)
      BY <3>1, <3>2, SameServerStep DEF ServerSide!Step
    <3>4. UNCHANGED clientVars
      BY <2>3 DEF Arrive
    <3> QED BY <3>3, <3>4, EndpointAdvances
  <2> QED BY <2>1, <2>2, <2>3 DEF Next
<1> QED BY <1>1, JoinIsInvariant, PTL DEF Spec
=============================================================================
