--------------------------- MODULE ServerEndpoint ---------------------------
(***************************************************************************)
(* The requests that the generated Minimal API endpoints handle.           *)
(*                                                                         *)
(* ServerEmitter generates two handlers per HTTP operation and picks one   *)
(* when it maps the endpoint: where dynamic code is supported the          *)
(* framework binds the parameters and the handler only calls the service   *)
(* and writes the result; elsewhere the handler is a RequestDelegate that  *)
(* also resolves the service and binds the parameters, all inside its try  *)
(* block. A step is what runs between two awaits, or one throwing point.   *)
(*                                                                         *)
(* The service, the host around the handler and the results of ASP.NET     *)
(* Core are not in the repository: they are modelled from how the          *)
(* generated handler uses them.                                            *)
(***************************************************************************)
EXTENDS Naturals

CONSTANTS
    Requests,         \* the requests that reach a mapped endpoint
    Operations,       \* the HTTP operations of the contracts
    Handles,          \* Handles[o]: what the handler mapped for o does, and which it is
    RemoteStatuses,   \* the status codes of the RemoteServiceExceptions thrown
    DescribedBodies,  \* the operations whose body's JSON metadata is registered
    DescribedResults, \* the same for the result's
    NoOperation

Results == {"void", "file", "text", "bytes", "json"}
Defects == {"missing", "malformed"}
Inputs == {"good"} \cup Defects

ASSUME OperationAssumption ==
    /\ Handles \in [Operations -> [body : BOOLEAN, reads : BOOLEAN, defects : SUBSET Defects,
                                   result : Results, success : {0} \cup 200..299,
                                   dynamic : BOOLEAN]]
    /\ NoOperation \notin Operations
    /\ DescribedBodies \subseteq Operations
    /\ DescribedResults \subseteq Operations

\* An expected service error has an error's status.
ASSUME StatusAssumption == RemoteStatuses \subseteq 400..599

VARIABLES
    pc,        \* where the handler of each request is
    operation, \* the operation whose endpoint was selected
    input,     \* whether the request's values can be bound
    executed,  \* how often the service method was called
    result,    \* what it returned
    fault,     \* what was thrown, and where
    status,    \* the status code of the response, 0 before it is set
    body,      \* the body of the response
    started,   \* HttpResponse.HasStarted
    content,   \* the stream of the RemoteFile returned
    owner,     \* its owner
    aborted    \* HttpContext.RequestAborted

response == <<status, body, started>>
file == <<content, owner>>
vars == <<pc, operation, input, executed, result, fault, response, file, aborted>>

Steps == {"none", "resolve", "bind", "call", "running", "describe", "write", "body",
          "problem", "escaped", "done"}
Faults == [kind : {"none", "Remote", "BadRequest", "Other"}, status : Nat, at : Steps]
NoFault == [kind |-> "none", status |-> 0, at |-> "none"]
Remote(s) == [kind |-> "Remote", status |-> s]
BadRequest == [kind |-> "BadRequest", status |-> 400]
Other == [kind |-> "Other", status |-> 500]
\* What user code may throw.
Thrown == {Other} \cup {Remote(s) : s \in RemoteStatuses}

Op(r) == Handles[operation[r]]
\* RuntimeFeature.IsDynamicCodeSupported in the host that mapped the endpoint.
DynamicCode(r) == Op(r).dynamic
Arrived(r) == pc[r] # "none"
Settled(r) == pc[r] = "done"

Init ==
    /\ pc = [r \in Requests |-> "none"]
    /\ operation = [r \in Requests |-> NoOperation]
    /\ input = [r \in Requests |-> "good"]
    /\ executed = [r \in Requests |-> 0]
    /\ result = [r \in Requests |-> "none"]
    /\ fault = [r \in Requests |-> NoFault]
    /\ status = [r \in Requests |-> 0]
    /\ body = [r \in Requests |-> "none"]
    /\ started = [r \in Requests |-> FALSE]
    /\ content = [r \in Requests |-> "none"]
    /\ owner = [r \in Requests |-> "none"]
    /\ aborted = [r \in Requests |-> FALSE]

Goto(r, step) ==
    /\ pc' = [pc EXCEPT ![r] = step]
    /\ UNCHANGED <<operation, input, aborted>>

-----------------------------------------------------------------------------
(* Mistakes that the properties below would catch: each is an operator that *)
(* follows, changed the way a bug in the generated handler would change it. *)

\* A stream is closed only once it was read from.
ReleaseContent_OfStarted(r) ==
    /\ content' = [content EXCEPT ![r] = IF @ = "open" /\ started[r] THEN "disposed" ELSE @]
    /\ UNCHANGED owner

\* What was thrown forgets where.
Throw_Unlocated(r, exception) ==
    /\ fault' = [fault EXCEPT ![r] = exception]
    /\ Goto(r, "escaped")
    /\ UNCHANGED <<executed, result, response, file>>

\* The try block begins with the call in either handler.
InTry_FromBinding(r) == pc[r] # "running"

\* A missing value is bound to its type's default.
BindMissing_Defaulted(r) ==
    /\ pc[r] = "bind"
    /\ ~DynamicCode(r)
    /\ input[r] = "missing"
    /\ Goto(r, "call")
    /\ UNCHANGED <<executed, result, fault, response, file>>

\* Every expected error is a bad request.
ExecuteProblem_BadRequest(r) ==
    /\ pc[r] = "problem"
    /\ ~started[r]
    /\ status' = [status EXCEPT ![r] = 400]
    /\ body' = [body EXCEPT ![r] = "problem"]
    /\ Goto(r, "done")
    /\ UNCHANGED <<executed, result, fault, started, file>>

\* The problem replaces a response that is under way.
ExecuteProblem_Restarted(r) ==
    /\ pc[r] = "problem"
    /\ status' = [status EXCEPT ![r] = fault[r].status]
    /\ body' = [body EXCEPT ![r] = "problem"]
    /\ Goto(r, "done")
    /\ UNCHANGED <<executed, result, fault, started, file>>

\* After an expected error the service is called again.
ExecuteProblem_Again(r) ==
    /\ pc[r] = "problem"
    /\ ~started[r]
    /\ Goto(r, "call")
    /\ UNCHANGED <<executed, result, fault, response, file>>

\* Zero is written as it is declared.
SuccessStatus_Undefaulted(o) == Handles[o].success

-----------------------------------------------------------------------------
(* Exceptions.                                                              *)

\* What the try block of the selected handler covers.
InTry(r) == ~DynamicCode(r) \/ pc[r] \in {"running", "describe", "write", "body"}

\* The result that streams a file disposes the stream whichever way it ends.
ReleaseContent(r) ==
    /\ content' = [content EXCEPT ![r] = IF @ = "open" THEN "disposed" ELSE @]
    /\ UNCHANGED owner

Throw(r, exception) ==
    /\ fault' = [fault EXCEPT
                   ![r] = [kind |-> exception.kind, status |-> exception.status, at |-> pc[r]]]
    /\ Goto(r, IF exception.kind = "Remote" /\ InTry(r) THEN "problem" ELSE "escaped")
    /\ ReleaseContent(r)
    /\ UNCHANGED <<executed, result, response>>

Answer(r, code, what) ==
    /\ status' = [status EXCEPT ![r] = code]
    /\ body' = [body EXCEPT ![r] = what]

-----------------------------------------------------------------------------
(* From the request to the call.                                            *)

Arrive(r, o, i) ==
    /\ pc[r] = "none"
    /\ pc' = [pc EXCEPT ![r] = "resolve"]
    /\ operation' = [operation EXCEPT ![r] = o]
    /\ input' = [input EXCEPT ![r] = i]
    /\ UNCHANGED <<executed, result, fault, response, file, aborted>>

ResolveService(r) ==
    /\ pc[r] = "resolve"
    /\ Goto(r, "bind")
    /\ UNCHANGED <<executed, result, fault, response, file>>

\* The service is not registered, or its constructor throws.
ActivationFails(r, exception) ==
    /\ pc[r] = "resolve"
    /\ Throw(r, exception)

BodyIsDescribed(r) == ~DynamicCode(r) /\ Op(r).body => operation[r] \in DescribedBodies

Bind(r) ==
    /\ pc[r] = "bind"
    /\ input[r] = "good" /\ BodyIsDescribed(r)
    /\ Goto(r, "call")
    /\ UNCHANGED <<executed, result, fault, response, file>>

\* GetJsonTypeInfo finds no metadata for the body.
BindUndescribed(r) ==
    /\ pc[r] = "bind"
    /\ ~BodyIsDescribed(r)
    /\ Throw(r, Other)

\* The framework refuses what it cannot bind before the handler runs.
FrameworkRefuses(r) ==
    /\ pc[r] = "bind"
    /\ DynamicCode(r)
    /\ input[r] # "good"
    /\ Answer(r, 400, "other")
    /\ Goto(r, "done")
    /\ UNCHANGED <<executed, result, fault, started, file>>

\* RequireValue, a required JSON body, a required file.
BindMissing(r) ==
    /\ pc[r] = "bind"
    /\ ~DynamicCode(r)
    /\ input[r] = "missing"
    /\ Throw(r, BadRequest)

\* Parse and ReadFromJsonAsync throw what they throw.
BindMalformed(r) ==
    /\ pc[r] = "bind"
    /\ ~DynamicCode(r)
    /\ input[r] = "malformed"
    /\ Throw(r, Other)

\* Reading a form or a JSON body observes RequestAborted.
BindAborted(r) ==
    /\ pc[r] = "bind"
    /\ Op(r).reads /\ aborted[r]
    /\ Throw(r, Other)

-----------------------------------------------------------------------------
(* The service.                                                             *)

CallService(r) ==
    /\ pc[r] = "call"
    /\ executed' = [executed EXCEPT ![r] = @ + 1]
    /\ Goto(r, "running")
    /\ UNCHANGED <<result, fault, response, file>>

ValuesOf(r) == IF Op(r).result = "void" THEN {"some"} ELSE {"null", "some"}

ServiceReturns(r, value, owned) ==
    /\ pc[r] = "running"
    /\ value \in ValuesOf(r)
    /\ result' = [result EXCEPT ![r] = value]
    /\ IF Op(r).result = "file" /\ value = "some"
       THEN /\ content' = [content EXCEPT ![r] = "open"]
            /\ owner' = [owner EXCEPT ![r] = IF owned THEN "held" ELSE "none"]
       ELSE UNCHANGED file
    /\ Goto(r, IF Op(r).result = "json" THEN "describe" ELSE "write")
    /\ UNCHANGED <<executed, fault, response>>

ServiceThrows(r, exception) ==
    /\ pc[r] = "running"
    /\ Throw(r, exception)

-----------------------------------------------------------------------------
(* EmitResult.                                                              *)

DefaultStatus(o) == IF Handles[o].result = "void" THEN 204 ELSE 200
\* SuccessStatus ?? default.
SuccessStatus(o) == IF Handles[o].success = 0 THEN DefaultStatus(o) ELSE Handles[o].success
\* Files and bytes are written with a status of their result's: a file may be a range
\* of it that was asked for.
WrittenStatuses(o) ==
    CASE Handles[o].result = "file"  -> {200, 206}
      [] Handles[o].result = "bytes" -> {200}
      [] OTHER -> {SuccessStatus(o)}
Bodiless == {204, 205}
\* What a file's result answers when the request's conditions on it fail: not modified,
\* a failed precondition, a range it does not have.
Withheld == {304, 412, 416}

Describe(r) ==
    /\ pc[r] = "describe"
    /\ operation[r] \in DescribedResults
    /\ Goto(r, "write")
    /\ UNCHANGED <<executed, result, fault, response, file>>

\* The result cannot be serialised, though the operation was executed.
DescribeFails(r) ==
    /\ pc[r] = "describe"
    /\ operation[r] \notin DescribedResults
    /\ Throw(r, Other)

\* file.Content of a null file, and Results.Bytes of null bytes.
NullRefused(r) ==
    /\ pc[r] = "write"
    /\ Op(r).result \in {"file", "bytes"} /\ result[r] = "null"
    /\ Throw(r, Other)

\* A response without a body: the only one of a void operation, and of a null text.
WriteNothing(r) ==
    /\ pc[r] = "write"
    /\ Op(r).result = "void" \/ (Op(r).result = "text" /\ result[r] = "null")
    /\ Answer(r, SuccessStatus(operation[r]), "empty")
    /\ Goto(r, "done")
    /\ UNCHANGED <<executed, result, fault, started, file>>

HasBody(r) ==
    \/ Op(r).result = "json"
    \/ Op(r).result \in {"text", "file", "bytes"} /\ result[r] = "some"

StartBody(r) ==
    /\ pc[r] = "write"
    /\ HasBody(r)
    /\ \E s \in WrittenStatuses(operation[r]) \ Bodiless : Answer(r, s, "partial")
    /\ started' = [started EXCEPT ![r] = TRUE]
    /\ Goto(r, "body")
    /\ UNCHANGED <<executed, result, fault, file>>

\* The file's last modification, or a range it cannot serve, makes its result answer
\* without it; the stream is closed unread.
Withhold(r) ==
    /\ pc[r] = "write"
    /\ Op(r).result = "file" /\ result[r] = "some"
    /\ \E s \in Withheld : Answer(r, s, "empty")
    /\ Goto(r, "done")
    /\ ReleaseContent(r)
    /\ UNCHANGED <<executed, result, fault, started>>

\* The server does not write a body under a status that has none: it throws, and
\* the status may be on the wire by then.
BodyRefused(r) ==
    /\ pc[r] = "write"
    /\ HasBody(r)
    /\ WrittenStatuses(operation[r]) \subseteq Bodiless
    /\ \/ Throw(r, Other)
       \/ /\ \E s \in WrittenStatuses(operation[r]) : Answer(r, s, "empty")
          /\ Goto(r, "done")
          /\ UNCHANGED <<executed, result, fault, started, file>>

FinishBody(r) ==
    /\ pc[r] = "body"
    /\ body' = [body EXCEPT ![r] = "whole"]
    /\ Goto(r, "done")
    /\ ReleaseContent(r)
    /\ UNCHANGED <<executed, result, fault, status, started>>

\* Reading the file, or enumerating and serialising the result, runs user code.
BodyFails(r, exception) ==
    /\ pc[r] \in {"write", "body"}
    /\ Op(r).result \in {"file", "json"}
    /\ HasBody(r)
    /\ Throw(r, exception)

-----------------------------------------------------------------------------
(* The catch clause, and the host beyond it.                                *)

\* Problem(exception).ExecuteAsync.
ExecuteProblem(r) ==
    /\ pc[r] = "problem"
    /\ ~started[r]
    /\ Answer(r, fault[r].status, "problem")
    /\ Goto(r, "done")
    /\ UNCHANGED <<executed, result, fault, started, file>>

\* The status of a started response cannot be set; that of a file that failed on
\* its first read can, but its Content-Length may not be the problem's.
ProblemFails(r) ==
    /\ pc[r] = "problem"
    /\ started[r] \/ (Op(r).result = "file" /\ fault[r].at = "write")
    /\ Goto(r, "escaped")
    /\ UNCHANGED <<executed, result, fault, response, file>>

HostAnswers(r) ==
    /\ pc[r] = "escaped"
    /\ ~started[r]
    /\ Answer(r, IF fault[r].kind = "BadRequest" THEN 400 ELSE 500, "other")
    /\ Goto(r, "done")
    /\ UNCHANGED <<executed, result, fault, started, file>>

HostBreaks(r) ==
    /\ pc[r] = "escaped"
    /\ started[r]
    /\ body' = [body EXCEPT ![r] = "broken"]
    /\ Goto(r, "done")
    /\ UNCHANGED <<executed, result, fault, status, started, file>>

\* The client goes away.
Abort(r) ==
    /\ pc[r] \notin {"none", "done"}
    /\ ~aborted[r]
    /\ aborted' = [aborted EXCEPT ![r] = TRUE]
    /\ UNCHANGED <<pc, operation, input, executed, result, fault, response, file>>

-----------------------------------------------------------------------------

\* What the handler and the framework around it do on their own.
Handle(r) ==
    \/ ResolveService(r) \/ Bind(r) \/ BindUndescribed(r) \/ FrameworkRefuses(r)
    \/ BindMissing(r) \/ BindMalformed(r) \/ BindAborted(r) \/ CallService(r)
    \/ Describe(r) \/ DescribeFails(r) \/ NullRefused(r) \/ WriteNothing(r)
    \/ StartBody(r) \/ Withhold(r) \/ BodyRefused(r) \/ FinishBody(r)
    \/ ExecuteProblem(r) \/ ProblemFails(r) \/ HostAnswers(r) \/ HostBreaks(r)

Service(r) ==
    \/ \E value \in {"null", "some"}, owned \in BOOLEAN : ServiceReturns(r, value, owned)
    \/ \E exception \in Thrown :
          \/ ActivationFails(r, exception)
          \/ ServiceThrows(r, exception)
          \/ BodyFails(r, exception)

Next ==
    \E r \in Requests :
        \/ \E o \in Operations : \E i \in {"good"} \cup Handles[o].defects : Arrive(r, o, i)
        \/ Handle(r)
        \/ Service(r)
        \/ Abort(r)

Spec == Init /\ [][Next]_vars

\* The host schedules its handlers; nothing obliges a service to return.
Fairness == \A r \in Requests : WF_vars(Handle(r))
FairSpec == Spec /\ Fairness

-----------------------------------------------------------------------------
(* Properties.                                                              *)

\* Every variable has its type.
TypeOK ==
    /\ pc \in [Requests -> Steps]
    /\ operation \in [Requests -> Operations \cup {NoOperation}]
    /\ input \in [Requests -> Inputs]
    /\ executed \in [Requests -> Nat]
    /\ result \in [Requests -> {"none", "null", "some"}]
    /\ fault \in [Requests -> Faults]
    /\ status \in [Requests -> Nat]
    /\ body \in [Requests -> {"none", "empty", "problem", "other", "partial", "whole", "broken"}]
    /\ started \in [Requests -> BOOLEAN]
    /\ content \in [Requests -> {"none", "open", "disposed"}]
    /\ owner \in [Requests -> {"none", "held"}]
    /\ aborted \in [Requests -> BOOLEAN]

IsSuccess(code) == code \in 200..299

\* A request whose values cannot be bound never reaches the service, and is told
\* so: with 400, except that the handler without dynamic code lets the exceptions
\* of parsing escape to the host. A request is executed at most once.
UnboundNeverExecutes ==
    \A r \in Requests :
        /\ executed[r] <= 1
        /\ input[r] # "good" => executed[r] = 0
        /\ Settled(r) /\ input[r] # "good" /\ fault[r].kind \in {"none", "BadRequest"}
             => status[r] = 400

\* What was thrown before the response had started is what the response says. An
\* expected error is a problem with its own status, wherever it came from, but for two
\* places: the service's constructor, which the try block covers only in a host without
\* dynamic code, and a file that fails on its first read, whose headers are set by then
\* and may not fit a problem. Anything else is an internal error.
ThrownErrorsAreProblems ==
    \A r \in Requests :
        LET problem == status[r] = fault[r].status /\ body[r] = "problem"
            hidden == status[r] = 500 /\ body[r] = "other"
            uncaught == fault[r].at = "resolve" /\ DynamicCode(r)
            read == fault[r].at = "write" /\ Op(r).result = "file"
        IN  Settled(r) /\ fault[r].kind \in {"Remote", "Other"} /\ fault[r].at # "body" =>
                IF fault[r].kind = "Other" \/ uncaught THEN hidden
                ELSE problem \/ (read /\ hidden)

\* A file that was returned and is not sent, because of what the request asks of it.
IsWithheld(r) ==
    /\ Op(r).result = "file" /\ result[r] = "some"
    /\ status[r] \in Withheld /\ body[r] = "empty"

\* A settled response has a success's status only when the service returned and
\* nothing was thrown before the response had started. It then has one, unless a
\* file's conditions withhold it; and its body is whole only when nothing was thrown
\* at all, and broken exactly when something was thrown while it was written.
SuccessMeansReturned ==
    \A r \in Requests : Settled(r) =>
        /\ IsSuccess(status[r]) \/ (fault[r] = NoFault /\ IsWithheld(r)) <=>
             result[r] # "none" /\ (fault[r] = NoFault \/ fault[r].at = "body")
        /\ body[r] = "whole" => fault[r] = NoFault
        /\ body[r] = "broken" <=> fault[r].at = "body"

\* The stream of a returned file is closed however the response ended.
ContentIsReleased ==
    \A r \in Requests : Settled(r) => content[r] # "open"

\* What is on the wire stays: once the response has started its status is fixed and
\* its body only becomes whole or breaks; once it is settled nothing changes it.
ResponseIsFinal ==
    [][\A r \in Requests :
         /\ started[r] => /\ started'[r] /\ status'[r] = status[r]
                          /\ body'[r] \in {body[r], "whole", "broken"}
         /\ Settled(r) => /\ Settled(r)' /\ status'[r] = status[r]
                          /\ body'[r] = body[r] /\ executed'[r] = executed[r]]_vars

\* Once the service has returned or anything was thrown, the request is answered.
EndedCallsAreAnswered ==
    \A r \in Requests : (result[r] # "none" \/ fault[r] # NoFault) ~> Settled(r)

-----------------------------------------------------------------------------
(* What the repository says of the program and the code does not do.        *)

\* RemoteFile.cs:21, the owner is "an additional resource disposed with this
\* instance": who closes the content closes the owner.
OwnerIsReleased ==
    \A r \in Requests : Settled(r) /\ content[r] = "disposed" => owner[r] # "held"

\* RemoteMethodAttribute.cs:19, SuccessStatusCode is "the expected successful HTTP
\* status code".
ExpectedStatusIsSent ==
    \A r \in Requests :
        Settled(r) /\ IsSuccess(status[r]) => status[r] = SuccessStatus(operation[r])
=============================================================================
