----------------------------- MODULE ClientCall -----------------------------
(***************************************************************************)
(* The calls that callers make through the generated client proxies.       *)
(*                                                                         *)
(* ClientEmitter generates, for every method of a contract, one async      *)
(* method whose body is modelled here step by step, a step being what runs *)
(* between two awaits, between two accesses to state that calls share, or  *)
(* up to the next statement that throws. Calls share the HttpClient, the   *)
(* JSON serializer options (a singleton of the client options) and, when a *)
(* caller passes the same RemoteUploadFile to several calls, its stream.   *)
(*                                                                         *)
(* HttpClient, HttpResponseMessage and JsonSerializerOptions belong to     *)
(* .NET: what they do is modelled from how the generated code uses them.   *)
(***************************************************************************)
EXTENDS Integers, Sequences

CONSTANTS
    Calls,                \* the invocations of proxy methods
    Methods,              \* the methods of the contracts
    Verbs,                \* the HTTP methods
    Exposed,              \* Exposed[m]: the verbs that method m declares
    ClientDefault,        \* ClientDefault[m]: the verb of an unselected call
    Operation,            \* Operation[m][v]: what the generated block of v does
    MaximumFiles,         \* the most RemoteUploadFile parameters an operation has
    Uploads,              \* the streams of the RemoteUploadFile arguments
    LeaveOpen,            \* the uploads created with leaveOpen
    Answers,              \* the responses a server may give
    Hosts,                \* the client applications: their options and their runtime
    BadArguments,         \* callers may pass a null route value, a bad media type
    NoVerb, NoAnswer

Contents == {"none", "json", "form"}
Results == {"void", "raw", "json", "file"}
Resolvers == {"none", "reflection", "context", "foreign"}

ASSUME ContractAssumption ==
    /\ Exposed \in [Methods -> SUBSET Verbs]
    /\ ClientDefault \in [Methods -> Verbs]
    /\ \A m \in Methods : ClientDefault[m] \in Exposed[m]
    /\ Operation \in [Methods -> [Verbs -> [content : Contents, files : 0..MaximumFiles,
                                             result : Results]]]
    /\ \A m \in Methods, v \in Verbs :
         Operation[m][v].files > 0 => Operation[m][v].content = "form"
    /\ NoVerb \notin Verbs
    /\ MaximumFiles \in Nat

ASSUME EnvironmentAssumption ==
    /\ LeaveOpen \subseteq Uploads
    /\ Answers \subseteq [status : Nat, media : {"problem", "other"},
                          payload : {"valid", "malformed", "null"}, size : Nat]
    /\ NoAnswer \notin Answers
    /\ BadArguments \in BOOLEAN

\* What a host configures: the metadata resolver of the options, the bound on the
\* excerpt, which no setter checks, and whether reflection is compiled in
\* (JsonSerializer.IsReflectionEnabledByDefault).
ASSUME HostAssumption ==
    Hosts \subseteq [resolver : Resolvers, reflection : BOOLEAN, maximum : Int]

VARIABLES
    pc,        \* where each call is in its generated method
    method,    \* the method called
    verb,      \* the local httpMethod
    attached,  \* the uploads whose streams joined the multipart content, in order
    request,   \* the local request
    response,  \* the local response and the state of its content
    answer,    \* what the server answered
    cancelled, \* whether the caller's token is cancelled
    sends,     \* how often the request was handed to HttpClient
    outcome,   \* what the caller got
    host,      \* the client application
    resolver,  \* options.TypeInfoResolver
    defaults,  \* how often it was assigned: each default is an object of its own
    readOnly,  \* whether the options are locked, at the first use of a type's metadata
    open       \* open[u]: the upload's stream is not closed

local == <<pc, method, verb, attached, request, response, answer, sends, outcome>>
options == <<host, resolver, defaults, readOnly>>
shared == <<options, open>>
vars == <<local, cancelled, shared>>

Steps == {"idle", "build", "form", "check", "assign", "type", "send", "awaiting",
          "problem", "error", "read", "done"}
Exceptions == {"ArgumentNull", "Format", "ReadOnlyOptions", "MissingMetadata",
               "HttpRequest", "Json", "AlreadyConsumed", "ArgumentOutOfRange",
               "OperationCanceled"}
Kinds == {"Pending", "Rejected", "Returned", "RemoteCall", "Transport", "Canceled"}
OpenResponses == {"buffered", "stream", "consumed"}
Outcomes == [kind : Kinds, cause : Exceptions \cup {"none"}, problem : BOOLEAN, excerpt : Nat]

Outcome(kind, cause) ==
    [kind |-> kind, cause |-> cause, problem |-> FALSE, excerpt |-> 0]
RemoteCallException(problem, excerpt) ==
    [kind |-> "RemoteCall", cause |-> "none", problem |-> problem, excerpt |-> excerpt]
Pending == Outcome("Pending", "none")
Returned == Outcome("Returned", "none")

\* The catch clauses at the end of every generated method.
Caught(exception) ==
    IF exception = "OperationCanceled"
    THEN Outcome("Canceled", exception)
    ELSE Outcome("Transport", exception)

IsSuccess(a) == a.status \in 200..299
MinOf_Larger(a, b) == IF a < b THEN b ELSE a
MinOf(a, b) == IF a < b THEN a ELSE b
Op(c) == Operation[method[c]][verb[c]]
Attached(c) == {attached[c][i] : i \in DOMAIN attached[c]}

Init ==
    /\ pc = [c \in Calls |-> "idle"]
    /\ method \in [Calls -> Methods]
    /\ verb = [c \in Calls |-> ClientDefault[method[c]]]
    /\ attached = [c \in Calls |-> <<>>]
    /\ request = [c \in Calls |-> "none"]
    /\ response = [c \in Calls |-> "none"]
    /\ answer = [c \in Calls |-> NoAnswer]
    /\ cancelled = [c \in Calls |-> FALSE]
    /\ sends = [c \in Calls |-> 0]
    /\ outcome = [c \in Calls |-> Pending]
    /\ host \in Hosts
    /\ resolver = host.resolver
    /\ defaults = 0
    /\ readOnly \in {r \in BOOLEAN : r => host.resolver # "none"}
    /\ open = [u \in Uploads |-> TRUE]

-----------------------------------------------------------------------------
(* Leaving the method. *)

\* A mistake: the content is left to the handler that sends it.
DisposeRequest_OfSent(c) ==
    /\ request' = [request EXCEPT ![c] = IF @ = "none" THEN @ ELSE "disposed"]
    /\ open' = [u \in Uploads |-> open[u] /\ (sends[c] = 0 \/ u \notin Attached(c))]

\* Disposing the request disposes its content, and with it the streams of the
\* uploads that joined it so far, whatever their LeaveOpen says.
DisposeRequest(c) ==
    /\ request' = [request EXCEPT ![c] = IF @ = "none" THEN @ ELSE "disposed"]
    /\ open' = [u \in Uploads |-> open[u] /\ u \notin Attached(c)]

\* The call ends with outcome o and leaves its response in state r.
Leave(c, o, r) ==
    /\ pc' = [pc EXCEPT ![c] = "done"]
    /\ outcome' = [outcome EXCEPT ![c] = o]
    /\ response' = [response EXCEPT ![c] = r]
    /\ DisposeRequest(c)
    /\ UNCHANGED <<method, verb, attached, answer, cancelled>>

\* The response's state once a using block or a finally clause is left.
Disposed(c) == IF response[c] = "none" THEN "none" ELSE "disposed"

Throw(c, exception) == Leave(c, Caught(exception), Disposed(c))

Goto(c, step) ==
    /\ pc' = [pc EXCEPT ![c] = step]
    /\ UNCHANGED <<method, verb, cancelled, outcome>>

-----------------------------------------------------------------------------
(* Mistakes that the properties below would catch: each is an action that   *)
(* follows, changed the way a bug in the generated code would change it.    *)

\* A selection is not defaulted.
Selected_Undefaulted(m, view) == view

\* The media type is parsed when the content is serialised.
BadMediaType_WhileSending(c) ==
    /\ pc[c] = "awaiting"
    /\ Op(c).content = "form" /\ BadArguments
    /\ Throw(c, "Format")
    /\ UNCHANGED <<sends, options>>

\* The default resolver is assigned without looking whether there is one.
CheckResolver_Blindly(c) ==
    /\ pc[c] = "check"
    /\ Goto(c, IF host.reflection THEN "assign" ELSE "type")
    /\ UNCHANGED <<attached, request, response, answer, sends, shared>>

\* Options that are locked are replaced by a copy of them.
AssignResolver_ToCopy(c) ==
    /\ pc[c] = "assign"
    /\ resolver' = "reflection"
    /\ defaults' = defaults + 1
    /\ Goto(c, "type")
    /\ UNCHANGED <<attached, request, response, answer, sends, host, readOnly, open>>

\* The metadata of the result is looked up before the status is.
Receive_MetadataFirst(c, a) ==
    /\ pc[c] = "awaiting"
    /\ answer' = [answer EXCEPT ![c] = a]
    /\ response' = [response EXCEPT
                      ![c] = IF Op(c).result = "file" THEN "stream" ELSE "buffered"]
    /\ Goto(c, IF Op(c).result = "json" THEN "check"
               ELSE IF ~IsSuccess(a)
               THEN IF a.media = "problem" THEN "problem" ELSE "error"
               ELSE "read")
    /\ UNCHANGED <<attached, request, sends, shared>>

\* A failure without Problem Details is taken for a result.
Receive_ProblemsOnly(c, a) ==
    /\ pc[c] = "awaiting"
    /\ answer' = [answer EXCEPT ![c] = a]
    /\ response' = [response EXCEPT
                      ![c] = IF Op(c).result = "file" THEN "stream" ELSE "buffered"]
    /\ Goto(c, IF ~IsSuccess(a) /\ a.media = "problem" THEN "problem"
               ELSE IF Op(c).result = "json" THEN "check" ELSE "read")
    /\ UNCHANGED <<attached, request, sends, shared>>

\* A malformed document is not caught.
ProblemUnusable_Thrown(c) ==
    /\ pc[c] = "problem"
    /\ answer[c].payload # "valid"
    /\ Throw(c, "Json")
    /\ UNCHANGED <<sends, options>>

\* A null document is asked for again.
ProblemUnusable_Again(c) ==
    /\ pc[c] = "problem"
    /\ answer[c].payload # "valid"
    /\ UNCHANGED vars

\* The response of a text or of bytes is not in a using block.
ReadRaw_Undisposed(c) ==
    /\ pc[c] = "read"
    /\ Op(c).result = "raw"
    /\ Leave(c, Returned, response[c])
    /\ UNCHANGED <<sends, options>>

\* Whatever ends an await is taken for the caller's cancellation.
ObserveCancellation_Unasked(c) ==
    /\ pc[c] \in {"awaiting", "problem"}
    /\ Throw(c, "OperationCanceled")
    /\ UNCHANGED <<sends, options>>

\* The token is not given to the reading of a failure's text.
ObserveCancellation_NotInError(c) ==
    /\ cancelled[c]
    /\ \/ pc[c] \in {"awaiting", "problem"}
       \/ pc[c] = "read" /\ Op(c).result = "json"
    /\ Throw(c, "OperationCanceled")
    /\ UNCHANGED <<sends, options>>

-----------------------------------------------------------------------------
(* Calling: the verb is the view's selection, else the client default. *)

Selected(m, view) == IF view = NoVerb THEN ClientDefault[m] ELSE view

\* A verb the method does not declare is refused before the try block.
RejectVerb(c, view) ==
    /\ pc[c] = "idle"
    /\ Selected(method[c], view) \notin Exposed[method[c]]
    /\ pc' = [pc EXCEPT ![c] = "done"]
    /\ verb' = [verb EXCEPT ![c] = Selected(method[c], view)]
    /\ outcome' = [outcome EXCEPT ![c] = Outcome("Rejected", "none")]
    /\ UNCHANGED <<method, attached, request, response, answer, cancelled, sends, shared>>

Begin(c, view) ==
    /\ pc[c] = "idle"
    /\ Selected(method[c], view) \in Exposed[method[c]]
    /\ pc' = [pc EXCEPT ![c] = "build"]
    /\ verb' = [verb EXCEPT ![c] = Selected(method[c], view)]
    /\ UNCHANGED <<method, attached, request, response, answer, cancelled, sends, outcome,
                   shared>>

\* BuildPath throws when the value of a required route token is null.
RouteValueMissing(c) ==
    /\ pc[c] = "build"
    /\ BadArguments
    /\ Throw(c, "ArgumentNull")
    /\ UNCHANGED <<sends, options>>

AfterRequest(c) ==
    IF Op(c).content = "json" THEN "check" ELSE IF Op(c).files > 0 THEN "form" ELSE "send"

BuildRequest(c) ==
    /\ pc[c] = "build"
    /\ request' = [request EXCEPT ![c] = "live"]
    /\ Goto(c, AfterRequest(c))
    /\ UNCHANGED <<attached, response, answer, sends, shared>>

\* The form's parameters are added one after the other. The media type of an upload
\* is parsed before its stream joins the content, where those before it already are.
BadMediaType(c) ==
    /\ pc[c] = "form"
    /\ BadArguments
    /\ Throw(c, "Format")
    /\ UNCHANGED <<sends, options>>

AttachUpload(c, u) ==
    /\ pc[c] = "form"
    /\ attached' = [attached EXCEPT ![c] = Append(@, u)]
    /\ Goto(c, IF Len(attached[c]) + 1 < Op(c).files THEN "form" ELSE "send")
    /\ UNCHANGED <<request, response, answer, sends, shared>>

-----------------------------------------------------------------------------
(* GetJsonTypeInfo, for the request's body or for the result: the options   *)
(* are read, then written, then asked, with no lock between.                *)

CheckResolver(c) ==
    /\ pc[c] = "check"
    /\ Goto(c, IF resolver = "none" /\ host.reflection THEN "assign" ELSE "type")
    /\ UNCHANGED <<attached, request, response, answer, sends, shared>>

AssignResolver(c) ==
    /\ pc[c] = "assign"
    /\ ~readOnly
    /\ resolver' = "reflection"
    /\ defaults' = defaults + 1
    /\ Goto(c, "type")
    /\ UNCHANGED <<attached, request, response, answer, sends, host, readOnly, open>>

\* The setter throws once the options are read-only.
AssignTooLate(c) ==
    /\ pc[c] = "assign"
    /\ readOnly
    /\ Throw(c, "ReadOnlyOptions")
    /\ UNCHANGED <<sends, options>>

Describes == {"reflection", "context"}

GetTypeInfo(c) ==
    /\ pc[c] = "type"
    /\ resolver \in Describes
    /\ Goto(c, IF response[c] = "none" THEN "send" ELSE "read")
    /\ UNCHANGED <<attached, request, response, answer, sends, shared>>

MissingMetadata(c) ==
    /\ pc[c] = "type"
    /\ resolver \notin Describes
    /\ Throw(c, "MissingMetadata")
    /\ UNCHANGED <<sends, options>>

-----------------------------------------------------------------------------
(* SendAsync. *)

\* Serialising a JSON body is the first use of its metadata.
Send(c) ==
    /\ pc[c] = "send"
    /\ \A u \in Attached(c) : open[u]
    /\ sends' = [sends EXCEPT ![c] = @ + 1]
    /\ readOnly' = (readOnly \/ Op(c).content = "json")
    /\ Goto(c, "awaiting")
    /\ UNCHANGED <<attached, request, response, answer, host, resolver, defaults, open>>

SendClosedUpload(c) ==
    /\ pc[c] = "send"
    /\ \E u \in Attached(c) : ~open[u]
    /\ sends' = [sends EXCEPT ![c] = @ + 1]
    /\ Throw(c, "HttpRequest")
    /\ UNCHANGED options

\* ResponseHeadersRead leaves the content of a file on the network;
\* ResponseContentRead has buffered any other content.
Receive(c, a) ==
    /\ pc[c] = "awaiting"
    /\ answer' = [answer EXCEPT ![c] = a]
    /\ response' = [response EXCEPT
                      ![c] = IF Op(c).result = "file" THEN "stream" ELSE "buffered"]
    /\ Goto(c, IF ~IsSuccess(a)
               THEN IF a.media = "problem" THEN "problem" ELSE "error"
               ELSE IF Op(c).result = "json" THEN "check" ELSE "read")
    /\ UNCHANGED <<attached, request, sends, shared>>

NetworkFails(c) ==
    /\ pc[c] = "awaiting"
    /\ Throw(c, "HttpRequest")
    /\ UNCHANGED <<sends, options>>

\* HttpClient.Timeout surfaces as a TaskCanceledException.
TimeOut(c) ==
    /\ pc[c] = "awaiting"
    /\ Throw(c, "OperationCanceled")
    /\ UNCHANGED <<sends, options>>

-----------------------------------------------------------------------------
(* ThrowForFailureAsync. *)

ProblemParsed(c) ==
    /\ pc[c] = "problem"
    /\ answer[c].payload = "valid"
    /\ Leave(c, RemoteCallException(TRUE, 0), Disposed(c))
    /\ UNCHANGED <<sends, options>>

\* A JsonException is swallowed and a null document ignored: the body is to be
\* read again, which a content still on the network does not allow.
ProblemUnusable(c) ==
    /\ pc[c] = "problem"
    /\ answer[c].payload # "valid"
    /\ response' = [response EXCEPT ![c] = IF @ = "stream" THEN "consumed" ELSE @]
    /\ Goto(c, "error")
    /\ UNCHANGED <<attached, request, answer, sends, shared>>

ReadExcerpt(c) ==
    /\ pc[c] = "error"
    /\ LET excerptLength == MinOf(answer[c].size, host.maximum) IN
         \/ /\ response[c] = "consumed"
            /\ Throw(c, "AlreadyConsumed")
         \/ /\ response[c] # "consumed" /\ excerptLength < 0
            /\ Throw(c, "ArgumentOutOfRange")
         \/ /\ response[c] # "consumed" /\ excerptLength >= 0
            /\ Leave(c, RemoteCallException(FALSE, excerptLength), Disposed(c))
    /\ UNCHANGED <<sends, options>>

\* The network fails under a content that was not buffered.
BodyBreaks(c) ==
    /\ pc[c] \in {"problem", "error"}
    /\ response[c] = "stream"
    /\ Throw(c, "HttpRequest")
    /\ UNCHANGED <<sends, options>>

-----------------------------------------------------------------------------
(* The result of a success. *)

ReturnVoid(c) ==
    /\ pc[c] = "read"
    /\ Op(c).result = "void"
    /\ Leave(c, Returned, Disposed(c))
    /\ UNCHANGED <<sends, options>>

ReadRaw(c) ==
    /\ pc[c] = "read"
    /\ Op(c).result = "raw"
    /\ Leave(c, Returned, Disposed(c))
    /\ UNCHANGED <<sends, options>>

ReadJson(c) ==
    /\ pc[c] = "read"
    /\ Op(c).result = "json"
    /\ readOnly' = TRUE
    /\ IF answer[c].payload = "malformed"
       THEN Throw(c, "Json")
       ELSE Leave(c, Returned, Disposed(c))
    /\ UNCHANGED <<sends, host, resolver, defaults>>

\* The RemoteFile returned owns the response.
ReturnFile(c) ==
    /\ pc[c] = "read"
    /\ Op(c).result = "file"
    /\ Leave(c, Returned, response[c])
    /\ UNCHANGED <<sends, options>>

\* No using block and no finally clause surrounds the opening of the stream.
OpenStreamFails(c) ==
    /\ pc[c] = "read"
    /\ Op(c).result = "file"
    /\ Leave(c, Caught("HttpRequest"), response[c])
    /\ UNCHANGED <<sends, options>>

-----------------------------------------------------------------------------
(* The caller. *)

Cancel(c) ==
    /\ ~cancelled[c]
    /\ pc[c] # "done"
    /\ cancelled' = [cancelled EXCEPT ![c] = TRUE]
    /\ UNCHANGED <<local, shared>>

\* The awaits that observe the token: sending, parsing JSON, and reading a body
\* still on the network. Reading a buffered text does not look at it, and
\* opening a file's stream is not given it.
ObserveCancellation(c) ==
    /\ cancelled[c]
    /\ \/ pc[c] \in {"awaiting", "problem"}
       \/ pc[c] = "error" /\ response[c] = "stream"
       \/ pc[c] = "read" /\ Op(c).result = "json"
    /\ Throw(c, "OperationCanceled")
    /\ UNCHANGED <<sends, options>>

\* RemoteFile.Dispose and DisposeAsync: the content, then its owner.
DisposeFile(c) ==
    /\ pc[c] = "done"
    /\ outcome[c] = Returned
    /\ response[c] = "stream"
    /\ response' = [response EXCEPT ![c] = "disposed"]
    /\ UNCHANGED <<pc, method, verb, attached, request, answer, sends, outcome, cancelled,
                   shared>>

-----------------------------------------------------------------------------

\* What a call does on its own, without waiting for the network.
Compute(c) ==
    \/ BuildRequest(c) \/ RouteValueMissing(c) \/ BadMediaType(c)
    \/ \E u \in Uploads : AttachUpload(c, u)
    \/ CheckResolver(c) \/ AssignResolver(c) \/ AssignTooLate(c)
    \/ GetTypeInfo(c) \/ MissingMetadata(c)
    \/ Send(c) \/ SendClosedUpload(c)
    \/ ReturnVoid(c) \/ ReadRaw(c) \/ ReadJson(c) \/ ReturnFile(c) \/ OpenStreamFails(c)

\* What it does with the body of a failure, which may still be on the network.
ReadFailure(c) == ProblemParsed(c) \/ ProblemUnusable(c) \/ ReadExcerpt(c)

Network(c) ==
    \/ \E a \in Answers : Receive(c, a)
    \/ NetworkFails(c) \/ TimeOut(c) \/ BodyBreaks(c)

Caller(c) ==
    \/ \E view \in Verbs \cup {NoVerb} : RejectVerb(c, view) \/ Begin(c, view)
    \/ Cancel(c)
    \/ DisposeFile(c)

Step(c) ==
    Compute(c) \/ ReadFailure(c) \/ Network(c) \/ Caller(c) \/ ObserveCancellation(c)

Next == \E c \in Calls : Step(c)

\* The runtime schedules a call that can compute; SendAsync ends because
\* HttpClient.Timeout ends it; an await ends once its token is cancelled. No
\* timeout covers a body left on the network, so reading one is fair only when
\* the content is buffered or already consumed.
Fairness ==
    \A c \in Calls :
        /\ WF_vars(Compute(c))
        /\ WF_vars(TimeOut(c))
        /\ WF_vars(ObserveCancellation(c))
        /\ WF_vars(response[c] # "stream" /\ ReadFailure(c))

Spec == Init /\ [][Next]_vars
FairSpec == Spec /\ Fairness

-----------------------------------------------------------------------------
(* Properties.                                                              *)

\* Every variable has its type.
TypeOK ==
    /\ pc \in [Calls -> Steps]
    /\ method \in [Calls -> Methods]
    /\ verb \in [Calls -> Verbs]
    /\ attached \in [Calls -> Seq(Uploads)]
    /\ request \in [Calls -> {"none", "live", "disposed"}]
    /\ response \in [Calls -> {"none", "disposed"} \cup OpenResponses]
    /\ answer \in [Calls -> Answers \cup {NoAnswer}]
    /\ cancelled \in [Calls -> BOOLEAN]
    /\ sends \in [Calls -> Nat]
    /\ outcome \in [Calls -> Outcomes]
    /\ host \in Hosts
    /\ resolver \in Resolvers
    /\ defaults \in Nat
    /\ readOnly \in BOOLEAN
    /\ open \in [Uploads -> BOOLEAN]

Sent(c) == sends[c] > 0
Settled(c) == pc[c] = "done"
Answered(c) == answer[c] # NoAnswer
Owned(c) == Settled(c) /\ outcome[c] = Returned /\ Op(c).result = "file"

\* A response that is open when its call has ended is a file's: the RemoteFile that
\* was returned owns it, or the opening of its stream has thrown, the one exit after
\* SendAsync that has neither a using block nor a finally clause. Every other
\* exception and every other result disposes its response.
ResponseHasOwner ==
    \A c \in Calls :
        response[c] \in OpenResponses /\ Settled(c) =>
            \/ Owned(c)
            \/ Op(c).result = "file" /\ IsSuccess(answer[c]) /\ outcome[c].cause = "HttpRequest"

\* A request lives only inside its call and is sent with every upload of the call,
\* and the stream of an upload is closed exactly when a call whose content it joined
\* has ended: neither earlier nor never, and also when nothing was sent, because a
\* later upload of the same call was refused.
UploadsFollowRequests ==
    /\ \A c \in Calls :
         /\ Settled(c) => request[c] \in {"none", "disposed"}
         /\ Sent(c) => Len(attached[c]) = Op(c).files
    /\ \A u \in Uploads : ~open[u] <=> \E c \in Calls : Settled(c) /\ u \in Attached(c)

\* What a caller is told is what the server answered: a result only from a
\* success whose JSON could be read, a RemoteCallException only from a failure,
\* with its problem exactly when the answer carried a usable one, and an
\* excerpt no longer than the body or than the configured maximum.
OutcomeAgreesWithAnswer ==
    \A c \in Calls : LET o == outcome[c] a == answer[c] IN
        /\ o.kind = "Returned" =>
             /\ Answered(c) /\ IsSuccess(a)
             /\ Op(c).result = "json" => a.payload # "malformed"
        /\ o.kind = "RemoteCall" =>
             /\ Answered(c) /\ ~IsSuccess(a)
             /\ o.problem <=> a.media = "problem" /\ a.payload = "valid"
             /\ o.excerpt <= a.size /\ (o.problem \/ o.excerpt <= host.maximum)

\* Nothing is sent for a call that is refused, or whose arguments are.
RefusedBeforeSending ==
    \A c \in Calls :
        \/ outcome[c].kind = "Rejected"
        \/ outcome[c].cause \in {"ArgumentNull", "Format"}
        => ~Sent(c) /\ ~Answered(c)

\* Once a response was received the only OperationCanceledException is the
\* caller's: HttpClient.Timeout no longer applies to what is left to read.
CancellationHasAuthor ==
    \A c \in Calls :
        outcome[c].kind = "Canceled" => cancelled[c] \/ (Sent(c) /\ ~Answered(c))

ReportsFailure(c) ==
    Settled(c) /\ Answered(c) /\ ~IsSuccess(answer[c])
        => outcome[c].kind = "RemoteCall" \/ (outcome[c].kind = "Canceled" /\ cancelled[c])

\* A non-success response that was buffered becomes a RemoteCallException, even
\* when its Problem Details are malformed; unless it has none that are usable and the
\* host bounds the excerpt by a negative number, which no excerpt can have.
BufferedFailureIsReported ==
    \A c \in Calls :
        Op(c).result # "file" =>
            \/ ReportsFailure(c)
            \/ /\ host.maximum < 0 /\ outcome[c].cause = "ArgumentOutOfRange"
               /\ ~(answer[c].media = "problem" /\ answer[c].payload = "valid")

\* The call serialised or deserialised with the options, which locks them.
UsedJson(c) ==
    \/ Sent(c) /\ Op(c).content = "json"
    \/ Op(c).result = "json" /\ outcome[c].kind = "Returned"
    \/ outcome[c].cause = "Json"

\* The assignment of the default resolver fails only in a host that configured
\* none, and only because another call used the options between this call's
\* look at them and its write.
AssignmentRaceNeedsAnotherCall ==
    \A c \in Calls :
        outcome[c].cause = "ReadOnlyOptions" =>
            /\ host.resolver = "none"
            /\ \E d \in Calls \ {c} : UsedJson(d)

\* Metadata is missing only on a host that registered a context without the type
\* or that has neither a context nor reflection, never because of another call;
\* and if the request was sent by then it is a success that cannot be read.
MetadataFailureIsTheHosts ==
    \A c \in Calls :
        outcome[c].cause = "MissingMetadata" =>
            /\ host.resolver = "foreign" \/ (host.resolver = "none" /\ ~host.reflection)
            /\ Sent(c) => Op(c).result = "json" /\ IsSuccess(answer[c])

\* The resolver that a host configured is never replaced. Where it configured none,
\* first calls that overlap may replace each other's default, though never by nothing,
\* but no longer once a call has used the options: what one call resolved its types
\* against is what every later call resolves against.
OptionsSettle ==
    [][/\ host.resolver # "none" \/ (\E c \in Calls : UsedJson(c)) =>
            UNCHANGED <<resolver, defaults>>
       /\ resolver # "none" => resolver' # "none"
       /\ readOnly => readOnly']_vars

\* A call for anything but a file ends.
BufferedCallsSettle ==
    \A c \in Calls : (pc[c] # "idle" /\ Op(c).result # "file") ~> Settled(c)

\* A call whose token is cancelled ends, a file's too, though no timeout covers
\* the body of its failure.
CancelledCallsSettle ==
    \A c \in Calls : (pc[c] # "idle" /\ cancelled[c]) ~> Settled(c)

-----------------------------------------------------------------------------
(* The promise to the caller, and how a call's state maps to it.            *)

Verdict ==
    [Pending |-> "none", Rejected |-> "refused", Returned |-> "value",
     RemoteCall |-> "failure", Transport |-> "broken", Canceled |-> "cancelled"]

PhaseOf(c) == IF pc[c] = "idle" THEN "idle" ELSE IF Settled(c) THEN "settled" ELSE "running"
ExchangeOf(c) ==
    IF ~Sent(c) THEN "unsent"
    ELSE IF sends[c] > 1 THEN "resent"
    ELSE IF ~Answered(c) THEN "sent"
    ELSE IF IsSuccess(answer[c]) THEN "succeeded" ELSE "failed"

phaseBar == [c \in Calls |-> PhaseOf(c)]
exchangeBar == [c \in Calls |-> ExchangeOf(c)]
verdictBar == [c \in Calls |-> Verdict[outcome[c].kind]]
heldBar == [c \in Calls |-> response[c] \in OpenResponses]

Contract == INSTANCE CallContract
    WITH phase <- phaseBar, exchange <- exchangeBar, verdict <- verdictBar, held <- heldBar

\* Every step of a call, alone or among others that share the options and the
\* uploads, is a step of the contract or does not show in it.
ImplementsContract == Contract!Spec

-----------------------------------------------------------------------------
(* What the repository says of the program and the code does not do.        *)

\* Client README:91, "Non-success responses produce RemoteCallException": a file
\* call's too, unless the network failed under its body.
FailureIsReported ==
    \A c \in Calls : outcome[c].cause # "HttpRequest" => ReportsFailure(c)

\* RemoteServiceExceptions.cs:135, a RemoteTransportException "represents a
\* network, protocol, or deserialization failure during a remote call".
TransportMeansExchangeFailure ==
    \A c \in Calls :
        outcome[c].kind = "Transport" => outcome[c].cause \in {"HttpRequest", "Json"}

\* Client README:94, "`RemoteFile` owns the HTTP response lifetime for streamed
\* downloads": a download's response that is open has a RemoteFile to own it.
DownloadsAreOwned ==
    \A c \in Calls : Settled(c) /\ response[c] \in OpenResponses => Owned(c)

\* RemoteUploadFile.cs:15, leaveOpen is "whether the caller retains ownership of
\* content": a call never closes such a stream.
LeftOpenUploadsStayOpen == \A u \in LeaveOpen : open[u]
=============================================================================
