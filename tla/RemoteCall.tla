----------------------------- MODULE RemoteCall -----------------------------
(***************************************************************************)
(* A call from the caller to the service and back: the proxy's method      *)
(* (ClientCall) and the endpoint's handler (ServerEndpoint), generated     *)
(* from one contract and joined by HTTP. The network may lose a request,   *)
(* deliver it after its caller has given up, and break at any time.        *)
(***************************************************************************)
EXTENDS Integers

CONSTANTS
    Calls, Methods, Verbs, Exposed, ClientDefault, Uploads, LeaveOpen, Hosts,
    MaximumFiles, BadArguments, NoVerb, NoAnswer,
    Handles, RemoteStatuses, DescribedBodies, DescribedResults, NoOperation,
    Files      \* Files[o]: how many RemoteUploadFile parameters operation o has

VARIABLES
    pc, method, verb, attached, request, response, answer, cancelled, sends, outcome,
    host, resolver, defaults, readOnly, open,
    handler, operation, input, executed, result, fault, status, body, started, content,
    owner, aborted,
    flight     \* the request on the network: "none", "sent", "arrived"

clientVars == <<pc, method, verb, attached, request, response, answer, cancelled, sends,
                outcome, host, resolver, defaults, readOnly, open>>
serverVars == <<handler, operation, input, executed, result, fault, status, body, started,
                content, owner, aborted>>
vars == <<clientVars, serverVars, flight>>

\* One contract: the proxy's block and the endpoint's handler of an operation agree
\* on what is sent and returned, for both are emitted from one HttpOperationModel.
AllOperations == Methods \X Verbs
ClientOperation ==
    [m \in Methods |-> [v \in Verbs |->
        LET h == Handles[<<m, v>>] IN
        [content |-> IF h.body THEN "json" ELSE IF h.reads THEN "form" ELSE "none",
         files |-> Files[<<m, v>>],
         result |-> IF h.result \in {"text", "bytes"} THEN "raw" ELSE h.result]]]

Server == INSTANCE ServerEndpoint
    WITH Requests <- Calls, Operations <- AllOperations, pc <- handler

\* The responses a server of this contract gives: a declared success or the default of
\* its kind, a part of a file, an expected error, a refusal, an error nobody expected, or
\* a file withheld, should the host's HttpClient add conditions or a range to the request.
Declared == {Handles[o].success : o \in AllOperations} \ {0}
Statuses ==
    Declared \cup {200, 204, 206} \cup RemoteStatuses \cup {400, 500} \cup Server!Withheld
Answers ==
    [status : Statuses, media : {"problem", "other"},
     payload : {"valid", "malformed", "null"}, size : 0..1]

Client == INSTANCE ClientCall WITH Operation <- ClientOperation

ASSUME ContractAssumption ==
    /\ Exposed \in [Methods -> SUBSET Verbs]
    /\ ClientDefault \in [Methods -> Verbs]
    /\ \A m \in Methods : ClientDefault[m] \in Exposed[m]
    /\ NoVerb \notin Verbs
    /\ Handles \in [AllOperations -> [body : BOOLEAN, reads : BOOLEAN,
                                     defects : SUBSET Server!Defects,
                                     result : Server!Results, success : {0} \cup 200..299,
                                     dynamic : BOOLEAN]]
    /\ Files \in [AllOperations -> 0..MaximumFiles]
    /\ \A o \in AllOperations : Files[o] > 0 => Handles[o].reads /\ ~Handles[o].body
    /\ MaximumFiles \in Nat
    /\ NoOperation \notin AllOperations
    /\ DescribedBodies \subseteq AllOperations
    /\ DescribedResults \subseteq AllOperations

ASSUME EnvironmentAssumption ==
    /\ LeaveOpen \subseteq Uploads
    /\ RemoteStatuses \subseteq 400..599
    /\ NoAnswer \notin Answers
    /\ BadArguments \in BOOLEAN
    /\ Hosts \subseteq [resolver : Client!Resolvers, reflection : BOOLEAN, maximum : Int]

\* What HttpClient makes of the response: one without a body is an empty text, which
\* no JSON document is.
PayloadOf(c) ==
    IF body[c] = "empty" THEN "malformed"
    ELSE IF result[c] = "null" /\ body[c] = "whole" THEN "null" ELSE "valid"
AnswerOf(c) ==
    [status |-> status[c],
     media |-> IF body[c] = "problem" THEN "problem" ELSE "other",
     payload |-> PayloadOf(c),
     size |-> IF body[c] = "empty" THEN 0 ELSE 1]

Init ==
    /\ Client!Init
    /\ Server!Init
    /\ flight = [c \in Calls |-> "none"]

Send(c) ==
    /\ Client!Send(c)
    /\ flight' = [flight EXCEPT ![c] = "sent"]
    /\ UNCHANGED serverVars

\* Both ends format and parse with the invariant culture, so what the proxy sends
\* can be parsed; a null value that the endpoint requires is left out and missing.
Inputs == {"good", "missing"}
Arrive(c) ==
    /\ flight[c] = "sent"
    /\ flight' = [flight EXCEPT ![c] = "arrived"]
    /\ \E i \in Inputs :
         /\ i \in {"good"} \cup Handles[<<method[c], verb[c]>>].defects
         /\ Server!Arrive(c, <<method[c], verb[c]>>, i)
    /\ UNCHANGED clientVars

\* A buffered response is received when it is complete, a streamed one with its
\* headers; one that broke before is a failure of the network.
Available(c) ==
    \/ handler[c] = "done" /\ body[c] # "broken"
    \/ started[c] /\ Client!Op(c).result = "file"

Receive(c) ==
    /\ Available(c) /\ ~aborted[c]
    /\ Client!Receive(c, AnswerOf(c))
    /\ UNCHANGED <<serverVars, flight>>

\* The server sees the connection go when the client lets go of it or the network
\* fails; what the client has not received by then it never will.
Abort(c) ==
    /\ Server!Abort(c)
    /\ UNCHANGED <<clientVars, flight>>

\* Whatever a proxy does without the server.
ClientAlone(c) ==
    /\ \/ Client!BuildRequest(c) \/ Client!RouteValueMissing(c) \/ Client!BadMediaType(c)
       \/ \E u \in Uploads : Client!AttachUpload(c, u)
       \/ Client!CheckResolver(c) \/ Client!AssignResolver(c)
       \/ Client!AssignTooLate(c) \/ Client!GetTypeInfo(c) \/ Client!MissingMetadata(c)
       \/ Client!SendClosedUpload(c) \/ Client!ReturnVoid(c) \/ Client!ReadRaw(c)
       \/ Client!ReadJson(c) \/ Client!ReturnFile(c) \/ Client!OpenStreamFails(c)
       \/ Client!ReadFailure(c) \/ Client!NetworkFails(c) \/ Client!TimeOut(c)
       \/ Client!BodyBreaks(c) \/ Client!Caller(c) \/ Client!ObserveCancellation(c)
    /\ UNCHANGED <<serverVars, flight>>

ServerAlone(c) ==
    /\ handler[c] # "none"
    /\ Server!Handle(c) \/ Server!Service(c)
    /\ UNCHANGED <<clientVars, flight>>

Next ==
    \E c \in Calls :
        \/ ClientAlone(c) \/ ServerAlone(c)
        \/ Send(c) \/ Arrive(c) \/ Receive(c) \/ Abort(c)

Spec == Init /\ [][Next]_vars

-----------------------------------------------------------------------------
(* The two ends, and the promise they make together.                        *)

EffectOf(c) ==
    IF executed[c] = 0 THEN "none"
    ELSE IF executed[c] > 1 THEN "repeated"
    ELSE IF result[c] # "none" THEN "returned"
    ELSE IF fault[c].at = "running" THEN "threw" ELSE "running"
Told ==
    [none |-> "nothing", refused |-> "refused", value |-> "value", failure |-> "failure",
     broken |-> "unknown", cancelled |-> "unknown"]

effectBar == [c \in Calls |-> EffectOf(c)]
toldBar == [c \in Calls |-> Told[Client!Verdict[outcome[c].kind]]]

Invocation == INSTANCE RemoteInvocation WITH effect <- effectBar, told <- toldBar

\* The proxy and the endpoint together keep the promise of RemoteInvocation, over a
\* network that loses and delays what it carries.
ImplementsInvocation == Invocation!Spec

\* A proxy that talks to a generated endpoint behaves as ClientCall says: what the
\* handler writes is always one of the responses that the proxy was modelled with,
\* so what is proved of every call holds of this one.
ImplementsClient == Client!Spec

\* What the caller is told is what the service did. A RemoteCallException with a
\* problem carries the status of the exception the service threw. One without comes
\* from a request that the endpoint refused; from an exception that it could not say,
\* which need not mean that the operation failed, since the result of an operation
\* that has returned may be one without metadata; or from a file that was withheld.
\* And a JSON result is null exactly when the service returned null.
ErrorsKeepTheirMeaning ==
    \A c \in Calls :
        /\ outcome[c].kind = "RemoteCall" =>
             IF outcome[c].problem
             THEN fault[c].kind = "Remote" /\ answer[c].status = fault[c].status
             ELSE \/ answer[c].status = 400 /\ executed[c] = 0
                  \/ answer[c].status = 500 /\ fault[c].kind \in {"Remote", "Other"}
                  \/ /\ answer[c].status \in Server!Withheld
                     /\ Client!Op(c).result = "file" /\ result[c] = "some"
        /\ outcome[c].kind = "Returned" /\ Client!Op(c).result = "json" =>
             (answer[c].payload = "null") = (result[c] = "null")

\* A call that is refused, or whose arguments are, has no request anywhere: not on
\* the network, where it could still be delivered, nor at the endpoint.
RefusedLeavesNoTrace ==
    \A c \in Calls :
        \/ outcome[c].kind = "Rejected"
        \/ outcome[c].cause \in {"ArgumentNull", "Format"}
        => flight[c] = "none" /\ handler[c] = "none" /\ executed[c] = 0

\* When caller and handler are both through, nothing of the call is open at either
\* end but the response of a file, which is in the caller's hands unless its stream
\* could not be opened: not the file the service returned, not the request, not the
\* response of a call for anything else.
NothingIsLeftOpen ==
    \A c \in Calls :
        Client!Settled(c) /\ handler[c] \in {"none", "done"} =>
            /\ content[c] # "open"
            /\ request[c] \in {"none", "disposed"}
            /\ response[c] \in Client!OpenResponses
                 => /\ Client!Op(c).result = "file" /\ result[c] # "none"
                    /\ outcome[c].kind = "Returned" \/ outcome[c].cause = "HttpRequest"
=============================================================================
