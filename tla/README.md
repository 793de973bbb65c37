# Verification of Ling.RemoteServices

Ling.RemoteServices turns a C# interface into both ends of an HTTP API: Roslyn source generators
read the attributes of a *contract* and emit a client proxy that implements the interface over
`HttpClient`, and Minimal API endpoints that call the application's implementation of it. The code
under `src/src` is therefore of two sorts: generators, which run once per compilation and are
sequential, and the code they emit with the small runtimes it calls, which runs concurrently, over
a network, against streams somebody has to close. This project models the second sort, of the first
the parser, whose model of the contract everything emitted depends on, the mapping of endpoints when
a host starts, and the reconnect dialog of the example application, the one script in the repository.

## 1. Inventory

| Component | Code (below `src/src/`) | State it keeps | Operations | Modelled by |
|---|---|---|---|---|
| Client proxies | `Generators.Client/ClientEmitter.cs` | the locals of one invocation: verb, request, response | one async method per contract method; `WithHttpMethod` views | `ClientCall` |
| Client runtime | `Client/RemoteServiceClientRuntime.cs`, `RemoteServiceClientOptions.cs` | the JSON options, one object for all calls | `BuildPath`, `GetJsonTypeInfo`, `ThrowForFailureAsync`, value formatting | `ClientCall` |
| Server endpoints | `Generators.AspNetCore/ServerEmitter.cs` | the locals of one handler, the HTTP response | two handlers per operation: framework-bound, and a `RequestDelegate` for hosts without dynamic code | `ServerEndpoint` |
| AspNetCore runtime | `AspNetCore/RemoteServiceServerRuntime.cs` | none of its own; reads the host's JSON options | `RequireValue`, `Parse`, `GetJsonTypeInfo`, `Problem` | `ServerEndpoint` |
| Exchange of the two ends | both emitters | a request on the network | send, deliver, answer, abort | `RemoteCall` |
| Abstractions | `Ling.RemoteServices/` | `RemoteFile` and `RemoteUploadFile` own streams | dispose; exceptions carry status and problem | parts of both |
| Contract parser | `Generators.Shared/ContractParser.cs`, `ContractDiscovery.cs` | none (one pass) | walk the interface hierarchy, merge declarations, infer bindings, reject | `ContractParse` |
| Endpoint policies | `Generators.Shared/EndpointPolicyParser.cs`, `EndpointPolicyEmitter.cs`, `RemoteServiceEndpointPolicyRuntime.cs` | none | effective policy of an operation, applying it to an endpoint | `EndpointPolicy` (the first), `EndpointConventions` (the second) |
| Endpoint conventions | `AspNetCore/RemoteServiceConventionBuilder.cs` and its builders, the mappers of `ServerEmitter.cs` | a registry by service, method and verb; the conventions of groups and endpoints | map, file, look up, add, add finally | `EndpointConventions` |
| Endpoint metadata | `EndpointMetadataParser.cs`, `EndpointMetadataEmitter.cs` | none | copy attributes into OpenAPI metadata | no |
| Contract generator, analyzer | `Generators.Contract/` | none | manifest text, diagnostics | no |
| Code builder | `Generators.Shared/CodeBuilder.cs` | indentation, open scopes, text | append, open, close | no |
| Reconnect dialog | `samples/.../ReconnectModal.razor.js` (below `src/`), its `.razor` and `.css` | the listener, the dialog and its class | retry, resume, Blazor's events | `ReconnectModal` |
| Samples otherwise, tests, scripts | `samples/`, `tests/`, `scripts/` | - | read for what they expect | no |

### How the components interact

    caller -> proxy -> HttpClient -> network -> host -> endpoint -> service
                \                                          |
                 +-> RemoteServiceClientRuntime             +-> RemoteServiceServerRuntime
                       (shared JSON options)                      (the host's JSON options)

Calls of one process share three things: the `HttpClient`, the singleton JSON options, and, when a
caller passes one `RemoteUploadFile` to several calls, its stream. Handlers share nothing of the
library's: requests are independent up to the service they resolve.

### What is hard, and what makes each component correct

* **Proxies.** Four resources (request, upload stream, response, returned file) whose disposal
  follows `using` blocks, a `finally` clause or nothing at all depending on the result's type, with
  an exception possible at every await. Correct when every response has an owner, every request
  dies with its call, the caller is told what the server answered, and nothing is sent for a
  refused call.
* **Shared options.** `GetJsonTypeInfo` tests `TypeInfoResolver`, writes it and reads from it with
  no lock, and .NET locks the options at their first use. Correct when calls cannot disturb each
  other or what the host configured.
* **Cancellation and timeout.** Both surface as `OperationCanceledException`; with
  `ResponseHeadersRead` the timeout does not cover the body.
* **Handlers.** Binding, calling, describing the result and writing it all throw; the two handlers
  of an operation cover different parts of that by their `try` blocks; the status cannot be changed
  once the response started. Correct when the response says what the service did, and a returned
  stream is closed on every path.
* **Exchange.** The request can be executed after its caller has given up. Correct when what a
  caller is told is never contradicted, before or after.
* **Startup.** One thread, but a mapping throws at an unregistered policy with half of the endpoints
  mapped, and conventions reach an endpoint through its group, its method or itself, which decides
  their order. Correct when an endpoint has what covers it and no other, and no failure leaves one
  unprotected.
* **Reconnect dialog.** Clicks, visibility changes, Blazor's events and late answers meet at any
  await. Correct when a page that lost its circuit always has somebody waiting, shows the button
  that fits, and is not reloaded while it works.
* **Generators.** Precedence along an interface hierarchy, inferred bindings, policies laid over
  each other: sequential, but with many combinations no test enumerates.

`PROJECT.json` lists each hazard at the line where it bites, with the properties that would catch it.

## 2. Modules

| Module | What it is |
|---|---|
| `ClientCall` | the body of every generated client method, any number of concurrent calls |
| `CallContract` | what a caller may rely on, and where a response may be lost: the abstract specification of `ClientCall` |
| `ClientCallProofs` | the inductive invariant of `ClientCall` and eleven theorems |
| `ClientCallRefinement` | the proof that `ClientCall` implements `CallContract` |
| `ServerEndpoint` | the two generated handlers of every operation |
| `ServerEndpointProofs` | its inductive invariant and the theorems that follow |
| `RemoteInvocation` | what an invocation amounts to, seen from both ends at once |
| `RemoteCall` | `ClientCall` and `ServerEndpoint` joined by a network |
| `RemoteCallProofs` | that the two ends together implement `RemoteInvocation`, and six more theorems |
| `ContractParse` | the parser, from an interface to the model the generators emit from |
| `ContractParseProofs` | that the walk and the verbs follow inheritance, for any hierarchy |
| `ContractModelProofs` | that bindings and policies do, that what is accepted can be emitted, and that the parser gets done |
| `EndpointPolicy` | the policies of an operation, from the attributes of every declaration |
| `EndpointConventions` | `MapRemoteServices`: policies and conventions on every endpoint |
| `EndpointConventionsProofs` | that a failed mapping leaves no endpoint unprotected, and a successful one gives every endpoint what its scopes say |
| `ReconnectModal` | the handlers of the reconnect dialog among the events of a page |
| `ReconnectModalProofs` | its inductive invariant and five theorems, for any number of activations |
| `MCClientCall`, `MCServerEndpoint`, `MCRemoteCall`, `MCContractParse`, `MCEndpointConventions` | instances for TLC |

### ClientCall and the code

A call's `pc` is the place in the generated method; a step is what runs between two awaits, or
between two accesses to state that calls share.

| pc | in `ClientEmitter.cs` / the runtime | leaves by |
|---|---|---|
| `idle` | the view's verb against the method's (line 184 on) | `RejectVerb`, `Begin` |
| `build` | `BuildPath`, `new HttpRequestMessage` | `BuildRequest`, `RouteValueMissing` |
| `form` | the loop over the form's parameters: of each upload the media type is parsed, then its stream joins the content | `AttachUpload` once for each, `BadMediaType` before any of them |
| `check`, `assign`, `type` | the three accesses of `GetJsonTypeInfo`, for the body and again for the result | `CheckResolver`, `AssignResolver`, `AssignTooLate`, `GetTypeInfo`, `MissingMetadata` |
| `send`, `awaiting` | `SendAsync` | `Send`, `SendClosedUpload`, `Receive`, `NetworkFails`, `TimeOut` |
| `problem`, `error` | `ThrowForFailureAsync`: Problem Details, then the excerpt | `ProblemParsed`, `ProblemUnusable`, `ReadExcerpt`, `BodyBreaks` |
| `read` | the result: nothing, text or bytes, JSON, a file | `ReturnVoid`, `ReadRaw`, `ReadJson`, `ReturnFile`, `OpenStreamFails` |
| `done` | returned or thrown | `DisposeFile`, the caller's |

`Leave` is what every path out has in common: the `using` of the request, which disposes its
content and with it the streams of the uploads that joined it so far (`attached`), also when a later upload
of the same form was refused and nothing was sent. `Caught` is the pair of catch clauses at the end of every
method: `OperationCanceledException` passes, anything else becomes a `RemoteTransportException`.
`Disposed` is the response's `using` or `finally`, and `OpenStreamFails` is the one path that has
neither. `cancelled` is the caller's token, which may be set at any moment; `ObserveCancellation`
lists the awaits that look at it. `host` is the client application: which metadata resolver it
configured, how it bounds the excerpt (no setter checks that), and whether reflection is compiled in. It is chosen in
`Init`; `resolver` and `defaults` are what calls make of the resolver, where `defaults` tells one default object
from the next.

Names, headers, query strings and payloads are abstracted to what the control depends on: an
answer is a status, whether it is `application/problem+json`, whether its JSON is valid, malformed
or the document `null`, and a length.

### ServerEndpoint and the code

| pc | in `ServerEmitter.cs` | leaves by |
|---|---|---|
| `resolve` | `GetRequiredService` | `ResolveService`, `ActivationFails` |
| `bind` | the framework's binding, or the generated binder | `Bind`, `BindUndescribed`, `FrameworkRefuses`, `BindMissing`, `BindMalformed`, `BindAborted` |
| `call`, `running` | the service's method | `CallService`, `ServiceReturns`, `ServiceThrows` |
| `describe` | `GetJsonTypeInfo` of a JSON result | `Describe`, `DescribeFails` |
| `write`, `body` | `EmitResult` and what the ASP.NET result does | `WriteNothing`, `StartBody`, `Withhold`, `BodyRefused`, `FinishBody`, `BodyFails`, `NullRefused` |
| `problem` | the catch clause: `Problem(exception).ExecuteAsync` | `ExecuteProblem`, `ProblemFails` |
| `escaped` | beyond the handler | `HostAnswers`, `HostBreaks` |

`InTry` is the difference between the two handlers: the `RequestDelegate` has everything in its
`try`, the framework-bound handler only the call and the result. `fault.at` remembers where the
exception was thrown, which is what `ThrownErrorsAreProblems` depends on. What surrounds the
handler is assumed, not verified: the host answers an escaped `BadHttpRequestException` with 400 and
anything else with 500, breaks the connection when the response has started, and refuses bodies
under 204 and 205. A file is handed to its result with its last modification and, where the service asked
for it, with range processing (`ServerEmitter.cs:786`): `StartBody` writes it with 200 or 206, and `Withhold` answers
304, 412 or 416 without it. Of the exceptions, `ThrownErrorsAreProblems` says what each becomes:

| Thrown | by | The response |
|---|---|---|
| a `RemoteServiceException` | the constructor of the service, host without dynamic code | its problem |
| the same | the constructor, host with dynamic code: outside the `try` | 500 |
| the same | the service's method, or writing a result that has not started | its problem |
| the same | the first read of a file, whose headers are set | its problem, or 500 |
| the same | the body of a response that has started | broken off |
| anything else | any of these places | 500, or broken off once started |

### RemoteCall

One contract, one map `Handles`, read by the proxy (`ClientOperation`) and by the endpoint, because
both generators read one `HttpOperationModel`. `flight` is the request on the network: `Send` puts
it there, `Arrive` delivers it, possibly after its caller has timed out or cancelled, and never if
it was lost. `AnswerOf` is what `HttpClient` makes of the response written. The composition is
checked against two specifications: `ImplementsClient` says that a generated endpoint never
answers outside the answers `ClientCall` was analysed with, so that everything shown of `ClientCall`
holds here; `ImplementsInvocation` is the promise the two ends make together: the operation is
executed at most once, a value is told only after it returned, and after a refusal or a failure it
will not be executed any more.

### ContractParse

Roslyn's symbols are the variable `contract`, chosen at the start and never changed: who inherits
whom, and what each interface declares of each method. `stack` is the recursion of `Visit` in
`GetInterfaceHierarchy`, one frame for each active call with the bases it has left; `Descend` and
`Return` are its loop and its return, and `sources` its result. Interfaces are numbers, whose order
is that of their names, because that is the order in which the code visits bases. The declarations
of a method are then places in `Order`, and "the last" is what most of the parser asks for
(`Method`, `VerbAttributes`, `Binding`, `EndpointName`). `ParseMethod` and `SkipMethod` are one
turn of the loop over the methods, with or without a model; `GroupMethods`, `RejectOverload`,
`Accept` and `Reject` are the checks of the whole service around it. `Operation` calls
`ParseEffective` of `EndpointPolicy`, which has no state of its own.

A verb attribute is as `written` and has a `route`, because conflicts compare the one and duplicates
the other; whether the route is supported and the success status in range is one flag, `valid`.
The properties never mention the walk's order: they speak of `contract.all`, who inherits whom,
and therefore of what a reader of the interfaces expects.

### EndpointConventions and the code

`MapRemoteServices` runs on one thread, so a step is what lies between two places that throw. `next`
is the operation a generated mapper is at and `step` its place there: `MapMethods` is the call of
`MapMethods`, `ApplyDedicated` is what `EmitApply` emits before the custom policies, `ApplyCustom`
and `CustomPolicyFails` are `RemoteServiceEndpointPolicyRuntime.Apply` for one of them, whose callback adds to both
lists of its builder and may throw when it has, and `MapMethodsFails` a route that the parser lets through and
ASP.NET Core does not;
`FinishOperation` is the timeout after them and the filing of the builders. Then the host's callback
adds conventions, and after it the caller of `MapRemoteServices` may go on: `Add` is every builder's
`Add` and `Finally`, for a scope that names a service, a method and a verb or leaves them open from
the right. `group` and `own` are the lists of the ASP.NET builders. `Effective` is assumed of ASP.NET
Core: the conventions of a group run before those of its endpoints, its final ones after. `host`
is history. The typed helpers (`Produces`, `WithRequestTimeout`, filters and so on) are calls of
`Add` after checks of their arguments, and have no action of their own. A contract is a sequence of
operations whose policies are given; `EndpointPolicy` computes them, and the two are not composed.

### ReconnectModal and the code

A task is one activation of `retry` or `resume`, and its `pc` the await it is at; what runs between
two awaits is a step, which is the event loop's guarantee. `reply` is what the awaited promise will
settle with: a server decides at one moment (`AnswerReconnect`, `AnswerResume`, `Unreachable`) and
the script hears of it at a later one (`Retry...`, `Resumed`, `Resume...`). `armed` is the
visibility listener, `dialog` and `class` are the element, `class` as the CSS and Blazor use it. A
dialog opened with `showModal()` closes on Escape, which no handler of the script hears of: that is
`Dismiss`, and `dismissed` remembers it until the dialog is opened or closed the next time. In the classes of a retry and
of a failure the style sheet displays the element all the same, so `ClickRetry` needs no open dialog; in
that of a pause it does not, so `ClickResume` does.
Of Blazor, the browser and the server, none of which is in the repository, the model has what the
script expects: Blazor classes the dialog before its event, loses a connection, tries again and
gives up or is rejected; a reload ends all activations; a circuit can be resumed once. Whether
a second resume of the same circuit is refused or succeeds is left open. `overlapped` is history:
an activation began while another was under way.

## 3. Runs

Deadlock checking is off wherever calls or requests end and leave nothing to do.

| Run | Instance | What it shows |
|---|---|---|
| `ClientCall_safety` | 2 calls, 4 methods (all shapes of content and result), 6 answers, forms of 2 uploads, 2 hosts: one without a resolver, one with a JSON context that lacks the contract's types and with a negative excerpt bound; `FairSpec`; 408,294 states | nine invariants; every step is one of `CallContract`; options settle; buffered calls end; cancelled calls end |
| `ServerEndpoint_handlers` | 1 request, 8 operations (all results, and the statuses at which the handler behaves differently), each by both handlers; `FairSpec`; 1,399 states | five invariants, `ResponseIsFinal`, `EndedCallsAreAnswered` |
| `RemoteCall_exchange` | 1 call, 5 methods, 2 of them mapped with dynamic code, 1 with an undescribed result; 5,807 states | errors keep their meaning, refusals leave no trace, nothing is left open; both refinements |
| `ContractParse_hierarchy` | 13,806 contracts: all 79 hierarchies of a service and 3 interfaces it inherits, with few declarations; chains and diamonds with many; on a diamond, policies of every kind side by side; `FairSpec`; 168,270 states | the walk, verbs, bindings and policies follow inheritance; what is accepted can be emitted; parsing ends |
| `EndpointConventions_startup` | 4 operations of 2 services, one method with two verbs, 4 registrations of custom policies (none, one, both, one twice), 3 conventions of the host; 25,305 states | an endpoint has the conventions that cover it, in the order their scopes give; what a failed mapping leaves behind |
| `ReconnectModal_dialog` | 3 activations at once, a dialog the user may close; `FairSpec`; 1,212,148 states | a lost page is watched, shows its way out, is not reloaded while it works, and recovers unattended |
| `ClientCall_download`, `_leave_open`, `_streamed_problem`, `_resolver_race`, `ServerEndpoint_file_owner`, `_status` | the smallest instance each | the disagreements of section 6 |

Why these bounds are enough: the two calls are the fewest that can share options and an upload, and
interference between calls goes through those two only; `AssignmentRaceNeedsAnotherCall` is the
property that needs the second call, and it is proved for any number. The uploads are two so that
calls can share one or not, and a form has two so that the second can be refused when the first has joined
the content. Of the two hosts the first is where an assignment can race, the second where metadata is missing and an
excerpt impossible. The answers are one of each kind the code distinguishes; bodies of
length 1 and 3 under a bound of 2 give an excerpt that is the whole body and one that is cut, and a bound of -1 none. `sends` counts
without a bound in the model; the code cannot make it exceed 1, which the refinement shows. In
`ServerEndpoint` requests have no variable in common, so one is enough. In `RemoteCall` the server
state multiplies the client's, so it has one call of each method; that nothing changes when calls
share the options and the uploads is proved, for any number of them (`RemoteCallProofs`). In
`ContractParse` four interfaces are the fewest with a diamond, and all hierarchies of four are
taken, those with names in every order included; what is declared on them is kept small (a GET, a
POST or nothing) where all hierarchies are tried, and is varied where the hierarchy is a chain or a
diamond.

In `EndpointConventions` two services and a method of two verbs are what tells the scopes
apart, and three conventions let two of one scope surround one of another. Three activations are one
more than the dialog's hazards need: two that overlap, and one that starts after.

### Fairness

* `WF(Compute(c))`: the runtime runs a continuation that is ready.
* `WF(TimeOut(c))`: `HttpClient.Timeout` ends a `SendAsync`; the default is 100 seconds and the
  library does not change it.
* `WF(ObserveCancellation(c))`: an await that was given a cancelled token ends.
* `WF(response # "stream" /\ ReadFailure(c))`: reading what is in memory ends. It is *not* assumed of a body left
  on the network, which no timeout covers: that is why `BufferedCallsSettle` excludes
  files and `CancelledCallsSettle` is the most that can be said of them.
* `WF(Next)` of `ContractParse`: a parser runs until it returns.
* `WF(Handle(r))`: the host runs its handlers. A service is not assumed to return, so
  `EndedCallsAreAnswered` starts at its return or at an exception.
* `WF(Continue(t))`, `WF(Serve(t))` of `ReconnectModal`: the event loop runs what awaits a settled
  promise, and a call to the server ends, at the latest with an exception. That the server can be
  reached again and that the user leaves the page and comes back are no fairness: they are premises
  that `RecoversUnattended` names.
* `EndpointConventions` has none: it makes no promise that needs it.

## 4. Proofs

Nothing is assumed but the named assumptions on the constants (`ContractAssumption`,
`EnvironmentAssumption`, `HostAssumption`, `OperationAssumption`, `StatusAssumption`, `HierarchyAssumption`,
`DeclarationAssumption`, `AttributeAssumption`).

**ClientCallProofs** proves `Spec => []Inv` for any contract, any set of calls, uploads and
answers and any host. The properties are not inductive: that a response is owned at the end
depends on what `pc` says of it in the middle. `Inv` therefore says, of each call, what its
resources and its answer are at each `pc` and what outcome a settled call may have, and, of the
shared options, which history they imply: they were locked from the beginning, or by a call that
is recorded as having used them. From it follow `TypesAreKept`, `ResponsesAreOwned` (the one path without an
owner, the opening of a file's stream, is named in the property, and `DownloadsAreOwned` exhibits it), `UploadsAreFollowed`,
`OutcomesAgree`, `RefusalsPrecedeSending`, `CancellationsHaveAuthors`, `BufferedFailuresAreReported` (for any bound, with what
a negative one does), `AssignmentRacesNeedAnotherCall`, `MetadataFailuresAreTheHosts` and, as an action property,
`OptionsDoSettle`. `CallsGetDone` gives a call a measure (`Left`): the steps ahead of it, thirteen at most and one for each upload.
The places `check`, `assign` and `type` are passed twice, before the request is sent and after an answer, so it
takes `Inv` to know which time it is; a step of one call changes no other's.

**ClientCallRefinement** proves `CallsImplementContract`: the phase, exchange, verdict and holding
of each call map to `CallContract`, and each action, under `Inv`, to one of its steps or to a
stutter. What a download that cannot be opened leaves behind is in the contract as it is in the code.

**ServerEndpointProofs** proves the invariant that ties executed, result, fault, status and body
together at each `pc`, for any operations, statuses and any number of requests, and from it the
safety properties of `ServerEndpoint_handlers` and `ResponsesAreFinal`. `HandlersGetDone` is the same for a
request, with eleven steps. `DeclaredStatusesAreWritten` is what is true beside the finding on
declared statuses: a success that begins has the status its operation declares or its default, for every kind
of result but bytes, whose status is 200, and files, whose status is 200 or 206. It takes one more invariant (`StatusIsDeclared`), because a
response that broke keeps the status it began with.

**RemoteCallProofs** composes the two ends, for any contract and any number of calls. It takes
`ClientCallProofs` and `ServerEndpointProofs` as they are, instantiated with the constants of
`RemoteCall`, whose assumptions imply theirs (`ClientContract`, `ClientEnvironment`,
`ServerOperations`). `JoinInv` adds to their invariants what ties them: a request is at the endpoint exactly
if it arrived, it was sent if it is anywhere, and what the proxy received is what the handler wrote, or the
beginning of a file. For that a started response must keep its status, hence be a success from
then on (`Written`), and every status must be one the proxy was analysed with (`StatusKnown`). Of each
step of a handler only `ServerMove` is used, of each step of a proxy only its footprint. From `JoinInv` follow
`RefusedLeavesNoTrace`, `NothingIsLeftOpen`, `ErrorsKeepTheirMeaning`,
and both refinements: `ImplementsClient`, because what can be received is an answer of the contract
(`AnswersAreOfTheContract`), and `ImplementsInvocation`, because what was told bounds what has
happened and what still can (`ToldBounds`). The measures of the ends add up: `InvocationsGetDone` bounds a
call, over both ends and the network, by 24 steps and one for each upload. Whichever end steps leaves the other's measure alone.

**ContractParseProofs** proves `SourcesAreTheHierarchy` and `MostSpecificVerbsWin` for any set of
interfaces, however they are named and inherit each other. Of C# it assumes what `IsHierarchy` says:
`AllInterfaces` is what the bases inherit and the bases themselves, it is transitive, and it has no
cycle. The walk keeps no record of inheritance, so `WalkInv` says what its stack means: it is a path
from the service down, and of each frame's bases every one is left, done, or just above it on the
stack. A base that was visited is therefore done, since one still on the stack would inherit itself;
and an interface is appended when its bases are done, hence all it inherits. From there the order
extends inheritance (`OrderExtendsInheritance`), the last declaration with verbs is overridden by no
other (`LastIsMostSpecific`), and those that are not overridden agree where there was no conflict.

**ContractModelProofs** proves the rest of `ContractParse`: its type invariant,
`ExplicitBindingsAreInherited`, `PoliciesFollowInheritance` and `ModelIsServable`. `ModelInv` says that
the model of a parsed method is what its declarations amount to once the walk is over; the symbols and
the order no longer change then (`ParsingIsSettled`), so each property is one about the end. That
the last declaration that sets something is the answer rests on the order again: what
inherits all others that set it comes last (`LastIsSovereign`), and of the attributes along the path the
latest is the nearest one (`LatestIsNearest`), be it of all or of those with a valid name. Of what adds up
(custom policies, authorizations with their policy or roles) the levels lose nothing
(`LevelsLoseNothing`), and therefore an interface makes an operation anonymous exactly where no declaration of its
method demands anything (`DeclaredAddUp`). That an operation has at most one body
comes from the count the parser makes (`OneBodyAtMost`). `ParsersGetDone` gives the parser a measure: the phases
ahead, the methods not parsed, the interfaces not returned from and the bases not looked at. None of
these sets ever grows and each step shrinks one (`EveryStepShrinks`), because an interface
is on the stack once at most (`ActiveOnce`), by whatever ways it is inherited, so for finite sets the measure is a natural number
that every step lowers. That it lowers, and so that no walk repeats itself, is the safety half of
`ParsingEnds`; that an unfinished parser always has a step is the other. Of Roslyn this assumes that attributes and verbs come in
lists and that a parameter has one binding.

**EndpointConventionsProofs** proves `FailedMappingsAreProtected` for any contract, any
registrations and any conventions of the host. Whether an endpoint is mapped says nothing of
what it has; `PolicyInv` does: from `step = "custom"` on its list starts with its dedicated policies,
and before that it is empty, while `PhaseInv` rules out an exception in between. That later conventions
leave the beginning of a list alone needs only that they are appended.
An operation whose route is refused has no endpoint and has been given nothing, and neither has any after it.
It proves `ConventionsFollowTheirScopes` too, for any number of conventions. `ScopeInv` says what an
endpoint has at each moment: the mapper's part, with what is still to be applied, is what the
contract promises (`Promised`, and `PromisedFinally` of what its custom policies add for the end), and everything after it, on the endpoint or on its group, is what the
host has asked for so far (`Asked`), in the order it asked; and that the registry is filed as far as the mapper has come. `Asked`
selects from the calls of the host, a recursion over a list of any length, so the proof needs an
induction. The library's induction theorems take an operator, which no prover here can instantiate;
`NumbersByInduction` states induction for a *set* of numbers instead, from the well-foundedness of `<`,
and `SelectedGrows` (one more call selects one more convention or none) follows from it.

**ReconnectModalProofs** proves the type invariant, `FailuresAreWatched`, `WaysOutAreOffered`,
`StaleListenersNeedOverlap` and `ReloadsNeedOverlap` for any number of activations. The last two
speak of histories without overlap; `Alone` says what such a history guarantees at each moment:
there is one activation at most, it was started in the state it is meant for, and nothing has
changed that state under it.

Only model-checked are the liveness properties: their proof needs `ENABLED`. For calls, requests and the
parser the measures above are as much of it as can be proved: none can go on for ever. That a step is possible
until the end, and taken, stays with `BufferedCallsSettle`, `CancelledCallsSettle`,
`EndedCallsAreAnswered` and `ParsingEnds`.
The findings are counterexamples and need no proof.

## 5. What is not modelled

* How values are formatted, encoded and parsed on the way. `RemoteCall` assumes what the invariant
  culture on both ends gives: what was formatted can be parsed. What goes wrong here (a nullable
  scalar taken for a query object, a null header sent as an empty one, an empty route segment that
  is collapsed) goes wrong in one definition each, without any interleaving, and depends on
  the text of values and routes, which the other modules do without.
* Registration of clients and services: the choice of an `HttpClient`, which has one step.
* The race of two requests for the *server's* JSON options (`RemoteServiceServerRuntime.cs:110`):
  ASP.NET Core configures a resolver before the first request, so the code that writes one is not
  reached in a host of the documented kind.
* The argument checks of the typed convention helpers, and a second call of `MapRemoteServices`,
  which maps all endpoints again. Conventions that a host adds once the endpoints were built, which ASP.NET Core
  ignores or refuses. The conventions of the metadata emitter (`ServerEmitter.cs:264` on: names, `Produces`,
  hosts, antiforgery), which come before the policies on every endpoint and none of which throws.
  Where a custom policy's callback throws between two additions of its own, the model has the additions of
  a whole callback or none. The order in which an endpoint's conventions take effect (`Effective`) is
  ASP.NET Core's and external.
* An interface that declares one name several times. Overloads of a name that differ in the number of their type
  parameters are different groups for the parser (`ContractParser.cs:362`), and
  `ContractParse` has one declaration of each name in an interface (`DeclarationAssumption`).
* `CodeBuilder`: text appended to a single-threaded builder, whose scopes every use of a generator
  opens and closes.
* The generators' drivers, naming and metadata; of the emitters, the output is what is modelled.
  Discovery of the contracts in a compilation, the names that binding attributes give and the text
  of routes are outside `ContractParse`.
* Redirects, handlers and retry policies an application adds to the `HttpClient`; middleware in
  front of the endpoints.
* `HttpClient`, `JsonSerializerOptions` and the ASP.NET results are outside the repository and
  modelled from how the emitted code uses them; `PROJECT.json` marks such definitions external.

## 6. Where the code and its documentation disagree

Each is a run whose counterexample is the disagreement.

1. `ClientCall_download`: a response leaks when the stream of a downloaded file cannot be opened; nothing
   between `SendAsync` and the `RemoteFile` disposes it (`ClientEmitter.cs:501`, against
   `Ling.RemoteServices.Client/README.md:94`).
2. `ClientCall_leave_open`: the stream of an upload created with `leaveOpen` is closed by the
   request's disposal (`ClientEmitter.cs:337`, against `RemoteUploadFile.cs:15`).
3. `ClientCall_streamed_problem`: a file call answered with unusable Problem Details ends in a
   `RemoteTransportException`, because its content is read twice (`RemoteServiceClientRuntime.cs:176`).
4. `ClientCall_resolver_race`: two first calls at once, and one of them fails with a
   `RemoteTransportException` though nothing was wrong (`RemoteServiceClientRuntime.cs:120`).
5. `ServerEndpoint_file_owner`: the owner of a returned `RemoteFile` is never disposed
   (`ServerEmitter.cs:786`).
6. `ServerEndpoint_status`: a byte or file result ignores the declared success status
   (`ServerEmitter.cs:826`).

Seen while modelling, without a run of their own: `HttpClient.Timeout` surfaces as an
`OperationCanceledException` (`ClientEmitter.cs:605`), which the client's README (lines 92 and 93) keeps for the
caller's token; a policy registered twice is an error only when the first custom policy is
looked up, with endpoints mapped before it (`OptionsFail`); a retry whose failure arrives after another one
connected the page leaves a listener behind, which retries on a connected page (`StaleListenerNeedsOverlap`
says that it takes an overlap), and one of two resumes may reload a page that works
(`ReloadNeedsOverlap`); unrelated base interfaces that agree on a
method's verbs and disagree on its bindings or parameter names are no conflict for the parser, and
the one whose name comes last wins (`ContractParser.cs:448`); a user who closes the reconnect dialog of a paused
page with Escape has no Resume button until the page is reloaded (`Dismiss`); a null route value, an
argument error, surfaces as a `RemoteTransportException`;
a `RemoteServiceException` thrown while the response is being written cannot become Problem Details
(`ProblemFails`), though the AspNetCore README (line 133) maps them without exception; and the parser accepts 204
and 205 for a JSON result (`ContractParser.cs:304`), which the endpoint then cannot write.

## 7. State of the plan

Done: `ClientCall`, `CallContract`, their proofs and the refinement; `ServerEndpoint` and its proofs;
`EndpointConventions` and `ReconnectModal` with theirs; `RemoteCall` and its proofs;
`ContractParse` and its proofs, the walk, the verbs, the bindings, the policies and the acceptance;
`EndpointPolicy` modelled and checked.

Open, in the order of what they would add:

1. A value from the proxy's formatting to the endpoint's binding, by both handlers.
2. `EndpointPolicy` and `EndpointConventions` composed: from the attributes to the endpoint.
