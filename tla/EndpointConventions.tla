------------------------- MODULE EndpointConventions -------------------------
(***************************************************************************)
(* MapRemoteServices at the start of a host: the generated mappers map one *)
(* endpoint after the other and lay the contract's policies on each; then  *)
(* the host's callback adds conventions through a registry whose builders  *)
(* stand for all services, one service, one method or one HTTP operation;  *)
(* and it may add more through the registry returned. All of it runs on    *)
(* one thread. What can go wrong is an exception between two steps, and    *)
(* the order in which an endpoint's conventions take effect.               *)
(***************************************************************************)
EXTENDS Naturals, Sequences

CONSTANTS
    Names,         \* of services, methods, verbs and policies
    Contract,      \* the operations of all services, in the order they are mapped
    Registrations, \* what hosts give AddEndpointPolicy, call by call
    MaxCalls,      \* bounds the conventions a host adds
    Any            \* no name; in a scope: whichever service, method or verb

\* The endpoints, known by their place in the contract.
Endpoints == DOMAIN Contract
Services == {Contract[e].service : e \in Endpoints}
Scopes == [service : Services \cup {Any},
           method : {Contract[e].method : e \in Endpoints} \cup {Any},
           verb : {Contract[e].verb : e \in Endpoints} \cup {Any}]

EndpointPolicies ==
    [authorization : Seq(Names), roles : Seq(Names), anonymous : BOOLEAN,
     single : Seq(Names), custom : Seq(Names), milliseconds : BOOLEAN]

HttpOperations ==
    [service : Names, method : Names, verb : Names, policies : EndpointPolicies]

ASSUME ContractAssumption ==
    /\ Contract \in Seq(HttpOperations)
    /\ Registrations \subseteq Seq(Names)
    /\ MaxCalls \in Nat
    /\ Any \notin Names

VARIABLES
    phase,      \* of MapRemoteServices: "mapping", "configuring", "returned", "threw"
    next,       \* the operation whose endpoint is being mapped
    step,       \* where its mapping is: "map", "policies", "custom"
    pending,    \* the custom policies not applied yet
    registered, \* RemoteServiceOptions.endpointPolicies, as the host filled them in
    group,      \* the conventions of each service's route group
    own,        \* those of each endpoint
    operations, \* the endpoints that the builders of services and methods hold
    services,   \* the services in the registry
    host        \* history: the conventions the host added, with their scopes

mapper == <<next, step, pending, operations, services>>
conventions == <<group, own>>
vars == <<phase, mapper, registered, conventions, host>>

\* The lists of an ASP.NET builder: Add, and Finally.
Empty == [add |-> <<>>, final |-> <<>>]

Init ==
    /\ phase = "mapping" /\ next = 1 /\ step = "map" /\ pending = <<>>
    /\ registered \in Registrations
    /\ group = [s \in Services |-> Empty]
    /\ own = [e \in Endpoints |-> Empty]
    /\ operations = {} /\ services = {}
    /\ host = <<>>

-----------------------------------------------------------------------------
(* The contract's policies, as they are laid on an endpoint.                *)

Convention(kind, name) == [kind |-> kind, name |-> name]
Each(kind, names) == [i \in DOMAIN names |-> Convention(kind, names[i])]
When(condition, kind) == IF condition THEN <<Convention(kind, Any)>> ELSE <<>>

\* Authorization, roles and anonymity, then what an endpoint has one of: CORS, output
\* cache, rate limit, a named timeout.
Dedicated(e) ==
    LET p == Contract[e].policies IN
        Each("authorization", p.authorization) \o Each("roles", p.roles)
            \o When(p.anonymous, "anonymous") \o Each("single", p.single)
Custom(e) == Contract[e].policies.custom
Timeout(e) == When(Contract[e].policies.milliseconds, "timeout")

NamesIn(s) == {s[i] : i \in DOMAIN s}
Registered(name) == name \in NamesIn(registered)
\* The options' callbacks run when the options are first asked for, and throw at the
\* second registration of a name.
OptionsFail == \E i, j \in DOMAIN registered : i # j /\ registered[i] = registered[j]

AddOwn(list) == own' = [own EXCEPT ![next].add = @ \o list]
Throws ==
    /\ phase' = "threw"
    /\ UNCHANGED <<mapper, registered, conventions, host>>

-----------------------------------------------------------------------------
(* A mistake that the properties below would catch. *)

\* The names are looked up before anything is applied.
ApplyDedicated_LookingUpFirst ==
    /\ phase = "mapping" /\ step = "policies"
    /\ \/ /\ \E name \in NamesIn(Custom(next)) : ~Registered(name)
          /\ Throws
       \/ /\ \A name \in NamesIn(Custom(next)) : Registered(name)
          /\ AddOwn(Dedicated(next))
          /\ pending' = Custom(next) /\ step' = "custom"
          /\ UNCHANGED <<phase, next, operations, services, registered, group, host>>

-----------------------------------------------------------------------------
(* A generated mapper, operation by operation. *)

MapMethods ==
    /\ phase = "mapping" /\ step = "map" /\ next \in Endpoints
    /\ step' = "policies"
    /\ UNCHANGED <<phase, next, pending, operations, services, registered, conventions, host>>

\* A route that ValidateRoute lets through and ASP.NET Core does not, such as {1a}.
MapMethodsFails ==
    /\ phase = "mapping" /\ step = "map" /\ next \in Endpoints
    /\ Throws

\* Apply, up to the custom policies.
ApplyDedicated ==
    /\ phase = "mapping" /\ step = "policies"
    /\ AddOwn(Dedicated(next))
    /\ pending' = Custom(next) /\ step' = "custom"
    /\ UNCHANGED <<phase, next, operations, services, registered, group, host>>

\* A policy's callback adds to either list, one convention here to each; it may throw
\* when it has.
ApplyCustom ==
    /\ phase = "mapping" /\ step = "custom" /\ pending # <<>>
    /\ ~OptionsFail /\ Registered(Head(pending))
    /\ LET added == Convention("custom", Head(pending)) IN
         own' = [own EXCEPT ![next] = [add |-> Append(@.add, added),
                                       final |-> Append(@.final, added)]]
    /\ pending' = Tail(pending)
    /\ phase' \in {"mapping", "threw"}
    /\ UNCHANGED <<next, step, operations, services, registered, group, host>>

\* The options cannot be made, the name is not in them, or its callback throws at once.
CustomPolicyFails ==
    /\ phase = "mapping" /\ step = "custom" /\ pending # <<>>
    /\ Throws

\* The timeout in milliseconds comes after the custom policies. The builders are
\* then filed: by verb, by method name, and with the last operation by service.
FinishOperation ==
    /\ phase = "mapping" /\ step = "custom" /\ pending = <<>>
    /\ AddOwn(Timeout(next))
    /\ operations' = operations \cup {next}
    /\ services' = IF \E e \in Endpoints : e > next /\ Contract[e].service = Contract[next].service
                   THEN services ELSE services \cup {Contract[next].service}
    /\ next' = next + 1 /\ step' = "map"
    /\ UNCHANGED <<phase, pending, registered, group, host>>

Configure ==
    /\ phase = "mapping" /\ next \notin Endpoints
    /\ phase' = "configuring"
    /\ UNCHANGED <<mapper, registered, conventions, host>>

Return ==
    /\ phase = "configuring"
    /\ phase' = "returned"
    /\ UNCHANGED <<mapper, registered, conventions, host>>

-----------------------------------------------------------------------------
(* The host's conventions. A scope names a service, a method and a verb, or *)
(* leaves them open from the right.                                         *)

Broad(scope) == scope.method = Any /\ scope.verb = Any
Narrow(scope) == scope.service # Any /\ scope.method # Any

\* The endpoints that the builder of a method or of an operation holds.
Held(scope) ==
    {e \in operations : /\ Contract[e].service = scope.service
                        /\ Contract[e].method = scope.method
                        /\ scope.verb \in {Any, Contract[e].verb}}

\* For, Operation and HttpMethod find a builder; the registry is at hand.
Found(scope) ==
    /\ scope.service \in services \cup {Any}
    /\ Narrow(scope) => Held(scope) # {}

Added(lists, holders, list, convention) ==
    [x \in DOMAIN lists |-> IF x \in holders
                            THEN [lists[x] EXCEPT ![list] = Append(@, convention)]
                            ELSE lists[x]]

\* A mistake: the registry and the services add to their endpoints one by one.
Add_ToEndpoints(scope, list) ==
    /\ phase \in {"configuring", "returned"}
    /\ Len(host) < MaxCalls
    /\ Found(scope)
    /\ LET added == [kind |-> "host", scope |-> scope, list |-> list, call |-> Len(host)]
           below == {e \in operations : scope.service \in {Any, Contract[e].service}} IN
         /\ host' = Append(host, added)
         /\ \/ Broad(scope) /\ own' = Added(own, below, list, added)
            \/ Narrow(scope) /\ own' = Added(own, Held(scope), list, added)
    /\ UNCHANGED <<phase, mapper, registered, group>>

\* The registry adds to every service, a service to its group, and the builders
\* below to the endpoints they hold.
Add(scope, list) ==
    /\ phase \in {"configuring", "returned"}
    /\ Len(host) < MaxCalls
    /\ Found(scope)
    /\ LET added == [kind |-> "host", scope |-> scope, list |-> list, call |-> Len(host)] IN
         /\ host' = Append(host, added)
         /\ \/ /\ Broad(scope)
               /\ group' = Added(group, IF scope.service = Any THEN services ELSE {scope.service},
                                 list, added)
               /\ UNCHANGED own
            \/ /\ Narrow(scope)
               /\ own' = Added(own, Held(scope), list, added)
               /\ UNCHANGED group
    /\ UNCHANGED <<phase, mapper, registered>>

\* A lookup that fails inside the callback leaves MapRemoteServices.
LookupFails(scope) ==
    /\ phase = "configuring"
    /\ Broad(scope) \/ Narrow(scope)
    /\ ~Found(scope)
    /\ Throws

Next ==
    \/ MapMethods \/ MapMethodsFails \/ ApplyDedicated \/ ApplyCustom \/ CustomPolicyFails
    \/ FinishOperation \/ Configure \/ Return
    \/ \E scope \in Scopes :
          LookupFails(scope) \/ \E list \in {"add", "final"} : Add(scope, list)

Spec == Init /\ [][Next]_vars

-----------------------------------------------------------------------------
(* What ASP.NET Core makes of them: a group's conventions run before those  *)
(* of an endpoint in it, and its final ones after; of metadata an endpoint  *)
(* has one of, the last is in force.                                        *)

Effective(e) ==
    group[Contract[e].service].add \o own[e].add
        \o own[e].final \o group[Contract[e].service].final

-----------------------------------------------------------------------------
(* Properties.                                                              *)

Covers(scope, e) ==
    /\ scope.service \in {Any, Contract[e].service}
    /\ scope.method \in {Any, Contract[e].method}
    /\ scope.verb \in {Any, Contract[e].verb}

\* The elements of a sequence at the places given, in their order.
Selected(s, places) ==
    LET chosen[n \in 0..Len(s)] ==
            IF n = 0 THEN <<>>
            ELSE IF n \in places THEN Append(chosen[n - 1], s[n]) ELSE chosen[n - 1]
    IN chosen[Len(s)]

\* What the host asked for e, broadly or narrowly, in the order it did.
IsAsked(h, e, broad, list) ==
    Covers(h.scope, e) /\ Broad(h.scope) = broad /\ h.list = list
Asked(e, broad, list) ==
    Selected(host, {n \in DOMAIN host : IsAsked(host[n], e, broad, list)})

Promised(e) == Dedicated(e) \o Each("custom", Custom(e)) \o Timeout(e)
PromisedFinally(e) == Each("custom", Custom(e))

\* Every endpoint has the conventions of the scopes that cover it, each once and no
\* other, whenever they were added. Which is in force does not depend on the order of
\* the calls alone: what is asked of all services or of one yields to the contract's
\* own policies, and these to what is asked of a method or of an operation; final
\* conventions reverse that.
ConventionsFollowScopes ==
    phase \in {"configuring", "returned"} =>
        \A e \in Endpoints :
            Effective(e) = Asked(e, TRUE, "add") \o Promised(e) \o Asked(e, FALSE, "add")
                               \o PromisedFinally(e) \o Asked(e, FALSE, "final")
                               \o Asked(e, TRUE, "final")

Mapped(e) == e < next \/ (e = next /\ step # "map")
StartsWith(s, t) == Len(t) <= Len(s) /\ \A i \in DOMAIN t : s[i] = t[i]

\* A mapping that fails leaves endpoints behind in the host's routes. None of them is
\* without the authorization and the other dedicated policies of its contract: what
\* fails is a route, which leaves no endpoint, a custom policy, which comes after the
\* dedicated ones and may leave more behind, or the host's own callback.
FailedMappingIsProtected ==
    phase = "threw" =>
        /\ \A e \in Endpoints : Mapped(e) => StartsWith(own[e].add, Dedicated(e))
        /\ \A e \in Endpoints : ~Mapped(e) => own[e] = Empty
        /\ next \in Endpoints => host = <<>> /\ (step = "map" \/ Custom(next) # <<>>)
=============================================================================
