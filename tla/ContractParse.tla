--------------------------- MODULE ContractParse ---------------------------
(***************************************************************************)
(* ContractParser: from an interface with [RemoteService] to the model     *)
(* that every generator emits from, or to nothing.                         *)
(*                                                                         *)
(* The parser walks the interfaces that the service inherits, bases first, *)
(* takes the declarations of a method in that order, and lets the last one *)
(* win. Roslyn's symbols are the contract, fixed from the start. Methods   *)
(* are parsed in any order: it shows only in the order of the output.      *)
(***************************************************************************)
EXTENDS EndpointPolicy, FiniteSets

CONSTANTS
    Interfaces,    \* the interfaces, as the places of their names in ordinal order
    Service,       \* the one with [RemoteService]
    Methods,       \* method names
    Contracts,     \* the contracts that may be declared
    NoDeclaration  \* of a method by an interface

Verbs == {"GET", "POST", "PUT", "PATCH", "DELETE"}
Kinds == {"Path", "Query", "Header", "Body", "Form", "Cancellation"}

\* A contract's inheritance: bases are INamedTypeSymbol.Interfaces, all are
\* AllInterfaces, which is transitive, and which C# keeps free of cycles.
IsHierarchy(c) ==
    /\ c.bases \in [Interfaces -> SUBSET Interfaces]
    /\ c.all \in [Interfaces -> SUBSET Interfaces]
    /\ \A i \in Interfaces :
         /\ i \notin c.all[i]
         /\ c.all[i] = c.bases[i] \cup UNION {c.all[b] : b \in c.bases[i]}
         /\ \A j \in c.all[i] : c.all[j] \subseteq c.all[i]

ASSUME HierarchyAssumption ==
    /\ Interfaces \subseteq Nat
    /\ Service \in Interfaces
    /\ \A c \in Contracts : IsHierarchy(c)

IsList(s) == Len(s) \in Nat /\ DOMAIN s = 1..Len(s)

\* The attributes of a declaration, if there is one.
AttributesOn(declaration) ==
    IF declaration = NoDeclaration THEN <<>> ELSE declaration.attributes

\* What an interface declares of a method. The signature has the types and reference
\* kinds of the parameters and the result, which make an overload when they differ;
\* names, attributes and type parameters do not. An interface is taken to declare a
\* name once: two methods of one interface that differ in their type parameters alone,
\* which are no overload to GetMethodSignature, are left out. A verb attribute is "written" one way
\* of several that give one "route", which begins with the service's.
ASSUME DeclarationAssumption ==
    \A c \in Contracts : \A i \in Interfaces, m \in Methods :
        LET d == c.declares[i][m] IN
        d # NoDeclaration =>
            /\ d.names \in Seq(STRING)
            /\ Len(d.names) = Len(d.signature.types)
            /\ Len(d.bindings) = Len(d.signature.types)
            /\ \A p \in DOMAIN d.bindings : d.bindings[p] \in {"none"} \cup Kinds
            /\ IsList(d.verbs)
            /\ \A k \in DOMAIN d.verbs : d.verbs[k].verb \in Verbs

\* Attributes come in sequences, and a policy that is not set is named by none of them.
ASSUME AttributeAssumption ==
    \A c \in Contracts : \A i \in Interfaces, m \in Methods :
        \A attributes \in {c.attributes[i], AttributesOn(c.declares[i][m])} :
            /\ IsList(attributes)
            /\ \A a \in DOMAIN attributes : attributes[a].name # "none"

VARIABLES
    contract, \* the symbols
    pc,
    stack,    \* the active calls of Visit: an interface and the bases left to visit
    visited,
    sources,  \* configurationSources
    todo,     \* the method groups not parsed yet
    invalid,  \* hasInvalidMethod
    model     \* the models of the methods parsed, method by method

vars == <<contract, pc, stack, visited, sources, todo, invalid, model>>

Init ==
    /\ contract \in Contracts
    /\ pc = "start"
    /\ stack = <<>>
    /\ visited = {}
    /\ sources = <<>>
    /\ todo = {}
    /\ invalid = FALSE
    /\ model = [m \in {} |-> <<>>]

-----------------------------------------------------------------------------
(* GetInterfaceHierarchy.                                                   *)

\* A service that is not public, or is generic.
Refuse ==
    /\ pc = "start"
    /\ ~contract.public
    /\ pc' = "rejected"
    /\ UNCHANGED <<contract, stack, visited, sources, todo, invalid, model>>

Frame(i) == [at |-> i, left |-> contract.bases[i]]
Top == stack[Len(stack)]

StartWalk ==
    /\ pc = "start"
    /\ contract.public
    /\ pc' = "walk"
    /\ stack' = <<Frame(Service)>>
    /\ visited' = {Service}
    /\ UNCHANGED <<contract, sources, todo, invalid, model>>

\* A mistake: an interface that two others inherit is visited twice.
Descend_Revisiting ==
    /\ pc = "walk" /\ stack # <<>>
    /\ \E b \in Top.left :
         /\ \A other \in Top.left : b <= other
         /\ stack' = Append([stack EXCEPT ![Len(stack)].left = @ \ {b}], Frame(b))
         /\ visited' = visited \cup {b}
    /\ UNCHANGED <<contract, pc, sources, todo, invalid, model>>

\* Bases are visited in the order of their names.
Descend ==
    /\ pc = "walk" /\ stack # <<>>
    /\ \E b \in Top.left :
         /\ \A other \in Top.left : b <= other
         /\ LET rest == [stack EXCEPT ![Len(stack)].left = @ \ {b}] IN
            stack' = IF b \in visited THEN rest ELSE Append(rest, Frame(b))
         /\ visited' = visited \cup {b}
    /\ UNCHANGED <<contract, pc, sources, todo, invalid, model>>

Return ==
    /\ pc = "walk" /\ stack # <<>>
    /\ Top.left = {}
    /\ sources' = IF Top.at = Service THEN sources ELSE Append(sources, Top.at)
    /\ stack' = SubSeq(stack, 1, Len(stack) - 1)
    /\ UNCHANGED <<contract, pc, visited, todo, invalid, model>>

-----------------------------------------------------------------------------
(* The declarations of a method, by their place in the hierarchy.           *)

Order == Append(sources, Service)
Declaration(k, m) == contract.declares[Order[k]][m]
DeclaredAt(m) == {k \in DOMAIN Order : Declaration(k, m) # NoDeclaration}
VerbsAt(m) == {k \in DeclaredAt(m) : Declaration(k, m).verbs # <<>>}
BoundAt(m, p) == {k \in DeclaredAt(m) : Declaration(k, m).bindings[p] # "none"}
NamedAt(m) == {k \in DeclaredAt(m) : Declaration(k, m).endpointName # "none"}

Last(K) == CHOOSE k \in K : \A j \in K : j <= k

\* declarations[^1]: the symbol whose parameters are emitted.
Method(m) == Declaration(Last(DeclaredAt(m)), m)

\* A mistake: the base interfaces' verbs are taken first.
VerbAttributes_First(m) ==
    IF VerbsAt(m) = {} THEN <<>>
    ELSE Declaration(CHOOSE k \in VerbsAt(m) : \A j \in VerbsAt(m) : k <= j, m).verbs

VerbAttributes(m) == IF VerbsAt(m) = {} THEN <<>> ELSE Declaration(Last(VerbsAt(m)), m).verbs

Overridden(k, K) == \E j \in K : Order[k] \in contract.all[Order[j]]
MostSpecific(K) == {k \in K : ~Overridden(k, K)}

\* ValidateInheritedOperationDeclarations: declarations that do not override each
\* other have to say the same.
Conflicting(m) ==
    \E j, k \in MostSpecific(VerbsAt(m)) : Declaration(j, m).verbs # Declaration(k, m).verbs

Overloaded(m) ==
    \E j, k \in DeclaredAt(m) : Declaration(j, m).signature # Declaration(k, m).signature

\* A mistake: every declaration is a method of its own.
GroupMethods_Ungrouped ==
    /\ pc = "walk" /\ stack = <<>>
    /\ \A m \in Methods : ~Overloaded(m)
    /\ pc' = "methods"
    /\ todo' = UNION {{m} \X DeclaredAt(m) : m \in Methods}
    /\ UNCHANGED <<contract, stack, visited, sources, invalid, model>>

GroupMethods ==
    /\ pc = "walk" /\ stack = <<>>
    /\ \A m \in Methods : ~Overloaded(m)
    /\ pc' = "methods"
    /\ todo' = {m \in Methods : DeclaredAt(m) # {}}
    /\ UNCHANGED <<contract, stack, visited, sources, invalid, model>>

RejectOverload ==
    /\ pc = "walk" /\ stack = <<>>
    /\ \E m \in Methods : Overloaded(m)
    /\ pc' = "rejected"
    /\ UNCHANGED <<contract, stack, visited, sources, todo, invalid, model>>

-----------------------------------------------------------------------------
(* ParseMethod, ParseOperation, ParseParameter.                             *)

Parameters(m) == DOMAIN Method(m).names

\* A mistake: only the declaration whose parameters are emitted is asked.
Binding_Own(m, p) == Method(m).bindings[p]

\* The method's own binding attribute, else the nearest inherited one.
Binding(m, p) ==
    IF BoundAt(m, p) = {} THEN "none" ELSE Declaration(Last(BoundAt(m, p)), m).bindings[p]

InferredKind(m, p, attribute) ==
    IF Method(m).names[p] \in attribute.tokens THEN "Path"
    ELSE IF /\ attribute.verb \in {"POST", "PUT", "PATCH"}
            /\ Method(m).signature.types[p] # "scalar"
    THEN "Body" ELSE "Query"

BindKind(m, p, attribute) ==
    IF Method(m).signature.types[p] = "cancellation" THEN "Cancellation"
    ELSE IF Binding(m, p) # "none" THEN Binding(m, p)
    ELSE InferredKind(m, p, attribute)

ServiceLevel == [k \in DOMAIN Order |-> contract.attributes[Order[k]]]
MethodLevel(m) ==
    [k \in DOMAIN Order |-> AttributesOn(Declaration(k, m))]

Operation(m, attribute) ==
    [verb |-> attribute.verb,
     route |-> attribute.route,
     isDefault |-> attribute.isDefault,
     kinds |-> [p \in Parameters(m) |-> BindKind(m, p, attribute)],
     policies |-> ParseEffective(ServiceLevel, MethodLevel(m), attribute.verb)]

Operations(m) == [k \in DOMAIN VerbAttributes(m) |-> Operation(m, VerbAttributes(m)[k])]

Bodies(m, attribute) == {p \in Parameters(m) : BindKind(m, p, attribute) = "Body"}

\* A route the library supports and a success status from 200 to 299 are an
\* attribute's "valid".
IsValid(m, attribute) ==
    /\ attribute.valid
    /\ Cardinality(Bodies(m, attribute)) <= IF attribute.verb = "GET" THEN 0 ELSE 1

EndpointName(m) ==
    IF NamedAt(m) = {} THEN "none" ELSE Declaration(Last(NamedAt(m)), m).endpointName

\* A supported signature returns a task and takes nothing by reference. One operation
\* of several is the default, and an endpoint name is for one alone.
Parses(m) ==
    LET attributes == VerbAttributes(m)
        defaults == {k \in DOMAIN attributes : attributes[k].isDefault} IN
    /\ attributes # <<>>
    /\ Method(m).signature.supported /\ ~Method(m).generic
    /\ Cardinality(defaults) <= 1
    /\ Len(attributes) > 1 => defaults # {}
    /\ \A k \in DOMAIN attributes : IsValid(m, attributes[k])
    /\ EndpointName(m) # "none" => Len(attributes) = 1 /\ EndpointName(m) # "blank"

Parsing(m) == [operations |-> Operations(m), name |-> EndpointName(m)]

ParseMethod(m) ==
    /\ pc = "methods" /\ m \in todo
    /\ ~Conflicting(m) /\ Parses(m)
    /\ model' = [n \in DOMAIN model \cup {m} |-> IF n = m THEN Parsing(m) ELSE model[n]]
    /\ todo' = todo \ {m}
    /\ UNCHANGED <<contract, pc, stack, visited, sources, invalid>>

\* A mistake: the method is not done with.
SkipMethod_Again(m) ==
    /\ pc = "methods" /\ m \in todo
    /\ Conflicting(m) \/ ~Parses(m)
    /\ invalid' = TRUE
    /\ UNCHANGED <<contract, pc, stack, visited, sources, todo, model>>

\* The parser goes on, for the diagnostics of the other methods.
SkipMethod(m) ==
    /\ pc = "methods" /\ m \in todo
    /\ Conflicting(m) \/ ~Parses(m)
    /\ invalid' = TRUE
    /\ todo' = todo \ {m}
    /\ UNCHANGED <<contract, pc, stack, visited, sources, model>>

-----------------------------------------------------------------------------
(* The service as a whole.                                                  *)

Parsed == DOMAIN model
ParsedOperations == UNION {{m} \X DOMAIN model[m].operations : m \in Parsed}
OperationAt(x) == model[x[1]].operations[x[2]]

\* A mistake: only operations of one method are compared.
DuplicateOperations_Within ==
    \E x, y \in ParsedOperations :
        /\ x # y /\ x[1] = y[1]
        /\ OperationAt(x).verb = OperationAt(y).verb
        /\ OperationAt(x).route = OperationAt(y).route

DuplicateOperations ==
    \E x, y \in ParsedOperations :
        /\ x # y
        /\ OperationAt(x).verb = OperationAt(y).verb
        /\ OperationAt(x).route = OperationAt(y).route

DuplicateNames ==
    \E m, n \in Parsed : m # n /\ model[m].name = model[n].name /\ model[m].name # "none"

Accepts == ~invalid /\ ~DuplicateOperations /\ ~DuplicateNames

Accept ==
    /\ pc = "methods" /\ todo = {}
    /\ Accepts
    /\ pc' = "accepted"
    /\ UNCHANGED <<contract, stack, visited, sources, todo, invalid, model>>

Reject ==
    /\ pc = "methods" /\ todo = {}
    /\ ~Accepts
    /\ pc' = "rejected"
    /\ UNCHANGED <<contract, stack, visited, sources, todo, invalid, model>>

-----------------------------------------------------------------------------

Next ==
    \/ Refuse \/ StartWalk \/ Descend \/ Return
    \/ GroupMethods \/ RejectOverload
    \/ \E m \in Methods : ParseMethod(m) \/ SkipMethod(m)
    \/ Accept \/ Reject

Spec == Init /\ [][Next]_vars

\* A parser runs until it returns.
FairSpec == Spec /\ WF_vars(Next)

-----------------------------------------------------------------------------
(* Properties. They speak of the contract alone: of who inherits whom, never *)
(* of the order in which the parser happened to visit it.                   *)

\* Every variable has its type.
TypeOK ==
    /\ IsHierarchy(contract)
    /\ pc \in {"start", "walk", "methods", "accepted", "rejected"}
    /\ \A k \in DOMAIN stack : /\ stack[k].at \in Interfaces
                                /\ stack[k].left \subseteq Interfaces
    /\ visited \subseteq Interfaces
    /\ sources \in Seq(Interfaces)
    /\ todo \subseteq Methods
    /\ invalid \in BOOLEAN
    /\ Parsed \subseteq Methods

Placed(n) == {sources[k] : k \in 1..n}
Hierarchy == contract.all[Service] \cup {Service}

\* An interface comes after everything it inherits, however the hierarchy branches
\* and joins and whatever the names are, and comes once; in the end all have come.
SourcesAreTheHierarchy ==
    /\ \A k \in DOMAIN sources : contract.all[sources[k]] \subseteq Placed(k - 1)
    /\ \A j, k \in DOMAIN sources : sources[j] = sources[k] => j = k
    /\ pc \in {"methods", "accepted"} => Placed(Len(sources)) = contract.all[Service]

\* The interfaces of a set that none of its others inherits.
Sovereign(I) == {i \in I : \A j \in I : i \notin contract.all[j]}

Declares(i, m) == contract.declares[i][m] # NoDeclaration
WithVerbs(m) == {i \in Hierarchy : Declares(i, m) /\ contract.declares[i][m].verbs # <<>>}

\* The operations of a method are those that the most specific interface declares,
\* and of several that do not inherit each other it does not matter which.
MostSpecificVerbsWin ==
    \A m \in Parsed :
        /\ Sovereign(WithVerbs(m)) # {}
        /\ \A i \in Sovereign(WithVerbs(m)) :
             LET verbs == contract.declares[i][m].verbs IN
             /\ DOMAIN model[m].operations = DOMAIN verbs
             /\ \A k \in DOMAIN verbs :
                  /\ model[m].operations[k].verb = verbs[k].verb
                  /\ model[m].operations[k].route = verbs[k].route

WithBinding(m, p) ==
    {i \in Hierarchy : Declares(i, m) /\ contract.declares[i][m].bindings[p] # "none"}

\* A parameter is bound as the most specific interface that says anything of it says,
\* though it be not the one that declares the verb; inference is for those of which
\* nobody does.
ExplicitBindingsAreInherited ==
    \A m \in Parsed : \A k \in DOMAIN model[m].operations :
        LET kinds == model[m].operations[k].kinds IN
        \A p \in DOMAIN kinds :
            IF kinds[p] = "Cancellation" \/ WithBinding(m, p) = {}
            THEN kinds[p] \in {"Cancellation", "Path", "Query", "Body"}
            ELSE \E i \in Sovereign(WithBinding(m, p)) :
                    kinds[p] = contract.declares[i][m].bindings[p]

\* What the declarations of a method say, interface by interface.
OnMethod(m) == [i \in Interfaces |-> AttributesOn(contract.declares[i][m])]

Applying(attributes, kind, verb) ==
    {attributes[a] : a \in {b \in DOMAIN attributes :
        attributes[b].kind = kind /\ attributes[b].selects \in {"any", verb}}}
Named(attributes, kind, verb) == {x.name : x \in Applying(attributes, kind, verb)}

\* The names that the most specific of the interfaces with such an attribute give.
Nearest(A, kind, verb, ignored) ==
    LET I == {i \in Hierarchy : Named(A[i], kind, verb) \ ignored # {}} IN
    UNION {Named(A[i], kind, verb) \ ignored : i \in Sovereign(I)}

\* The method's policy stands, or the service's where the method has none or an
\* invalid one.
Follows(policy, ofMethod, ofService) ==
    \/ policy \in ofMethod \ {"blank"}
    \/ /\ ofMethod = {} \/ "blank" \in ofMethod
       /\ \/ policy \in ofService \ {"blank"}
          \/ policy = "none" /\ (ofService = {} \/ "blank" \in ofService)

FollowsNearest(policy, m, kind, verb, ignored) ==
    Follows(policy, Nearest(OnMethod(m), kind, verb, ignored),
                    Nearest(contract.attributes, kind, verb, ignored))

\* What anybody in the hierarchy asks for: on an interface, or on the method there.
Throughout(A, kind, verb) == UNION {Applying(A[i], kind, verb) : i \in Hierarchy}
Valid(attributes) == {x \in attributes : x.name # "blank"}

\* An authorization asks for its policy, for its roles, or, with neither, for the default.
Demands(policies, authorize) ==
    /\ authorize.name # "omitted" \/ authorize.roles = "blank" =>
          authorize.name \in policies.authorization
    /\ authorize.roles # "blank" => authorize.roles \in policies.roles

\* A policy that replaces is the one that the most specific declaration of the method
\* names, or if there is none, or its name is invalid, the most specific interface; an
\* invalid name takes an output cache back from nobody. Authorizations and custom
\* policies are never replaced, whoever declares them. Anonymous is an operation whose
\* method is declared to be, or one of a service that is unless the method demands an
\* authorization.
PoliciesFollowInheritance ==
    \A m \in Parsed : \A k \in DOMAIN model[m].operations :
        LET policies == model[m].operations[k].policies
            verb == model[m].operations[k].verb
            AnyOf(kind) == Throughout(contract.attributes, kind, verb)
                             \cup Throughout(OnMethod(m), kind, verb) IN
        /\ \A kind \in {"cors", "rateLimit", "timeout"} :
             FollowsNearest(policies[kind], m, kind, verb, {})
        /\ FollowsNearest(policies.cache, m, "cache", verb, {"blank"})
        /\ policies.custom = {x.name : x \in Valid(AnyOf("custom"))}
        /\ \A x \in Valid(AnyOf("authorize")) : Demands(policies, x)
        /\ policies.anonymous <=>
             \/ Throughout(OnMethod(m), "anonymous", verb) # {}
             \/ /\ Throughout(contract.attributes, "anonymous", verb) # {}
                /\ Valid(Throughout(OnMethod(m), "authorize", verb)) = {}

\* An accepted contract can be emitted from: no method that was declared is missing,
\* each has one operation that the client takes by default, no two operations answer
\* to the same verb and route, no endpoint name is used twice, and a request has at
\* most one body, a GET none.
ModelIsServable ==
    pc = "accepted" =>
        /\ Parsed = {m \in Methods : \E i \in Hierarchy : Declares(i, m)}
        /\ \A m \in Parsed :
             LET operations == model[m].operations IN
             /\ Len(operations) = 1
                \/ \E k \in DOMAIN operations :
                       /\ operations[k].isDefault
                       /\ \A j \in DOMAIN operations \ {k} : ~operations[j].isDefault
             /\ model[m].name # "none" => Len(operations) = 1
        /\ \A x, y \in ParsedOperations :
             x # y => \/ OperationAt(x).verb # OperationAt(y).verb
                      \/ OperationAt(x).route # OperationAt(y).route
        /\ \A m, n \in Parsed : m # n /\ model[m].name # "none" => model[m].name # model[n].name
        /\ \A x \in ParsedOperations :
             LET kinds == OperationAt(x).kinds IN
             \A p, q \in {r \in DOMAIN kinds : kinds[r] = "Body"} :
                 p = q /\ OperationAt(x).verb # "GET"

\* Every contract is accepted or rejected in the end.
ParsingEnds == <>(pc \in {"accepted", "rejected"})
=============================================================================
