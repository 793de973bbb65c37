------------------------- MODULE ContractModelProofs -------------------------
(***************************************************************************)
(* What ContractParse makes of a contract, for any hierarchy and any       *)
(* declarations: the bindings, the policies, and what can be emitted from. *)
(* All of it rests on the order of the walk, see ContractParseProofs.      *)
(***************************************************************************)
EXTENDS ContractParseProofs, FiniteSetTheorems

\* A model is what its method's declarations amount to at the end of the walk, and
\* until a method fails every method declared is parsed or left to be.
ModelInv ==
    /\ contract \in Contracts
    /\ visited \subseteq Interfaces /\ todo \subseteq Methods /\ invalid \in BOOLEAN
    /\ Parsed \subseteq Methods
    /\ pc \in {"start", "walk"} => Parsed = {}
    /\ \A m \in Parsed : model[m] = Parsing(m) /\ Parses(m) /\ ~Conflicting(m)
    /\ pc \in {"methods", "accepted"} /\ ~invalid =>
         Parsed \cup todo = {m \in Methods : DeclaredAt(m) # {}}
    /\ pc = "accepted" => todo = {} /\ Accepts

-----------------------------------------------------------------------------

\* Once the walk is over, what a method amounts to does not change any more.
LEMMA ParsingIsSettled ==
    ASSUME UNCHANGED <<contract, sources>>, NEW m
    PROVE  /\ DeclaredAt(m)' = DeclaredAt(m)
           /\ Parsing(m)' = Parsing(m)
           /\ Parses(m)' <=> Parses(m)
           /\ Conflicting(m)' <=> Conflicting(m)
<1>1. Order' = Order
  BY DEF Order
<1>2. \A k : Declaration(k, m)' = Declaration(k, m)
  BY <1>1 DEF Declaration
<1>3. DeclaredAt(m)' = DeclaredAt(m)
  BY <1>1, <1>2 DEF DeclaredAt
<1>4. Method(m)' = Method(m)
  BY <1>2, <1>3 DEF Method
<1>5. VerbAttributes(m)' = VerbAttributes(m) /\ (Conflicting(m)' <=> Conflicting(m))
  BY VerbsAreSettled
<1>6. EndpointName(m)' = EndpointName(m)
  <2>1. NamedAt(m)' = NamedAt(m)
    BY <1>2, <1>3 DEF NamedAt
  <2> QED BY <1>2, <2>1 DEF EndpointName
<1>7. Parameters(m)' = Parameters(m)
  BY <1>4 DEF Parameters
<1>8. \A p, attribute : BindKind(m, p, attribute)' = BindKind(m, p, attribute)
  <2>1. \A p : BoundAt(m, p)' = BoundAt(m, p)
    BY <1>2, <1>3 DEF BoundAt
  <2>2. \A p : Binding(m, p)' = Binding(m, p)
    BY <1>2, <2>1 DEF Binding
  <2>3. \A p, attribute : InferredKind(m, p, attribute)' = InferredKind(m, p, attribute)
    BY <1>4 DEF InferredKind
  <2> QED BY <1>4, <2>2, <2>3 DEF BindKind
<1>9. ServiceLevel' = ServiceLevel /\ MethodLevel(m)' = MethodLevel(m)
  BY <1>1, <1>2 DEF ServiceLevel, MethodLevel
<1>10. \A attribute : Operation(m, attribute)' = Operation(m, attribute)
  BY <1>7, <1>8, <1>9 DEF Operation
<1>11. Parsing(m)' = Parsing(m)
  <2>1. Operations(m)' = Operations(m)
    BY <1>5, <1>10 DEF Operations
  <2> QED BY <1>6, <2>1 DEF Parsing
<1>12. Parses(m)' <=> Parses(m)
  <2>1. \A attribute : Bodies(m, attribute)' = Bodies(m, attribute)
    BY <1>7, <1>8 DEF Bodies
  <2>2. \A attribute : IsValid(m, attribute)' <=> IsValid(m, attribute)
    BY <2>1 DEF IsValid
  <2> QED BY <1>4, <1>5, <1>6, <2>2 DEF Parses
<1> QED BY <1>3, <1>5, <1>11, <1>12

LEMMA InitModel == Init => ModelInv
BY HierarchyAssumption DEF Init, ModelInv, Parsed

\* Before the methods there are no models.
LEMMA WalkKeepsModel ==
    ASSUME WalkInv, ModelInv,
           Refuse \/ StartWalk \/ Descend \/ Return \/ GroupMethods \/ RejectOverload
    PROVE  ModelInv'
<1>1. /\ contract' = contract /\ model' = model /\ invalid' = invalid
      /\ pc \in {"start", "walk"} /\ pc' # "accepted"
  BY DEF Refuse, StartWalk, Descend, Return, GroupMethods, RejectOverload
<1>2. Parsed = {} /\ Parsed' = {}
  BY <1>1 DEF ModelInv, Parsed
<1>3. visited' \subseteq Interfaces
  <2>1. CASE StartWalk
    BY <2>1, HierarchyAssumption DEF StartWalk
  <2>2. CASE Descend
    <3>1. Top.left \subseteq Interfaces
      BY <2>2, StackShape DEF Descend, Top
    <3> QED BY <2>2, <3>1 DEF Descend, ModelInv
  <2>3. CASE Refuse \/ Return \/ GroupMethods \/ RejectOverload
    BY <2>3 DEF Refuse, Return, GroupMethods, RejectOverload, ModelInv
  <2> QED BY <2>1, <2>2, <2>3
<1>4. todo' \subseteq Methods /\ (pc' = "methods" => todo' = {m \in Methods : DeclaredAt(m)' # {}})
  <2>1. CASE GroupMethods
    <3>1. UNCHANGED <<contract, sources>> /\ todo' = {m \in Methods : DeclaredAt(m) # {}}
      BY <2>1 DEF GroupMethods
    <3> QED BY <3>1, ParsingIsSettled
  <2>2. CASE Refuse \/ StartWalk \/ Descend \/ Return \/ RejectOverload
    BY <2>2 DEF Refuse, StartWalk, Descend, Return, RejectOverload, ModelInv
  <2> QED BY <2>1, <2>2
<1> QED BY <1>1, <1>2, <1>3, <1>4 DEF ModelInv

LEMMA MethodsKeepModel ==
    ASSUME ModelInv, NEW m \in Methods, ParseMethod(m) \/ SkipMethod(m)
    PROVE  ModelInv'
<1>0. /\ UNCHANGED <<contract, sources, visited>> /\ pc = "methods" /\ pc' = pc
      /\ m \in todo /\ todo' = todo \ {m}
  BY DEF ParseMethod, SkipMethod
<1>1. CASE ParseMethod(m)
  <2>1. /\ model' = [n \in Parsed \cup {m} |-> IF n = m THEN Parsing(m) ELSE model[n]]
        /\ invalid' = invalid /\ Parses(m) /\ ~Conflicting(m)
    BY <1>1 DEF ParseMethod, Parsed
  <2>2. Parsed' = Parsed \cup {m}
    BY <2>1 DEF Parsed
  <2>3. ASSUME NEW n \in Parsed'
        PROVE  model'[n] = Parsing(n)' /\ Parses(n)' /\ ~Conflicting(n)'
    <3>1. CASE n = m
      BY <1>0, <2>1, <2>2, <3>1, ParsingIsSettled
    <3>2. CASE n # m
      <4>1. n \in Parsed /\ model'[n] = model[n]
        BY <2>1, <2>2, <3>2
      <4> QED BY <1>0, <4>1, ParsingIsSettled DEF ModelInv
    <3> QED BY <3>1, <3>2
  <2>4. {n \in Methods : DeclaredAt(n)' # {}} = {n \in Methods : DeclaredAt(n) # {}}
    BY <1>0, ParsingIsSettled
  <2> QED BY <1>0, <2>1, <2>2, <2>3, <2>4 DEF ModelInv
<1>2. CASE SkipMethod(m)
  <2>1. model' = model /\ invalid' = TRUE /\ Parsed' = Parsed
    BY <1>2 DEF SkipMethod, Parsed
  <2>2. ASSUME NEW n \in Parsed
        PROVE  model'[n] = Parsing(n)' /\ Parses(n)' /\ ~Conflicting(n)'
    BY <1>0, <2>1, ParsingIsSettled DEF ModelInv
  <2> QED BY <1>0, <2>1, <2>2 DEF ModelInv
<1> QED BY <1>1, <1>2

LEMMA RestKeepsModel ==
    ASSUME ModelInv, Accept \/ Reject \/ UNCHANGED vars
    PROVE  ModelInv'
<1>1. /\ UNCHANGED <<contract, sources, visited, todo, invalid, model>>
      /\ pc' \in {"start", "walk", "methods"} => pc' = pc
      /\ pc' = "accepted" => pc = "accepted" \/ (pc = "methods" /\ todo = {} /\ Accepts)
  BY DEF Accept, Reject, vars
<1>2. Parsed' = Parsed /\ (Accepts' <=> Accepts)
  <2>1. Parsed' = Parsed
    BY <1>1 DEF Parsed
  <2>2. ParsedOperations' = ParsedOperations /\ \A x : OperationAt(x)' = OperationAt(x)
    BY <1>1, <2>1 DEF ParsedOperations, OperationAt
  <2>3. DuplicateOperations' <=> DuplicateOperations
    BY <2>2 DEF DuplicateOperations
  <2>4. DuplicateNames' <=> DuplicateNames
    BY <1>1, <2>1 DEF DuplicateNames
  <2> QED BY <1>1, <2>1, <2>3, <2>4 DEF Accepts
<1>3. ASSUME NEW n \in Parsed
      PROVE  model'[n] = Parsing(n)' /\ Parses(n)' /\ ~Conflicting(n)'
  BY <1>1, ParsingIsSettled DEF ModelInv
<1>4. {n \in Methods : DeclaredAt(n)' # {}} = {n \in Methods : DeclaredAt(n) # {}}
  BY <1>1, ParsingIsSettled
<1> QED BY <1>1, <1>2, <1>3, <1>4 DEF ModelInv

\* The models of the methods parsed follow their declarations.
THEOREM ModelIsInvariant == Spec => [](WalkInv /\ VerbInv /\ ModelInv)
<1>1. WalkInv /\ ModelInv /\ [Next]_vars => ModelInv'
  BY WalkKeepsModel, MethodsKeepModel, RestKeepsModel DEF Next
<1> QED BY WalkIsInvariant, InitVerbs, VerbsAreKept, InitModel, <1>1, PTL DEF Spec

\* Type correctness.
THEOREM ParserIsTyped == Spec => []TypeOK
<1>1. WalkInv /\ ModelInv => TypeOK
  BY StackShape DEF WalkInv, WalkTyped, ModelInv, TypeOK
<1> QED BY <1>1, ModelIsInvariant, PTL

-----------------------------------------------------------------------------
(* The order of the walk, and who inherits whom.                            *)

LEMMA OrderIsTheHierarchy ==
    ASSUME WalkInv, contract.all[Service] \subseteq Done
    PROVE  Hierarchy = {Order[k] : k \in DOMAIN Order}
<1>1. contract.all[Service] = Done
  BY DEF WalkInv, SourcesAreOrdered
<1>2. \A k \in DOMAIN Order : Order[k] \in Done \cup {Service}
  BY OrderShape
<1>3. \A i \in Done \cup {Service} : \E k \in DOMAIN Order : Order[k] = i
  BY OrderShape
<1> QED BY <1>1, <1>2, <1>3 DEF Hierarchy

\* Of some places the last is one whose interface no other of them overrides.
LEMMA LastIsSovereign ==
    ASSUME WalkInv, NEW K \in SUBSET DOMAIN Order, K # {}
    PROVE  /\ Last(K) \in K /\ \A j \in K : j <= Last(K)
           /\ Order[Last(K)] \in Sovereign({Order[k] : k \in K})
<1>1. Len(sources) + 1 \in Nat /\ DOMAIN Order = 1..(Len(sources) + 1)
  BY OrderShape
<1>2. Last(K) \in K /\ \A j \in K : j <= Last(K)
  BY <1>1, LastOfSome
<1>3. ASSUME NEW j \in K PROVE Order[Last(K)] \notin contract.all[Order[j]]
  <2>1. Last(K) \in Nat /\ j \in Nat /\ j <= Last(K)
    BY <1>1, <1>2
  <2> QED BY <1>2, <2>1, OrderExtendsInheritance
<1> QED BY <1>2, <1>3 DEF Sovereign

\* What is parsed was parsed at the end of the walk.
LEMMA ParsedAtTheEnd ==
    ASSUME WalkInv, VerbInv, ModelInv, NEW m \in Parsed
    PROVE  /\ Hierarchy = {Order[k] : k \in DOMAIN Order}
           /\ model[m].operations = Operations(m) /\ model[m].name = EndpointName(m)
           /\ DOMAIN Operations(m) = DOMAIN VerbAttributes(m)
           /\ \A k \in DOMAIN VerbAttributes(m) :
                Operations(m)[k] = Operation(m, VerbAttributes(m)[k])
<1>1. contract.all[Service] \subseteq Done
  BY DEF VerbInv
<1>2. Hierarchy = {Order[k] : k \in DOMAIN Order}
  BY <1>1, OrderIsTheHierarchy
<1>3. model[m] = Parsing(m)
  BY DEF ModelInv
<1> QED BY <1>2, <1>3 DEF Parsing, Operations

-----------------------------------------------------------------------------
(* Bindings. *)

\* A binding is the nearest inherited one.
LEMMA BindingIsSovereign ==
    ASSUME WalkInv, Hierarchy = {Order[k] : k \in DOMAIN Order}, NEW m, NEW p
    PROVE  IF WithBinding(m, p) = {} THEN Binding(m, p) = "none"
           ELSE /\ Binding(m, p) # "none"
                /\ \E i \in Sovereign(WithBinding(m, p)) :
                     Binding(m, p) = contract.declares[i][m].bindings[p]
<1> DEFINE K == BoundAt(m, p)
<1>1. K \in SUBSET DOMAIN Order
  BY DEF BoundAt, DeclaredAt
<1>2. \A k \in DOMAIN Order :
         k \in K <=> Declares(Order[k], m) /\ contract.declares[Order[k]][m].bindings[p] # "none"
  BY DEF BoundAt, DeclaredAt, Declaration, Declares
<1>3. WithBinding(m, p) = {Order[k] : k \in K}
  BY <1>1, <1>2 DEF WithBinding
<1>4. CASE K = {}
  BY <1>3, <1>4 DEF Binding
<1>5. CASE K # {}
  <2>1. Last(K) \in K /\ Order[Last(K)] \in Sovereign(WithBinding(m, p))
    BY <1>1, <1>3, <1>5, LastIsSovereign
  <2>2. Binding(m, p) = contract.declares[Order[Last(K)]][m].bindings[p]
    BY <1>5 DEF Binding, Declaration
  <2>3. Binding(m, p) # "none" /\ WithBinding(m, p) # {}
    BY <1>1, <1>2, <1>3, <1>5, <2>1, <2>2
  <2> QED BY <2>1, <2>2, <2>3
<1> QED BY <1>4, <1>5

\* A parameter is bound as a most specific interface that says anything of it says,
\* and inferred where none does (ParseParameter, FindInheritedBindingAttribute).
THEOREM BindingsFollowInheritance == Spec => []ExplicitBindingsAreInherited
<1>1. WalkInv /\ VerbInv /\ ModelInv => ExplicitBindingsAreInherited
  <2> SUFFICES ASSUME WalkInv, VerbInv, ModelInv, NEW m \in Parsed,
                      NEW k \in DOMAIN model[m].operations,
                      NEW p \in DOMAIN model[m].operations[k].kinds
               PROVE  LET kind == model[m].operations[k].kinds[p] IN
                      IF kind = "Cancellation" \/ WithBinding(m, p) = {}
                      THEN kind \in {"Cancellation", "Path", "Query", "Body"}
                      ELSE \E i \in Sovereign(WithBinding(m, p)) :
                              kind = contract.declares[i][m].bindings[p]
    BY DEF ExplicitBindingsAreInherited
  <2> DEFINE attribute == VerbAttributes(m)[k]
             kind == BindKind(m, p, attribute)
  <2>1. model[m].operations[k] = Operation(m, attribute)
    BY ParsedAtTheEnd
  <2>2. model[m].operations[k].kinds[p] = kind
    BY <2>1 DEF Operation
  <2>3. IF WithBinding(m, p) = {} THEN Binding(m, p) = "none"
        ELSE /\ Binding(m, p) # "none"
             /\ \E i \in Sovereign(WithBinding(m, p)) :
                  Binding(m, p) = contract.declares[i][m].bindings[p]
    BY ParsedAtTheEnd, BindingIsSovereign
  <2>4. \/ kind = "Cancellation"
        \/ Binding(m, p) # "none" /\ kind = Binding(m, p)
        \/ Binding(m, p) = "none" /\ kind \in {"Path", "Query", "Body"}
    BY DEF BindKind, InferredKind
  <2> HIDE DEF kind
  <2> QED BY <2>2, <2>3, <2>4
<1> QED BY <1>1, ModelIsInvariant, PTL

-----------------------------------------------------------------------------
(* Policies. *)

\* Of some occurrences there is a latest, and it is at the last of their symbols.
LEMMA LatestOfSome ==
    ASSUME NEW n \in Nat, NEW O \in SUBSET ((1..n) \X Nat), O # {},
           \A k \in 1..n : \E l \in Nat : \A o \in O : o[1] = k => o[2] \in 1..l
    PROVE  Latest(O) \in O /\ \A p \in O : p[1] <= Latest(O)[1]
<1> DEFINE K == {o[1] : o \in O}
           a == Last(K)
           J == {o[2] : o \in {q \in O : q[1] = a}}
<1>1. K \in SUBSET (1..n) /\ K # {}
  OBVIOUS
<1>2. a \in K /\ \A j \in K : j <= a
  <2> HIDE DEF K
  <2> QED BY <1>1, LastOfSome
<1>3. PICK l \in Nat : \A o \in O : o[1] = a => o[2] \in 1..l
  BY <1>1, <1>2
<1>4. J \in SUBSET (1..l) /\ J # {}
  BY <1>2, <1>3
<1>5. Last(J) \in J /\ \A j \in J : j <= Last(J)
  <2> HIDE DEF J
  <2> QED BY <1>4, LastOfSome
<1>6. PICK best \in O : best[1] = a /\ best[2] = Last(J)
  BY <1>5
<1> HIDE DEF a
<1>7. \A p \in O \ {best} : After(best, p)
  <2> SUFFICES ASSUME NEW p \in O \ {best} PROVE After(best, p)
    OBVIOUS
  <2>1. p[1] \in K /\ p[1] <= a /\ p[1] \in Nat /\ a \in Nat
    BY <1>1, <1>2
  <2>2. CASE p[1] # a
    BY <1>6, <2>1, <2>2 DEF After
  <2>3. CASE p[1] = a
    <3>1. p[2] \in J /\ p[2] <= Last(J) /\ p[2] \in Nat /\ Last(J) \in Nat
      BY <1>4, <1>5, <2>3
    <3>2. p[2] # Last(J)
      BY <1>6, <2>3
    <3> HIDE DEF J
    <3> QED BY <1>6, <2>3, <3>1, <3>2 DEF After
  <2> QED BY <2>2, <2>3
<1>8. Latest(O) \in O /\ \A p \in O \ {Latest(O)} : After(Latest(O), p)
  BY <1>7 DEF Latest
<1> QED BY <1>8 DEF After

\* A level is made of what A says of each interface, in the order of the walk.
IsLevel(level, A) ==
    /\ DOMAIN level = DOMAIN Order
    /\ \A k \in DOMAIN Order : level[k] = A[Order[k]]
    /\ \A i \in Interfaces :
         /\ IsList(A[i])
         /\ \A a \in DOMAIN A[i] : A[i][a].name # "none"

Occurs(A, k, a, kind, verb) ==
    /\ k \in DOMAIN Order /\ a \in DOMAIN A[Order[k]]
    /\ A[Order[k]][a].kind = kind /\ A[Order[k]][a].selects \in {"any", verb}

LEMMA OccurrenceShape ==
    ASSUME WalkInv, NEW A, NEW level, IsLevel(level, A), NEW kind, NEW verb
    PROVE  /\ Occurrences(level, kind, verb) \in SUBSET ((DOMAIN Order) \X Nat)
           /\ \A k, a : <<k, a>> \in Occurrences(level, kind, verb) <=> Occurs(A, k, a, kind, verb)
           /\ \A k \in DOMAIN Order : \E l \in Nat :
                \A o \in Occurrences(level, kind, verb) : o[1] = k => o[2] \in 1..l
<1> DEFINE All == UNION {{k} \X DOMAIN level[k] : k \in DOMAIN level}
<1>1. \A k \in DOMAIN Order : /\ Len(A[Order[k]]) \in Nat
                               /\ DOMAIN level[k] = 1..Len(A[Order[k]])
                               /\ DOMAIN level[k] = DOMAIN A[Order[k]]
  BY OrderShape DEF IsLevel, IsList
<1>2. All \in SUBSET ((DOMAIN Order) \X Nat)
  <2> SUFFICES ASSUME NEW k \in DOMAIN Order, NEW o \in {k} \X DOMAIN level[k]
               PROVE  o \in (DOMAIN Order) \X Nat
    BY DEF IsLevel
  <2>1. DOMAIN level[k] \subseteq Nat
    BY <1>1
  <2> QED BY <2>1
<1>3. \A k, a : <<k, a>> \in All <=> k \in DOMAIN Order /\ a \in DOMAIN level[k]
  BY DEF IsLevel
<1>4. \A o \in All : o = <<o[1], o[2]>>
  BY <1>2
<1> DEFINE O == Occurrences(level, kind, verb)
<1>5. O = {o \in All : level[o[1]][o[2]].kind = kind /\ level[o[1]][o[2]].selects \in {"any", verb}}
  BY DEF Occurrences
<1>6. O \in SUBSET All
  BY <1>5
<1> HIDE DEF All
<1>7. \A k, a : <<k, a>> \in O <=> Occurs(A, k, a, kind, verb)
  <2> SUFFICES ASSUME NEW k, NEW a PROVE <<k, a>> \in O <=> Occurs(A, k, a, kind, verb)
    OBVIOUS
  <2>1. <<k, a>> \in O <=> /\ <<k, a>> \in All
                          /\ level[k][a].kind = kind /\ level[k][a].selects \in {"any", verb}
    BY <1>5
  <2>2. k \in DOMAIN Order => level[k] = A[Order[k]]
    BY DEF IsLevel
  <2> HIDE DEF O
  <2> QED BY <1>1, <1>3, <2>1, <2>2 DEF Occurs
<1> HIDE DEF O
<1>8. \A k \in DOMAIN Order : \A o \in O : o[1] = k => o[2] \in 1..Len(A[Order[k]])
  <2> SUFFICES ASSUME NEW k \in DOMAIN Order, NEW o \in O, o[1] = k
               PROVE  o[2] \in 1..Len(A[Order[k]])
    OBVIOUS
  <2>1. o \in All /\ <<k, o[2]>> \in All
    BY <1>4, <1>6
  <2> QED BY <1>1, <1>3, <2>1
<1>9. \A k \in DOMAIN Order : \E l \in Nat : \A o \in O : o[1] = k => o[2] \in 1..l
  BY <1>1, <1>8
<1> QED BY <1>2, <1>6, <1>7, <1>9 DEF O

\* Occurrences whose name counts, and the latest of them: it is declared by a most
\* specific of the interfaces that have one.
Counting(level, kind, verb, ignored) ==
    {o \in Occurrences(level, kind, verb) : NameOf(level, o) \notin ignored}

LEMMA LatestIsNearest ==
    ASSUME WalkInv, Hierarchy = {Order[k] : k \in DOMAIN Order},
           NEW A, NEW level, IsLevel(level, A), NEW kind, NEW verb, NEW ignored
    PROVE  LET O == Counting(level, kind, verb, ignored) IN
           /\ O = {} => Nearest(A, kind, verb, ignored) = {}
           /\ O # {} => /\ NameOf(level, Latest(O)) \in Nearest(A, kind, verb, ignored)
                        /\ NameOf(level, Latest(O)) # "none"
<1> DEFINE O == Counting(level, kind, verb, ignored)
           Says(k) == Named(A[Order[k]], kind, verb) \ ignored
           K == {k \in DOMAIN Order : Says(k) # {}}
           I == {i \in Hierarchy : Named(A[i], kind, verb) \ ignored # {}}
           Counts(k, a) == Occurs(A, k, a, kind, verb) /\ A[Order[k]][a].name \notin ignored
<1>1. /\ O \in SUBSET ((DOMAIN Order) \X Nat)
      /\ \A k, a : <<k, a>> \in O <=> Counts(k, a)
      /\ \A k \in DOMAIN Order : \E l \in Nat : \A o \in O : o[1] = k => o[2] \in 1..l
  <2>1. /\ Occurrences(level, kind, verb) \in SUBSET ((DOMAIN Order) \X Nat)
        /\ \A k, a : <<k, a>> \in Occurrences(level, kind, verb) <=> Occurs(A, k, a, kind, verb)
        /\ \A k \in DOMAIN Order : \E l \in Nat :
             \A o \in Occurrences(level, kind, verb) : o[1] = k => o[2] \in 1..l
    BY OccurrenceShape
  <2>2. \A k \in DOMAIN Order : \A a : NameOf(level, <<k, a>>) = A[Order[k]][a].name
    BY DEF NameOf, IsLevel
  <2>3. \A k, a : Occurs(A, k, a, kind, verb) => k \in DOMAIN Order
    BY DEF Occurs
  <2> QED BY <2>1, <2>2, <2>3 DEF Counting
<1>2. I = {Order[k] : k \in K}
  OBVIOUS
<1>3. \A k, a : Counts(k, a) => k \in K /\ A[Order[k]][a].name \in Says(k)
  BY DEF Occurs, Applying, Named
<1>4. \A k \in K : \E a : Counts(k, a)
  BY DEF Occurs, Applying, Named
<1>5. Nearest(A, kind, verb, ignored)
        = UNION {Named(A[i], kind, verb) \ ignored : i \in Sovereign(I)}
  BY DEF Nearest
<1>6. \A k, a : Counts(k, a) => k \in DOMAIN Order /\ A[Order[k]][a].name # "none"
  BY OrderShape DEF IsLevel, Occurs
<1>7. \A o \in O : NameOf(level, o) = A[Order[o[1]]][o[2]].name
  BY <1>1 DEF NameOf, IsLevel
<1> HIDE DEF O, K, I, Counts
<1>8. CASE O = {}
  <2>1. K = {}
    BY <1>1, <1>4, <1>8
  <2>2. I = {}
    BY <1>2, <2>1
  <2>3. Nearest(A, kind, verb, ignored) = {}
    BY <1>5, <2>2 DEF Sovereign
  <2> QED BY <1>8, <2>3 DEF O
<1>9. CASE O # {}
  <2> DEFINE best == Latest(O)
  <2>1. best \in O /\ \A p \in O : p[1] <= best[1]
    <3>1. DOMAIN Order = 1..(Len(sources) + 1) /\ Len(sources) + 1 \in Nat
      BY OrderShape
    <3> QED BY <1>1, <1>9, <3>1, LatestOfSome
  <2>2. best = <<best[1], best[2]>> /\ NameOf(level, best) = A[Order[best[1]]][best[2]].name
    BY <1>1, <1>7, <2>1
  <2> HIDE DEF best
  <2>3. Counts(best[1], best[2])
    BY <1>1, <2>1, <2>2
  <2>4. best[1] \in K /\ \A k \in K : k <= best[1]
    <3> SUFFICES ASSUME NEW k \in K PROVE k <= best[1]
      BY <1>3, <2>3
    <3>1. PICK a : Counts(k, a)
      BY <1>4
    <3>2. <<k, a>> \in O
      BY <1>1, <3>1
    <3> QED BY <2>1, <3>2
  <2>5. best[1] = Last(K) /\ Order[Last(K)] \in Sovereign(I)
    <3>1. K \in SUBSET DOMAIN Order /\ K # {}
      BY <2>4 DEF K
    <3>2. /\ Last(K) \in K /\ \A j \in K : j <= Last(K)
          /\ Order[Last(K)] \in Sovereign(I)
      BY <1>2, <3>1, LastIsSovereign
    <3>3. \A j \in K : j \in Nat
      BY <3>1, OrderShape
    <3>4. best[1] \in Nat /\ Last(K) \in Nat /\ best[1] <= Last(K) /\ Last(K) <= best[1]
      BY <2>4, <3>2, <3>3
    <3> QED BY <3>2, <3>4
  <2>6. A[Order[best[1]]][best[2]].name \in Nearest(A, kind, verb, ignored)
    BY <1>3, <1>5, <2>3, <2>5
  <2>7. A[Order[best[1]]][best[2]].name # "none"
    BY <1>6, <2>3
  <2> QED BY <1>9, <2>2, <2>6, <2>7 DEF O, best
<1> QED BY <1>8, <1>9 DEF O

\* A level's policy is that of a most specific interface, or it has none.
IsNearest(policy, names) ==
    IF policy = "none" THEN names = {} \/ "blank" \in names ELSE policy \in names \ {"blank"}

\* A policy that replaces is named by a most specific interface, and is missing where
\* none names any, or one names an invalid one.
LEMMA ReplacingIsNearest ==
    ASSUME WalkInv, Hierarchy = {Order[k] : k \in DOMAIN Order},
           NEW A, NEW level, IsLevel(level, A), NEW kind, NEW verb
    PROVE  IsNearest(Replacing(level, kind, verb), Nearest(A, kind, verb, {}))
<1> DEFINE O == Occurrences(level, kind, verb)
<1>1. O = Counting(level, kind, verb, {})
  BY DEF Counting
<1>2. /\ O = {} => Nearest(A, kind, verb, {}) = {}
      /\ O # {} => /\ NameOf(level, Latest(O)) \in Nearest(A, kind, verb, {})
                   /\ NameOf(level, Latest(O)) # "none"
  <2> HIDE DEF O
  <2> QED BY <1>1, LatestIsNearest
<1>3. Replacing(level, kind, verb) =
        IF O = {} \/ NameOf(level, Latest(O)) = "blank" THEN "none" ELSE NameOf(level, Latest(O))
  BY DEF Replacing
<1> HIDE DEF O
<1> QED BY <1>2, <1>3 DEF IsNearest

\* One that enables is named by a most specific of the interfaces with a valid name.
LEMMA EnablingIsNearest ==
    ASSUME WalkInv, Hierarchy = {Order[k] : k \in DOMAIN Order},
           NEW A, NEW level, IsLevel(level, A), NEW kind, NEW verb
    PROVE  IsNearest(Enabling(level, kind, verb), Nearest(A, kind, verb, {"blank"}))
<1> DEFINE O == Counting(level, kind, verb, {"blank"})
<1>1. /\ O = {} => Nearest(A, kind, verb, {"blank"}) = {}
      /\ O # {} => /\ NameOf(level, Latest(O)) \in Nearest(A, kind, verb, {"blank"})
                   /\ NameOf(level, Latest(O)) # "none"
  BY LatestIsNearest
<1>2. O = {o \in Occurrences(level, kind, verb) : NameOf(level, o) # "blank"}
  BY DEF Counting
<1>3. Enabling(level, kind, verb) = IF O = {} THEN "none" ELSE NameOf(level, Latest(O))
  BY <1>2 DEF Enabling
<1>4. "blank" \notin Nearest(A, kind, verb, {"blank"})
  BY DEF Nearest
<1> HIDE DEF O
<1> QED BY <1>1, <1>3, <1>4 DEF IsNearest

\* What stands of a method's policy and its service's.
LEMMA EitherFollows ==
    ASSUME NEW M, NEW S, NEW ofMethod, NEW ofService,
           IsNearest(M, ofMethod), IsNearest(S, ofService)
    PROVE  Follows(Either(M, S), ofMethod, ofService)
BY DEF IsNearest, Either, Follows

\* The occurrences on a level are the attributes that anybody in the hierarchy has.
LEMMA LevelsLoseNothing ==
    ASSUME WalkInv, Hierarchy = {Order[k] : k \in DOMAIN Order},
           NEW A, NEW level, IsLevel(level, A), NEW kind, NEW verb
    PROVE  /\ \A o \in Occurrences(level, kind, verb) :
                level[o[1]][o[2]] \in Throughout(A, kind, verb)
           /\ \A x \in Throughout(A, kind, verb) :
                \E o \in Occurrences(level, kind, verb) : level[o[1]][o[2]] = x
<1> DEFINE O == Occurrences(level, kind, verb)
<1>1. /\ O \in SUBSET ((DOMAIN Order) \X Nat)
      /\ \A k, a : <<k, a>> \in O <=> Occurs(A, k, a, kind, verb)
  BY OccurrenceShape
<1>2. \A k, a : k \in DOMAIN Order => level[k][a] = A[Order[k]][a]
  BY DEF IsLevel
<1> HIDE DEF O
<1>3. ASSUME NEW o \in O PROVE level[o[1]][o[2]] \in Throughout(A, kind, verb)
  <2>1. o = <<o[1], o[2]>> /\ Occurs(A, o[1], o[2], kind, verb)
    BY <1>1
  <2>2. Order[o[1]] \in Hierarchy /\ level[o[1]][o[2]] = A[Order[o[1]]][o[2]]
    BY <1>2, <2>1 DEF Occurs
  <2>3. A[Order[o[1]]][o[2]] \in Applying(A[Order[o[1]]], kind, verb)
    BY <2>1 DEF Occurs, Applying
  <2> QED BY <2>2, <2>3 DEF Throughout
<1>4. ASSUME NEW x \in Throughout(A, kind, verb)
      PROVE  \E o \in O : level[o[1]][o[2]] = x
  <2>1. PICK k \in DOMAIN Order : x \in Applying(A[Order[k]], kind, verb)
    BY DEF Throughout
  <2>2. PICK a : Occurs(A, k, a, kind, verb) /\ A[Order[k]][a] = x
    BY <2>1 DEF Applying, Occurs
  <2>3. <<k, a>> \in O /\ level[<<k, a>>[1]][<<k, a>>[2]] = x
    BY <1>1, <1>2, <2>2
  <2> QED BY <2>3
<1> QED BY <1>3, <1>4 DEF O

\* Hence what adds up is what anybody asks for.
LEMMA DeclaredAddUp ==
    ASSUME WalkInv, Hierarchy = {Order[k] : k \in DOMAIN Order},
           NEW A, NEW level, IsLevel(level, A), NEW verb
    PROVE  LET declared == ParseDeclared(level, verb)
               authorize == Valid(Throughout(A, "authorize", verb)) IN
           /\ declared.custom = {x.name : x \in Valid(Throughout(A, "custom", verb))}
           /\ declared.anonymous <=> Throughout(A, "anonymous", verb) # {}
           /\ \A x \in authorize : Demands(declared, x)
           /\ HasAuthorization(declared) <=> authorize # {}
<1> DEFINE O(kind) == Occurrences(level, kind, verb)
           T(kind) == Throughout(A, kind, verb)
           At(o) == level[o[1]][o[2]]
           asking == {o \in O("authorize") : At(o).name # "blank"}
           declared == ParseDeclared(level, verb)
<1>1. \A kind : /\ \A o \in O(kind) : At(o) \in T(kind)
                /\ \A x \in T(kind) : \E o \in O(kind) : At(o) = x
  BY LevelsLoseNothing
<1>2. /\ declared.custom = {At(o).name : o \in O("custom")} \ {"blank"}
      /\ declared.anonymous <=> O("anonymous") # {}
      /\ declared.authorization =
           {At(o).name : o \in {q \in asking : At(q).name # "omitted" \/ At(q).roles = "blank"}}
             \ {"blank"}
      /\ declared.roles = {At(o).roles : o \in asking} \ {"blank"}
  BY DEF ParseDeclared, NamesOf, NameOf
<1> HIDE DEF O, T, At, declared
<1>3. declared.custom = {x.name : x \in Valid(T("custom"))}
  BY <1>1, <1>2 DEF Valid
<1>4. declared.anonymous <=> T("anonymous") # {}
  BY <1>1, <1>2
<1>5. \A x \in Valid(T("authorize")) : \E o \in asking : At(o) = x
  BY <1>1 DEF Valid
<1>6. \A o \in asking : At(o) \in Valid(T("authorize"))
  BY <1>1 DEF Valid
<1>7. \A o \in asking : Demands(declared, At(o))
  BY <1>2 DEF Demands
<1>8. asking = {} => declared.authorization = {} /\ declared.roles = {}
  BY <1>2
<1> HIDE DEF asking
<1>9. \A x \in Valid(T("authorize")) : Demands(declared, x)
  BY <1>5, <1>7
<1>10. HasAuthorization(declared) <=> Valid(T("authorize")) # {}
  <2>1. ASSUME NEW o \in asking PROVE HasAuthorization(declared)
    BY <1>7 DEF Demands, HasAuthorization
  <2> QED BY <1>5, <1>6, <1>8, <2>1 DEF HasAuthorization
<1> QED BY <1>3, <1>4, <1>9, <1>10 DEF T, declared

LEMMA LevelsAreLevels ==
    ASSUME WalkInv, ModelInv, NEW m \in Methods
    PROVE  IsLevel(ServiceLevel, contract.attributes) /\ IsLevel(MethodLevel(m), OnMethod(m))
<1>1. \A k \in DOMAIN Order : Order[k] \in Interfaces
  BY OrderShape
<1>2. contract \in Contracts
  BY DEF ModelInv
<1>3. \A i \in Interfaces : \A attributes \in {contract.attributes[i], OnMethod(m)[i]} :
         IsList(attributes) /\ \A a \in DOMAIN attributes : attributes[a].name # "none"
  BY <1>2, AttributeAssumption DEF OnMethod
<1>4. IsLevel(ServiceLevel, contract.attributes)
  BY <1>1, <1>3 DEF IsLevel, ServiceLevel
<1>5. /\ DOMAIN MethodLevel(m) = DOMAIN Order
      /\ \A k \in DOMAIN Order : MethodLevel(m)[k] = OnMethod(m)[Order[k]]
  BY <1>1 DEF MethodLevel, OnMethod, Declaration
<1>6. IsLevel(MethodLevel(m), OnMethod(m))
  BY <1>3, <1>5 DEF IsLevel
<1> QED BY <1>4, <1>6

\* The policy in force is that of a most specific declaration of the method or, where it
\* has none, of a most specific interface; nothing that adds up is lost on the way; and an
\* interface makes an operation anonymous only where its method demands nothing
\* (EndpointPolicyParser.ParseEffective).
THEOREM PoliciesAreInherited == Spec => []PoliciesFollowInheritance
<1>1. WalkInv /\ VerbInv /\ ModelInv => PoliciesFollowInheritance
  <2> SUFFICES ASSUME WalkInv, VerbInv, ModelInv, NEW m \in Parsed,
                      NEW k \in DOMAIN model[m].operations
               PROVE  LET policies == model[m].operations[k].policies
                          verb == model[m].operations[k].verb
                          AnyOf(kind) == Throughout(contract.attributes, kind, verb)
                                           \cup Throughout(OnMethod(m), kind, verb) IN
                      /\ \A kind \in {"cors", "rateLimit", "timeout"} :
                           FollowsNearest(policies[kind], m, kind, verb, {})
                      /\ FollowsNearest(policies.cache, m, "cache", verb, {"blank"})
                      /\ policies.custom = {x.name : x \in Valid(AnyOf("custom"))}
                      /\ \A x \in Valid(AnyOf("authorize")) : Demands(policies, x)
                      /\ policies.anonymous <=>
                           \/ Throughout(OnMethod(m), "anonymous", verb) # {}
                           \/ /\ Throughout(contract.attributes, "anonymous", verb) # {}
                              /\ Valid(Throughout(OnMethod(m), "authorize", verb)) = {}
    BY DEF PoliciesFollowInheritance
  <2> DEFINE attribute == VerbAttributes(m)[k]
             verb == attribute.verb
             S == ParseDeclared(ServiceLevel, verb)
             M == ParseDeclared(MethodLevel(m), verb)
             policies == ParseEffective(ServiceLevel, MethodLevel(m), verb)
             OfService(kind) == Throughout(contract.attributes, kind, verb)
             OfMethod(kind) == Throughout(OnMethod(m), kind, verb)
  <2>1. model[m].operations[k] = Operation(m, attribute)
    BY ParsedAtTheEnd
  <2>2. model[m].operations[k].verb = verb /\ model[m].operations[k].policies = policies
    BY <2>1 DEF Operation
  <2>3. /\ Hierarchy = {Order[j] : j \in DOMAIN Order}
        /\ IsLevel(ServiceLevel, contract.attributes) /\ IsLevel(MethodLevel(m), OnMethod(m))
    BY ParsedAtTheEnd, LevelsAreLevels DEF ModelInv
  <2>4. /\ \A kind \in {"cors", "rateLimit", "timeout"} :
             policies[kind] = Either(Replacing(MethodLevel(m), kind, verb),
                                     Replacing(ServiceLevel, kind, verb))
        /\ policies.cache = Either(Enabling(MethodLevel(m), "cache", verb),
                                   Enabling(ServiceLevel, "cache", verb))
    <3>1. /\ S.cors = Replacing(ServiceLevel, "cors", verb)
          /\ S.rateLimit = Replacing(ServiceLevel, "rateLimit", verb)
          /\ S.timeout = Replacing(ServiceLevel, "timeout", verb)
          /\ S.cache = Enabling(ServiceLevel, "cache", verb)
      BY DEF ParseDeclared
    <3>2. /\ M.cors = Replacing(MethodLevel(m), "cors", verb)
          /\ M.rateLimit = Replacing(MethodLevel(m), "rateLimit", verb)
          /\ M.timeout = Replacing(MethodLevel(m), "timeout", verb)
          /\ M.cache = Enabling(MethodLevel(m), "cache", verb)
      BY DEF ParseDeclared
    <3> HIDE DEF S, M
    <3>3. /\ policies.cors = Either(M.cors, S.cors)
          /\ policies.rateLimit = Either(M.rateLimit, S.rateLimit)
          /\ policies.timeout = Either(M.timeout, S.timeout)
          /\ policies.cache = Either(M.cache, S.cache)
      BY DEF ParseEffective, S, M
    <3> HIDE DEF policies
    <3> QED BY <3>1, <3>2, <3>3
  <2>5. /\ policies.custom = S.custom \cup M.custom
        /\ policies.authorization = S.authorization \cup M.authorization
        /\ policies.roles = S.roles \cup M.roles
        /\ policies.anonymous = (M.anonymous \/ (S.anonymous /\ ~HasAuthorization(M)))
    BY DEF ParseEffective
  <2>6. /\ S.custom = {x.name : x \in Valid(OfService("custom"))}
        /\ S.anonymous <=> OfService("anonymous") # {}
        /\ \A x \in Valid(OfService("authorize")) : Demands(S, x)
    BY <2>3, DeclaredAddUp
  <2>7. /\ M.custom = {x.name : x \in Valid(OfMethod("custom"))}
        /\ M.anonymous <=> OfMethod("anonymous") # {}
        /\ \A x \in Valid(OfMethod("authorize")) : Demands(M, x)
        /\ HasAuthorization(M) <=> Valid(OfMethod("authorize")) # {}
    BY <2>3, DeclaredAddUp
  <2> HIDE DEF policies, S, M, verb
  <2>8. ASSUME NEW kind \in {"cors", "rateLimit", "timeout"}
        PROVE  FollowsNearest(policies[kind], m, kind, verb, {})
    BY <2>3, <2>4, ReplacingIsNearest, EitherFollows DEF FollowsNearest
  <2>9. FollowsNearest(policies.cache, m, "cache", verb, {"blank"})
    BY <2>3, <2>4, EnablingIsNearest, EitherFollows DEF FollowsNearest
  <2> HIDE DEF OfService, OfMethod
  <2>10. policies.custom = {x.name : x \in Valid(OfService("custom") \cup OfMethod("custom"))}
    BY <2>5, <2>6, <2>7 DEF Valid
  <2>11. ASSUME NEW x \in Valid(OfService("authorize") \cup OfMethod("authorize"))
         PROVE  Demands(policies, x)
    <3>1. Demands(S, x) \/ Demands(M, x)
      BY <2>6, <2>7 DEF Valid
    <3> QED BY <2>5, <3>1 DEF Demands
  <2>12. policies.anonymous <=>
           \/ OfMethod("anonymous") # {}
           \/ OfService("anonymous") # {} /\ Valid(OfMethod("authorize")) = {}
    BY <2>5, <2>6, <2>7
  <2> QED BY <2>2, <2>8, <2>9, <2>10, <2>11, <2>12 DEF OfService, OfMethod
<1> QED BY <1>1, ModelIsInvariant, PTL

-----------------------------------------------------------------------------
(* What is accepted. *)

LEMMA AtMostOne ==
    ASSUME NEW S, IsFiniteSet(S), Cardinality(S) <= 1
    PROVE  \A x, y \in S : x = y
<1>1. Cardinality(S) \in Nat
  BY FS_CardinalityType
<1>2. S = {} \/ \E x : S = {x}
  BY <1>1, FS_EmptySet, FS_Singleton
<1> QED BY <1>2

\* The attributes and the parameters of a parsed method come from declarations.
LEMMA ParsedIsDeclared ==
    ASSUME WalkInv, VerbInv, ModelInv, NEW m \in Parsed
    PROVE  /\ IsList(VerbAttributes(m)) /\ IsFiniteSet(DOMAIN VerbAttributes(m))
           /\ IsFiniteSet(Parameters(m))
<1>1. contract \in Contracts /\ m \in Methods
  BY DEF ModelInv
<1>2. DOMAIN Order = 1..(Len(sources) + 1) /\ Len(sources) + 1 \in Nat
  BY OrderShape
<1>3. ASSUME NEW K \in SUBSET DeclaredAt(m), K # {}
      PROVE  LET d == Declaration(Last(K), m) IN
             IsList(d.verbs) /\ d.names \in Seq(STRING) /\ Last(K) \in K
  <2>1. K \in SUBSET (1..(Len(sources) + 1))
    BY <1>2 DEF DeclaredAt
  <2>2. Last(K) \in K
    BY <1>2, <1>3, <2>1, LastOfSome
  <2>3. Order[Last(K)] \in Interfaces /\ Declaration(Last(K), m) # NoDeclaration
    BY <2>2, OrderShape DEF DeclaredAt
  <2> QED BY <1>1, <2>2, <2>3, DeclarationAssumption DEF Declaration
<1>4. VerbsAt(m) # {} /\ VerbsAt(m) \subseteq DeclaredAt(m)
  BY DEF VerbInv, FollowsVerbs, VerbsAt
<1>5. IsList(VerbAttributes(m))
  BY <1>3, <1>4 DEF VerbAttributes
<1>6. IsFiniteSet(DOMAIN VerbAttributes(m))
  BY <1>5, FS_Interval DEF IsList
<1>7. Method(m).names \in Seq(STRING)
  BY <1>3, <1>4 DEF Method
<1>8. IsFiniteSet(Parameters(m))
  <2>1. Len(Method(m).names) \in Nat /\ DOMAIN Method(m).names = 1..Len(Method(m).names)
    BY <1>7, LenProperties
  <2> QED BY <2>1, FS_Interval DEF Parameters
<1> QED BY <1>5, <1>6, <1>8

\* One operation of a method is the default, or there is one only.
LEMMA OneIsTheDefault ==
    ASSUME WalkInv, VerbInv, ModelInv, NEW m \in Parsed
    PROVE  LET operations == model[m].operations IN
           /\ \/ Len(operations) = 1
              \/ \E k \in DOMAIN operations :
                    /\ operations[k].isDefault
                    /\ \A j \in DOMAIN operations \ {k} : ~operations[j].isDefault
           /\ model[m].name # "none" => Len(operations) = 1
<1> DEFINE attributes == VerbAttributes(m)
           operations == Operations(m)
           defaults == {k \in DOMAIN attributes : attributes[k].isDefault}
<1>1. model[m].operations = operations /\ model[m].name = EndpointName(m)
  BY ParsedAtTheEnd
<1>2. /\ DOMAIN operations = DOMAIN attributes
      /\ \A k \in DOMAIN attributes : operations[k].isDefault = attributes[k].isDefault
  <2>1. /\ DOMAIN operations = DOMAIN attributes
        /\ \A k \in DOMAIN attributes : operations[k] = Operation(m, attributes[k])
    BY ParsedAtTheEnd
  <2>2. \A attribute : Operation(m, attribute).isDefault = attribute.isDefault
    BY DEF Operation
  <2> QED BY <2>1, <2>2
<1>3. /\ Cardinality(defaults) <= 1
      /\ Len(attributes) > 1 => defaults # {}
      /\ attributes # <<>>
      /\ EndpointName(m) # "none" => Len(attributes) = 1
  BY DEF ModelInv, Parses
<1>4. Len(attributes) \in Nat /\ DOMAIN attributes = 1..Len(attributes)
  BY ParsedIsDeclared DEF IsList
<1>5. IsFiniteSet(defaults)
  <2>1. IsFiniteSet(DOMAIN attributes)
    BY ParsedIsDeclared
  <2> QED BY <2>1, FS_Subset
<1>6. Len(operations) = Len(attributes)
  <2>1. operations \in [1..Len(attributes) -> {operations[k] : k \in DOMAIN attributes}]
    BY <1>2, <1>4 DEF Operations
  <2>2. operations \in Seq({operations[k] : k \in DOMAIN attributes})
    BY <1>4, <2>1, SeqDef
  <2>3. Len(operations) \in Nat /\ DOMAIN operations = 1..Len(operations)
    BY <2>2, LenProperties
  <2> HIDE DEF operations, attributes
  <2> QED BY <1>2, <1>4, <2>3
<1>7. \A j, k \in defaults : j = k
  BY <1>3, <1>5, AtMostOne
<1> HIDE DEF operations, attributes
<1>8. CASE Len(attributes) > 1
  <2>1. PICK k \in defaults : TRUE
    BY <1>3, <1>8
  <2>2. \A j \in DOMAIN attributes \ {k} : ~attributes[j].isDefault
    BY <1>7, <2>1
  <2> QED BY <1>1, <1>2, <1>3, <1>6, <2>1, <2>2
<1>9. CASE ~(Len(attributes) > 1)
  <2>1. Len(attributes) # 0
    BY <1>3, <1>4 DEF attributes
  <2> QED BY <1>1, <1>3, <1>4, <1>6, <1>9, <2>1
<1> QED BY <1>8, <1>9

\* A request has one body at most, and a GET none.
LEMMA OneBodyAtMost ==
    ASSUME WalkInv, VerbInv, ModelInv, NEW m \in Parsed, NEW k \in DOMAIN model[m].operations
    PROVE  LET kinds == model[m].operations[k].kinds IN
           \A p, q \in {r \in DOMAIN kinds : kinds[r] = "Body"} :
               p = q /\ model[m].operations[k].verb # "GET"
<1> DEFINE attribute == VerbAttributes(m)[k]
           bodies == Bodies(m, attribute)
<1>1. model[m].operations[k] = Operation(m, attribute) /\ k \in DOMAIN VerbAttributes(m)
  BY ParsedAtTheEnd
<1> DEFINE kinds == model[m].operations[k].kinds
<1>2. /\ model[m].operations[k].verb = attribute.verb
      /\ {r \in DOMAIN kinds : kinds[r] = "Body"} = bodies
  BY <1>1 DEF Operation, Bodies
<1>3. Cardinality(bodies) <= IF attribute.verb = "GET" THEN 0 ELSE 1
  BY <1>1 DEF ModelInv, Parses, IsValid
<1>4. IsFiniteSet(bodies)
  BY ParsedIsDeclared, FS_Subset DEF Bodies
<1>5. Cardinality(bodies) \in Nat
  BY <1>4, FS_CardinalityType
<1> HIDE DEF bodies
<1>6. \A p, q \in bodies : p = q
  BY <1>3, <1>4, <1>5, AtMostOne
<1>7. attribute.verb = "GET" => bodies = {}
  BY <1>3, <1>4, <1>5, FS_EmptySet
<1> QED BY <1>2, <1>6, <1>7

\* What is accepted can be emitted from: Parse returns a model only when every method
\* declared has one, and the checks of each method and of the service hold together.
THEOREM AcceptedModelsAreServable == Spec => []ModelIsServable
<1>1. WalkInv /\ VerbInv /\ ModelInv => ModelIsServable
  <2> SUFFICES ASSUME WalkInv, VerbInv, ModelInv, pc = "accepted" PROVE ModelIsServable
    BY DEF ModelIsServable
  <2>1. Parsed = {m \in Methods : DeclaredAt(m) # {}} /\ ~DuplicateOperations /\ ~DuplicateNames
    BY DEF ModelInv, Accepts
  <2>2. Hierarchy = {Order[k] : k \in DOMAIN Order}
    BY OrderIsTheHierarchy DEF WalkInv, WalkEnds
  <2>3. \A m \in Methods : DeclaredAt(m) # {} <=> \E i \in Hierarchy : Declares(i, m)
    BY <2>2 DEF DeclaredAt, Declares, Declaration
  <2>4. Parsed = {m \in Methods : \E i \in Hierarchy : Declares(i, m)}
    BY <2>1, <2>3
  <2>5. \A x, y \in ParsedOperations :
           x # y => \/ OperationAt(x).verb # OperationAt(y).verb
                    \/ OperationAt(x).route # OperationAt(y).route
    BY <2>1 DEF DuplicateOperations
  <2>6. \A m, n \in Parsed : m # n /\ model[m].name # "none" => model[m].name # model[n].name
    BY <2>1 DEF DuplicateNames
  <2>7. ASSUME NEW x \in ParsedOperations
        PROVE  LET kinds == OperationAt(x).kinds IN
               \A p, q \in {r \in DOMAIN kinds : kinds[r] = "Body"} :
                   p = q /\ OperationAt(x).verb # "GET"
    <3>1. PICK m \in Parsed : x \in {m} \X DOMAIN model[m].operations
      BY DEF ParsedOperations
    <3>2. x[1] = m /\ x[2] \in DOMAIN model[m].operations
      BY <3>1
    <3> QED BY <3>2, OneBodyAtMost DEF OperationAt
  <2> QED BY <2>4, <2>5, <2>6, <2>7, OneIsTheDefault DEF ModelIsServable
<1> QED BY <1>1, ModelIsInvariant, PTL
-----------------------------------------------------------------------------
(* The parser ends: every step leaves less to do. *)

\* What is ahead: phases, methods to parse, interfaces to return from, and the bases of
\* an interface that are still to be looked at.
Phases ==
    CASE pc = "start"   -> {"start", "walk", "methods"}
      [] pc = "walk"    -> {"walk", "methods"}
      [] pc = "methods" -> {"methods"}
      [] OTHER          -> {}
Unparsed == IF pc \in {"start", "walk"} THEN Methods ELSE todo
Unvisited(i) == pc = "start" \/ i \notin visited
Unreturned == {i \in Interfaces : Unvisited(i) \/ i \in Active}
Unseen ==
    {e \in Interfaces \X Interfaces :
        /\ e[2] \in contract.bases[e[1]]
        /\ \/ Unvisited(e[1])
           \/ \E k \in DOMAIN stack : stack[k].at = e[1] /\ e[2] \in stack[k].left}

Shrinks ==
    /\ Phases' \subseteq Phases /\ Unparsed' \subseteq Unparsed
    /\ Unreturned' \subseteq Unreturned /\ Unseen' \subseteq Unseen
    /\ \/ Phases' # Phases \/ Unparsed' # Unparsed
       \/ Unreturned' # Unreturned \/ Unseen' # Unseen

Remaining ==
    Cardinality(Phases) + Cardinality(Unparsed) + Cardinality(Unreturned) + Cardinality(Unseen)
LessRemains == Remaining \in Nat /\ Remaining' \in Nat /\ Remaining' < Remaining

\* An interface is on the stack once, and what is there has been visited.
LEMMA ActiveOnce ==
    ASSUME WalkInv, pc = "walk", NEW j \in DOMAIN stack, NEW k \in DOMAIN stack,
           stack[j].at = stack[k].at
    PROVE  j = k /\ stack[j].at \in visited
<1>1. /\ j \in Nat /\ k \in Nat /\ stack # <<>>
      /\ stack[j].at \in Interfaces /\ stack[j].at \in Active
  BY StackShape DEF Active
<1>2. stack[j].at \notin contract.all[stack[j].at]
  BY <1>1 DEF WalkInv, WalkTyped, IsHierarchy
<1>3. ~(j < k) /\ ~(k < j)
  BY <1>2 DEF WalkInv, StackIsAPath
<1> QED BY <1>1, <1>3 DEF WalkInv, VisitedIsDoneOrActive

LEMMA StartShrinks == ASSUME WalkInv, StartWalk PROVE Shrinks
<1>1. pc = "start" /\ pc' = "walk" /\ contract' = contract
  BY DEF StartWalk
<1>2. Phases' \subseteq Phases /\ Phases' # Phases /\ Unparsed' = Unparsed
  BY <1>1 DEF Phases, Unparsed
<1>3. Unreturned' \subseteq Unreturned /\ Unseen' \subseteq Unseen
  BY <1>1 DEF Unreturned, Unseen, Unvisited
<1> QED BY <1>2, <1>3 DEF Shrinks

\* A base looked at is one less, and a base that is visited was still to be.
LEMMA DescendShrinks == ASSUME WalkInv, Descend PROVE Shrinks
<1> DEFINE n == Len(stack)
<1>1. PICK b \in Top.left :
        /\ stack' = IF b \in visited THEN Rest(b) ELSE Append(Rest(b), Frame(b))
        /\ visited' = visited \cup {b}
  BY DEF Descend, Rest
<1>2. pc = "walk" /\ pc' = pc /\ stack # <<>> /\ contract' = contract /\ todo' = todo
  BY DEF Descend
<1>3. /\ n \in Nat /\ n \in DOMAIN stack /\ DOMAIN stack = 1..n /\ Top = stack[n]
      /\ Top.at \in Interfaces /\ b \in Interfaces
  BY <1>2, StackShape DEF Top
<1>4. b \in contract.bases[Top.at] /\ b # Top.at
  BY <1>3 DEF WalkInv, WalkTyped, BasesAreAccounted, IsHierarchy
<1> DEFINE t == Rest(b)
<1>5. /\ DOMAIN t = 1..Len(stack)
      /\ \A k \in 1..Len(stack) :
           /\ t[k].at = stack[k].at
           /\ t[k].left = IF k = Len(stack) THEN Top.left \ {b} ELSE stack[k].left
      /\ Frame(b).at = b
      /\ DOMAIN Append(t, Frame(b)) = 1..(Len(stack) + 1)
      /\ Append(t, Frame(b))[Len(stack) + 1] = Frame(b)
      /\ \A k \in 1..Len(stack) : Append(t, Frame(b))[k] = t[k]
  BY <1>2, DescendShape
<1>6. stack' = IF b \in visited THEN t ELSE Append(t, Frame(b))
  BY <1>1
<1> HIDE DEF t
<1>7. \A k \in DOMAIN stack' :
        \/ /\ k \in DOMAIN stack /\ stack'[k].at = stack[k].at
           /\ stack'[k].left = IF k = n THEN Top.left \ {b} ELSE stack[k].left
        \/ stack'[k].at = b /\ b \notin visited
  <2>1. CASE b \in visited
    BY <1>3, <1>5, <1>6, <2>1
  <2>2. CASE b \notin visited
    <3>1. stack' = Append(t, Frame(b))
      BY <1>6, <2>2
    <3>2. \A k \in 1..(n + 1) : k \in 1..n \/ k = n + 1
      <4> HIDE DEF n
      <4> QED BY <1>3
    <3> QED BY <1>3, <1>5, <2>2, <3>1, <3>2
  <2> QED BY <2>1, <2>2
<1> HIDE DEF n
<1>8. \A i : Unvisited(i)' => Unvisited(i)
  BY <1>1, <1>2 DEF Unvisited
<1>9. Unvisited(b) \/ b \in visited
  BY DEF Unvisited
<1>10. Unreturned' \subseteq Unreturned
  <2>1. \A k \in DOMAIN stack' : stack'[k].at \in Active \/ Unvisited(stack'[k].at)
    BY <1>7 DEF Active, Unvisited
  <2>2. \A i \in Active' : i \in Active \/ Unvisited(i)
    BY <2>1 DEF Active
  <2> QED BY <1>8, <2>2 DEF Unreturned
<1>11. Unseen' \subseteq Unseen
  <2> SUFFICES ASSUME NEW e \in Unseen' PROVE e \in Unseen
    OBVIOUS
  <2>1. e \in Interfaces \X Interfaces /\ e[2] \in contract.bases[e[1]]
    BY <1>2 DEF Unseen
  <2>2. CASE Unvisited(e[1])'
    BY <1>8, <2>1, <2>2 DEF Unseen
  <2>3. CASE \E k \in DOMAIN stack' : stack'[k].at = e[1] /\ e[2] \in stack'[k].left
    <3>1. PICK k \in DOMAIN stack' : stack'[k].at = e[1] /\ e[2] \in stack'[k].left
      BY <2>3
    <3>2. CASE stack'[k].at = b /\ b \notin visited
      BY <2>1, <3>1, <3>2 DEF Unseen, Unvisited
    <3>3. CASE k \in DOMAIN stack /\ stack'[k].at = stack[k].at
               /\ stack'[k].left = IF k = n THEN Top.left \ {b} ELSE stack[k].left
      BY <1>3, <2>1, <3>1, <3>3 DEF Unseen
    <3> QED BY <1>7, <3>2, <3>3
  <2> QED BY <2>2, <2>3 DEF Unseen
<1>12. Unseen' # Unseen
  <2>1. <<Top.at, b>> \in Unseen
    <3> DEFINE e == <<Top.at, b>>
    <3>1. e \in Interfaces \X Interfaces /\ e[1] = Top.at /\ e[2] = b
      BY <1>3
    <3>2. stack[n].at = e[1] /\ e[2] \in stack[n].left
      BY <1>3, <3>1
    <3> HIDE DEF e
    <3>3. e \in Unseen
      BY <1>3, <1>4, <3>1, <3>2 DEF Unseen
    <3> QED BY <3>3 DEF e
  <2>2. Top.at \in visited
    BY <1>2, <1>3, ActiveOnce
  <2>3. \A i \in visited : ~(Unvisited(i)')
    BY <1>1, <1>2 DEF Unvisited
  <2>4. ASSUME NEW k \in DOMAIN stack', stack'[k].at = Top.at, b \in stack'[k].left PROVE FALSE
    <3>1. k \in DOMAIN stack /\ stack[k].at = stack[n].at /\ k # n
      BY <1>3, <1>4, <1>7, <2>4
    <3> QED BY <1>2, <1>3, <3>1, ActiveOnce
  <2>5. <<Top.at, b>>[1] = Top.at /\ <<Top.at, b>>[2] = b
    OBVIOUS
  <2>6. <<Top.at, b>> \notin Unseen'
    <3> SUFFICES ASSUME NEW e \in Unseen', e[1] = Top.at, e[2] = b PROVE FALSE
      BY <2>5
    <3> QED BY <2>2, <2>3, <2>4 DEF Unseen
  <2> QED BY <2>1, <2>6
<1>13. Phases' = Phases /\ Unparsed' = Unparsed
  BY <1>2 DEF Phases, Unparsed
<1> QED BY <1>10, <1>11, <1>12, <1>13 DEF Shrinks

\* An interface is returned from once.
LEMMA ReturnShrinks == ASSUME WalkInv, Return PROVE Shrinks
<1> DEFINE n == Len(stack)
<1>1. /\ pc = "walk" /\ pc' = pc /\ stack # <<>>
      /\ contract' = contract /\ visited' = visited /\ todo' = todo
      /\ stack' = SubSeq(stack, 1, n - 1)
  BY DEF Return
<1>2. /\ n \in Nat /\ n \in DOMAIN stack /\ DOMAIN stack = 1..n /\ Top = stack[n]
      /\ Top.at \in Interfaces
  BY <1>1, StackShape DEF Top
<1>3. DOMAIN stack' = 1..(n - 1) /\ \A k \in 1..(n - 1) : stack'[k] = stack[k]
  BY <1>1, PopShape DEF WalkInv, WalkTyped
<1> HIDE DEF n
<1>4. \A k \in DOMAIN stack' : k \in DOMAIN stack /\ k # n /\ stack'[k] = stack[k]
  BY <1>2, <1>3
<1>5. \A i : Unvisited(i)' <=> Unvisited(i)
  BY <1>1 DEF Unvisited
<1>6. Active' \subseteq Active
  BY <1>4 DEF Active
<1>7. Unreturned' \subseteq Unreturned
  BY <1>5, <1>6 DEF Unreturned
<1>8. Unseen' \subseteq Unseen
  <2> SUFFICES ASSUME NEW e \in Unseen' PROVE e \in Unseen
    OBVIOUS
  <2>1. /\ e \in Interfaces \X Interfaces /\ e[2] \in contract.bases[e[1]]
        /\ \/ Unvisited(e[1])'
           \/ \E k \in DOMAIN stack' : stack'[k].at = e[1] /\ e[2] \in stack'[k].left
    BY <1>1 DEF Unseen
  <2>2. \/ Unvisited(e[1])
        \/ \E k \in DOMAIN stack : stack[k].at = e[1] /\ e[2] \in stack[k].left
    BY <1>4, <1>5, <2>1
  <2> QED BY <2>1, <2>2 DEF Unseen
<1>9. Top.at \in Unreturned /\ Top.at \notin Unreturned'
  <2>1. Top.at \in Active /\ Top.at \in visited
    BY <1>1, <1>2, ActiveOnce DEF Active
  <2>2. Top.at \notin Active'
    <3>1. \A k \in DOMAIN stack' : stack'[k].at # Top.at
      BY <1>1, <1>2, <1>4, ActiveOnce
    <3> QED BY <3>1 DEF Active
  <2> QED BY <1>1, <1>2, <2>1, <2>2 DEF Unreturned, Unvisited
<1>10. Phases' = Phases /\ Unparsed' = Unparsed
  BY <1>1 DEF Phases, Unparsed
<1> QED BY <1>7, <1>8, <1>9, <1>10 DEF Shrinks

\* After the walk a phase ends, or a method is done with.
LEMMA RestShrinks ==
    ASSUME WalkInv, ModelInv,
           \/ Refuse \/ GroupMethods \/ RejectOverload
           \/ \E m \in Methods : ParseMethod(m) \/ SkipMethod(m)
           \/ Accept \/ Reject
    PROVE  Shrinks
<1>1. UNCHANGED <<contract, stack, visited>>
  BY DEF Refuse, GroupMethods, RejectOverload, ParseMethod, SkipMethod, Accept, Reject
<1>2. /\ pc' # "start"
      /\ Phases' \subseteq Phases /\ Unparsed' \subseteq Unparsed
      /\ Phases' # Phases \/ Unparsed' # Unparsed
  <2>1. CASE \E m \in Methods : ParseMethod(m) \/ SkipMethod(m)
    <3>1. PICK m \in Methods : m \in todo /\ todo' = todo \ {m} /\ pc = "methods" /\ pc' = pc
      BY <2>1 DEF ParseMethod, SkipMethod
    <3> QED BY <3>1 DEF Phases, Unparsed
  <2>2. CASE Refuse \/ GroupMethods \/ RejectOverload \/ Accept \/ Reject
    <3>1. /\ \/ pc = "start" /\ pc' = "rejected"
             \/ pc = "walk" /\ pc' \in {"methods", "rejected"}
             \/ pc = "methods" /\ pc' \in {"accepted", "rejected"}
          /\ pc = "methods" => todo' = todo
          /\ pc \in {"start", "walk"} => todo' \subseteq Methods
      BY <2>2 DEF Refuse, GroupMethods, RejectOverload, Accept, Reject, ModelInv
    <3>2. Unparsed' \subseteq Unparsed
      BY <3>1 DEF Unparsed
    <3>3. Phases' \subseteq Phases /\ Phases' # Phases
      BY <3>1 DEF Phases
    <3> QED BY <3>1, <3>2, <3>3
  <2> QED BY <2>1, <2>2
<1>3. \A i : Unvisited(i)' => Unvisited(i)
  BY <1>1, <1>2 DEF Unvisited
<1>4. Unreturned' \subseteq Unreturned /\ Unseen' \subseteq Unseen
  BY <1>1, <1>3 DEF Unreturned, Unseen, Active
<1> QED BY <1>2, <1>4 DEF Shrinks

LEMMA EveryStepShrinks == ASSUME WalkInv, ModelInv, Next PROVE Shrinks
BY StartShrinks, DescendShrinks, ReturnShrinks, RestShrinks DEF Next

\* Of finite sets, those that shrink get smaller.
LEMMA SmallerSets ==
    ASSUME NEW T, IsFiniteSet(T), NEW S \in SUBSET T
    PROVE  /\ Cardinality(S) \in Nat /\ Cardinality(T) \in Nat
           /\ Cardinality(S) <= Cardinality(T)
           /\ S # T => Cardinality(S) < Cardinality(T)
BY FS_Subset, FS_CardinalityType

\* A parser never goes back, whatever the hierarchy, and cannot go on for ever: with every
\* step fewer phases, methods, interfaces or bases are left, of those that there are
\* (GetInterfaceHierarchy, Parse). No order of names and no inheritance by many ways makes
\* the walk repeat itself.
THEOREM ParsersGetDone ==
    ASSUME IsFiniteSet(Interfaces), IsFiniteSet(Methods)
    PROVE  Spec => [][LessRemains]_vars
<1>1. ASSUME WalkInv, ModelInv, Next
      PROVE  LessRemains
  <2>1. /\ IsFiniteSet(Phases) /\ IsFiniteSet(Unparsed)
        /\ IsFiniteSet(Unreturned) /\ IsFiniteSet(Unseen)
    <3>1. IsFiniteSet(Phases)
      <4>1. IsFiniteSet({"start"} \cup {"walk"})
        BY FS_Singleton, FS_AddElement
      <4>2. IsFiniteSet({"start"} \cup {"walk"} \cup {"methods"})
        BY <4>1, FS_AddElement
      <4>3. Phases \subseteq {"start"} \cup {"walk"} \cup {"methods"}
        BY <1>1 DEF Phases, WalkInv, WalkTyped
      <4> QED BY <4>2, <4>3, FS_Subset
    <3>2. IsFiniteSet(Unparsed)
      <4>1. todo \subseteq Methods
        BY <1>1 DEF ModelInv
      <4>2. Unparsed \subseteq Methods
        BY <4>1 DEF Unparsed
      <4> QED BY <4>2, FS_Subset
    <3>3. IsFiniteSet(Unreturned)
      BY FS_Subset DEF Unreturned
    <3>4. IsFiniteSet(Unseen)
      <4>1. IsFiniteSet(Interfaces \X Interfaces)
        BY FS_Product
      <4> QED BY <4>1, FS_Subset DEF Unseen
    <3> QED BY <3>1, <3>2, <3>3, <3>4
  <2>2. /\ Phases' \subseteq Phases /\ Unparsed' \subseteq Unparsed
        /\ Unreturned' \subseteq Unreturned /\ Unseen' \subseteq Unseen
        /\ \/ Phases' # Phases \/ Unparsed' # Unparsed
           \/ Unreturned' # Unreturned \/ Unseen' # Unseen
    BY <1>1, EveryStepShrinks DEF Shrinks
  <2>3. /\ Cardinality(Phases)' \in Nat /\ Cardinality(Phases) \in Nat
        /\ Cardinality(Phases)' <= Cardinality(Phases)
        /\ Phases' # Phases => Cardinality(Phases)' < Cardinality(Phases)
    BY <2>1, <2>2, SmallerSets
  <2>4. /\ Cardinality(Unparsed)' \in Nat /\ Cardinality(Unparsed) \in Nat
        /\ Cardinality(Unparsed)' <= Cardinality(Unparsed)
        /\ Unparsed' # Unparsed => Cardinality(Unparsed)' < Cardinality(Unparsed)
    BY <2>1, <2>2, SmallerSets
  <2>5. /\ Cardinality(Unreturned)' \in Nat /\ Cardinality(Unreturned) \in Nat
        /\ Cardinality(Unreturned)' <= Cardinality(Unreturned)
        /\ Unreturned' # Unreturned => Cardinality(Unreturned)' < Cardinality(Unreturned)
    BY <2>1, <2>2, SmallerSets
  <2>6. /\ Cardinality(Unseen)' \in Nat /\ Cardinality(Unseen) \in Nat
        /\ Cardinality(Unseen)' <= Cardinality(Unseen)
        /\ Unseen' # Unseen => Cardinality(Unseen)' < Cardinality(Unseen)
    BY <2>1, <2>2, SmallerSets
  <2> QED BY <2>2, <2>3, <2>4, <2>5, <2>6 DEF LessRemains, Remaining
<1>2. WalkInv /\ VerbInv /\ ModelInv /\ [Next]_vars => [LessRemains]_vars
  BY <1>1
<1> QED BY <1>2, ModelIsInvariant, PTL DEF Spec
=============================================================================
