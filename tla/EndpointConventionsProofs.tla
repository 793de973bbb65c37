---------------------- MODULE EndpointConventionsProofs ----------------------
(***************************************************************************)
(* A mapping that fails leaves no endpoint without its dedicated policies, *)
(* and one that returns gives every endpoint the conventions of the scopes *)
(* that cover it, in their order: for any contract, whatever a host        *)
(* registered and whatever it adds.                                        *)
(***************************************************************************)
EXTENDS EndpointConventions, SequenceTheorems, WellFoundedInduction, TLAPS

Kinds == {"authorization", "roles", "anonymous", "single", "custom", "timeout"}
Conventions ==
    [kind : Kinds, name : Names \cup {Any}]
        \cup [kind : {"host"}, scope : Scopes, list : {"add", "final"}, call : Nat]
Lists == [add : Seq(Conventions), final : Seq(Conventions)]

TypeInv ==
    /\ phase \in {"mapping", "configuring", "returned", "threw"}
    /\ step \in {"map", "policies", "custom"}
    /\ next \in 1..(Len(Contract) + 1)
    /\ pending \in Seq(Names)
    /\ own \in [Endpoints -> Lists]
    /\ host \in Seq(Conventions)

\* Where the mapper is, phase by phase.
PhaseInv ==
    /\ phase = "mapping" => host = <<>>
    /\ phase \in {"configuring", "returned"} => next \notin Endpoints
    /\ step # "map" => next \in Endpoints
    /\ step = "policies" => phase = "mapping"
    /\ phase = "threw" /\ next \in Endpoints
         => host = <<>> /\ (step = "map" \/ Custom(next) # <<>>)
    /\ step = "custom" /\ pending # <<>> => Custom(next) # <<>>

\* An endpoint gets its dedicated policies first, before anything else.
Dressed(e) == e < next \/ (e = next /\ step = "custom")
PolicyInv ==
    \A e \in Endpoints :
        IF Dressed(e) THEN StartsWith(own[e].add, Dedicated(e)) ELSE own[e] = Empty

IInv == TypeInv /\ PhaseInv /\ PolicyInv

-----------------------------------------------------------------------------

\* The conventions made of a list of names are a list of conventions.
LEMMA EachIsSequence ==
    ASSUME NEW kind \in Kinds, NEW names \in Seq(Names)
    PROVE  Each(kind, names) \in Seq(Conventions)
<1>1. \A i \in 1..Len(names) : Convention(kind, names[i]) \in Conventions
  BY DEF Convention, Conventions
<1>2. DOMAIN names = 1..Len(names) /\ Len(names) \in Nat
  OBVIOUS
<1> QED BY <1>1, <1>2 DEF Each

\* So are those of a flag.
LEMMA WhenIsSequence ==
    ASSUME NEW condition \in BOOLEAN, NEW kind \in Kinds
    PROVE  When(condition, kind) \in Seq(Conventions)
<1>1. Convention(kind, Any) \in Conventions
  BY DEF Convention, Conventions
<1> QED BY <1>1 DEF When

\* The dedicated policies of an endpoint, and its timeout.
LEMMA PoliciesAreSequences ==
    ASSUME NEW e \in Endpoints
    PROVE  /\ Dedicated(e) \in Seq(Conventions)
           /\ Timeout(e) \in Seq(Conventions)
           /\ Custom(e) \in Seq(Names)
<1> DEFINE p == Contract[e].policies
<1>0. p \in EndpointPolicies
  <2>1. Contract[e] \in HttpOperations
    BY ContractAssumption DEF Endpoints
  <2> QED BY <2>1 DEF HttpOperations
<1>1. /\ p.authorization \in Seq(Names) /\ p.roles \in Seq(Names) /\ p.single \in Seq(Names)
      /\ p.anonymous \in BOOLEAN /\ p.milliseconds \in BOOLEAN /\ p.custom \in Seq(Names)
  BY <1>0 DEF EndpointPolicies
<1>2. /\ Each("authorization", p.authorization) \in Seq(Conventions)
      /\ Each("roles", p.roles) \in Seq(Conventions)
      /\ Each("single", p.single) \in Seq(Conventions)
  BY <1>1, EachIsSequence DEF Kinds
<1>3. /\ When(p.anonymous, "anonymous") \in Seq(Conventions)
      /\ When(p.milliseconds, "timeout") \in Seq(Conventions)
  BY <1>1, WhenIsSequence DEF Kinds
<1> HIDE DEF p
<1>4. Each("authorization", p.authorization) \o Each("roles", p.roles)
        \o When(p.anonymous, "anonymous") \o Each("single", p.single) \in Seq(Conventions)
  BY <1>2, <1>3
<1> QED BY <1>1, <1>3, <1>4 DEF p, Dedicated, Timeout, Custom

\* What a list starts with it still starts with when more is added at its end.
LEMMA StartsStay ==
    ASSUME NEW s \in Seq(Conventions), NEW r \in Seq(Conventions), NEW t \in Seq(Conventions),
           StartsWith(s, r)
    PROVE  StartsWith(s \o t, r)
<1>1. Len(s \o t) = Len(s) + Len(t) /\ \A i \in 1..Len(s) : (s \o t)[i] = s[i]
  OBVIOUS
<1>2. DOMAIN r = 1..Len(r) /\ Len(r) \in Nat /\ Len(s) \in Nat /\ Len(t) \in Nat
  OBVIOUS
<1> QED BY <1>1, <1>2 DEF StartsWith

-----------------------------------------------------------------------------

\* Before the mapping nothing is dressed, and nothing is said of it.
LEMMA InitEstablishes == ASSUME Init PROVE IInv
<1>1. Len(Contract) \in Nat /\ DOMAIN Contract = 1..Len(Contract)
  BY ContractAssumption
<1>2. TypeInv
  BY <1>1 DEF Init, TypeInv, Lists, Empty
<1>3. PhaseInv
  BY DEF Init, PhaseInv
<1>4. PolicyInv
  BY <1>1 DEF Init, PolicyInv, Dressed, Empty, Endpoints
<1> QED BY <1>2, <1>3, <1>4 DEF IInv

\* Throwing keeps what was there, and ends the mapping.
LEMMA ThrowsPreserves ==
    ASSUME IInv, Throws, step # "policies",
           next \in Endpoints => host = <<>> /\ (step = "map" \/ Custom(next) # <<>>)
    PROVE  IInv'
<1> USE DEF Throws, mapper, conventions
<1>1. TypeInv'
  BY DEF IInv, TypeInv
<1>2. PhaseInv'
  BY DEF IInv, PhaseInv
<1>3. PolicyInv'
  BY DEF IInv, PolicyInv, Dressed
<1> QED BY <1>1, <1>2, <1>3 DEF IInv

\* A list added to the endpoint at hand leaves every endpoint starting as it did.
OwnStays ==
    /\ own' \in [Endpoints -> Lists]
    /\ StartsWith(own'[next].add, Dedicated(next))
    /\ \A e \in Endpoints \ {next} : own'[e] = own[e]

\* An endpoint that gets something more at the end of its list is typed as before.
LEMMA OwnGrows ==
    ASSUME TypeInv, PolicyInv, next \in Endpoints, step = "custom",
           NEW t \in Seq(Conventions), AddOwn(t)
    PROVE  OwnStays
<1>1. own \in [Endpoints -> Lists] /\ own[next] \in Lists /\ own[next].add \in Seq(Conventions)
  BY DEF TypeInv, Lists
<1>2. own' = [own EXCEPT ![next].add = own[next].add \o t]
  BY DEF AddOwn
<1>3. own[next].add \o t \in Seq(Conventions)
  BY <1>1
<1>4. own' \in [Endpoints -> Lists]
  BY <1>1, <1>2, <1>3 DEF Lists
<1>5. own'[next].add = own[next].add \o t
  BY <1>1, <1>2 DEF Lists
<1>6. StartsWith(own[next].add, Dedicated(next))
  BY DEF PolicyInv, Dressed
<1>7. StartsWith(own[next].add \o t, Dedicated(next))
  BY <1>1, <1>6, PoliciesAreSequences, StartsStay
<1> QED BY <1>1, <1>2, <1>4, <1>5, <1>7 DEF OwnStays

\* So is one that gets something at the end of both of its lists, as a callback adds it.
AddBoth(x) ==
    own' = [own EXCEPT ![next] = [add |-> Append(@.add, x), final |-> Append(@.final, x)]]
LEMMA BothGrow ==
    ASSUME TypeInv, next \in Endpoints, NEW x \in Conventions, AddBoth(x)
    PROVE  /\ own' \in [Endpoints -> Lists]
           /\ own'[next].add = own[next].add \o <<x>>
           /\ own'[next].final = own[next].final \o <<x>>
           /\ \A e \in Endpoints \ {next} : own'[e] = own[e]
<1>1. /\ own \in [Endpoints -> Lists] /\ own[next] \in Lists
      /\ own[next].add \in Seq(Conventions) /\ own[next].final \in Seq(Conventions)
  BY DEF TypeInv, Lists
<1>2. /\ Append(own[next].add, x) = own[next].add \o <<x>>
      /\ Append(own[next].final, x) = own[next].final \o <<x>>
      /\ Append(own[next].add, x) \in Seq(Conventions)
      /\ Append(own[next].final, x) \in Seq(Conventions)
  <2>1. ASSUME NEW s \in Seq(Conventions)
        PROVE  Append(s, x) = s \o <<x>> /\ Append(s, x) \in Seq(Conventions)
    BY AppendIsConcat
  <2> QED BY <1>1, <2>1
<1>3. [add |-> Append(own[next].add, x), final |-> Append(own[next].final, x)] \in Lists
  BY <1>2 DEF Lists
<1>4. own'[next] = [add |-> Append(own[next].add, x), final |-> Append(own[next].final, x)]
  BY <1>1 DEF AddBoth
<1>5. own' \in [Endpoints -> Lists]
  BY <1>1, <1>3 DEF AddBoth
<1> QED BY <1>1, <1>2, <1>4, <1>5 DEF AddBoth

LEMMA OwnGrowsTwice ==
    ASSUME TypeInv, PolicyInv, next \in Endpoints, step = "custom",
           NEW x \in Conventions, AddBoth(x)
    PROVE  OwnStays
<1>1. own[next].add \in Seq(Conventions) /\ <<x>> \in Seq(Conventions)
  BY DEF TypeInv, Lists
<1>2. StartsWith(own[next].add, Dedicated(next))
  BY DEF PolicyInv, Dressed
<1>3. StartsWith(own[next].add \o <<x>>, Dedicated(next))
  BY <1>1, <1>2, PoliciesAreSequences, StartsStay
<1> QED BY <1>3, BothGrow DEF OwnStays

\* The endpoint at hand stays dressed, or is followed by one that is still bare.
LEMMA DressedStays ==
    ASSUME TypeInv, PolicyInv, OwnStays, next \in Endpoints, step = "custom",
           \/ next' = next /\ step' = "custom"
           \/ next' = next + 1 /\ step' = "map"
    PROVE  PolicyInv'
<1> SUFFICES ASSUME NEW e \in Endpoints
             PROVE  IF Dressed(e)' THEN StartsWith(own'[e].add, Dedicated(e))
                    ELSE own'[e] = Empty
  BY DEF PolicyInv, StartsWith, Dedicated, Each, When, Convention, Empty
<1>1. Dressed(e)' <=> Dressed(e)
  BY ContractAssumption DEF Dressed, TypeInv, Endpoints
<1>2. CASE e = next
  BY <1>1, <1>2 DEF OwnStays, Dressed
<1>3. CASE e # next
  BY <1>1, <1>3 DEF OwnStays, PolicyInv
<1> QED BY <1>2, <1>3

\* The mapper's steps on the endpoint it is at.
LEMMA MapperPreserves ==
    ASSUME IInv,
           MapMethods \/ MapMethodsFails \/ ApplyDedicated \/ ApplyCustom \/ CustomPolicyFails \/ FinishOperation
    PROVE  IInv'
<1> USE DEF IInv
<1>0. Len(Contract) \in Nat /\ Endpoints = 1..Len(Contract)
  BY ContractAssumption DEF Endpoints
<1>1. CASE MapMethods
  <2>1. TypeInv'
    BY <1>1 DEF MapMethods, TypeInv, conventions
  <2>2. PhaseInv'
    BY <1>1 DEF MapMethods, PhaseInv, conventions
  <2>3. PolicyInv'
    BY <1>1 DEF MapMethods, PolicyInv, Dressed, conventions
  <2> QED BY <2>1, <2>2, <2>3
<1>2. CASE ApplyDedicated
  <2>0. next \in Endpoints /\ step = "policies" /\ phase = "mapping"
    BY <1>2 DEF ApplyDedicated, PhaseInv
  <2>1. own[next].add = <<>> /\ own[next] \in Lists /\ own \in [Endpoints -> Lists]
    BY <2>0, <1>0 DEF PolicyInv, Dressed, TypeInv, Empty
  <2>2. Dedicated(next) \in Seq(Conventions) /\ Custom(next) \in Seq(Names)
    BY <2>0, PoliciesAreSequences
  <2>3. own' = [own EXCEPT ![next].add = Dedicated(next)]
    BY <1>2, <2>1, <2>2 DEF ApplyDedicated, AddOwn
  <2>4. TypeInv'
    BY <1>2, <2>0, <2>1, <2>2, <2>3 DEF ApplyDedicated, TypeInv, Lists
  <2>5. PhaseInv'
    BY <1>2, <2>0 DEF ApplyDedicated, PhaseInv, Custom
  <2>6. StartsWith(Dedicated(next), Dedicated(next))
    BY <2>2 DEF StartsWith
  <2>7. PolicyInv'
    <3> SUFFICES ASSUME NEW e \in Endpoints
                 PROVE  IF Dressed(e)' THEN StartsWith(own'[e].add, Dedicated(e))
                        ELSE own'[e] = Empty
      BY DEF PolicyInv, StartsWith, Dedicated, Each, When, Convention, Empty
    <3>1. next' = next /\ step' = "custom"
      BY <1>2 DEF ApplyDedicated
    <3>2. CASE e = next
      <4>1. own'[e].add = Dedicated(e)
        BY <3>2, <2>1, <2>3 DEF Lists
      <4>2. Dressed(e)'
        BY <3>1, <3>2 DEF Dressed
      <4> QED BY <4>1, <4>2, <2>6, <3>2
    <3>3. CASE e # next
      <4>1. own'[e] = own[e] /\ (Dressed(e)' <=> Dressed(e))
        BY <3>3, <2>1, <2>3, <3>1 DEF Dressed
      <4> QED BY <4>1 DEF PolicyInv
    <3> QED BY <3>2, <3>3
  <2> QED BY <2>4, <2>5, <2>7
<1>3. CASE ApplyCustom
  <2>0. /\ next \in Endpoints /\ step = "custom" /\ phase = "mapping" /\ pending \in Seq(Names)
        /\ pending # <<>> /\ step' = step /\ next' = next
    BY <1>3 DEF ApplyCustom, PhaseInv, TypeInv
  <2>1. Head(pending) \in Names /\ Tail(pending) \in Seq(Names)
    BY <2>0
  <2>2. Convention("custom", Head(pending)) \in Conventions
    BY <2>1 DEF Convention, Conventions, Kinds
  <2>3. AddBoth(Convention("custom", Head(pending)))
    BY <1>3 DEF ApplyCustom, AddBoth
  <2>4. OwnStays
    BY <2>0, <2>2, <2>3, OwnGrowsTwice
  <2>5. TypeInv'
    BY <1>3, <2>1, <2>4 DEF ApplyCustom, TypeInv, OwnStays
  <2>6. PhaseInv'
    BY <1>3, <2>0 DEF ApplyCustom, PhaseInv, Custom
  <2>7. PolicyInv'
    BY <2>0, <2>4, DressedStays
  <2> QED BY <2>5, <2>6, <2>7
<1>4. CASE CustomPolicyFails
  <2>1. step # "policies" /\ host = <<>> /\ Custom(next) # <<>> /\ Throws
    BY <1>4 DEF CustomPolicyFails, PhaseInv
  <2> QED BY <2>1, ThrowsPreserves
<1>5. CASE FinishOperation
  <2>0. /\ next \in Endpoints /\ step = "custom" /\ phase = "mapping"
        /\ step' = "map" /\ next' = next + 1 /\ AddOwn(Timeout(next))
    BY <1>5 DEF FinishOperation, PhaseInv
  <2>1. Timeout(next) \in Seq(Conventions)
    BY <2>0, PoliciesAreSequences
  <2>2. OwnStays
    BY <2>0, <2>1, OwnGrows
  <2>3. TypeInv'
    BY <1>0, <1>5, <2>0, <2>2 DEF FinishOperation, TypeInv, OwnStays
  <2>4. PhaseInv'
    BY <1>5, <2>0 DEF FinishOperation, PhaseInv
  <2>5. PolicyInv'
    BY <1>0, <2>0, <2>2, DressedStays
  <2> QED BY <2>3, <2>4, <2>5
<1>6. CASE MapMethodsFails
  <2>1. step = "map" /\ host = <<>> /\ Throws
    BY <1>6 DEF MapMethodsFails, PhaseInv
  <2> QED BY <2>1, ThrowsPreserves
<1> QED BY <1>1, <1>2, <1>3, <1>4, <1>5, <1>6

\* What the host adds comes after what the mappers did.
LEMMA HostPreserves ==
    ASSUME IInv, NEW scope \in Scopes, NEW list \in {"add", "final"}, Add(scope, list)
    PROVE  IInv'
<1> USE DEF IInv
<1> DEFINE added == [kind |-> "host", scope |-> scope, list |-> list, call |-> Len(host)]
<1>1. host \in Seq(Conventions) /\ own \in [Endpoints -> Lists]
  BY DEF TypeInv
<1>2. added \in Conventions
  BY <1>1 DEF Conventions
<1>3. PICK holders : own' = Added(own, holders, list, added) \/ own' = own
  BY DEF Add
<1>4. /\ phase \in {"configuring", "returned"} /\ host' = Append(host, added)
      /\ UNCHANGED <<phase, next, step, pending, registered>>
  BY DEF Add, mapper
<1> HIDE DEF added
<1>5. \A e \in Endpoints :
        /\ own'[e] \in Lists
        /\ own'[e].add = own[e].add \/ own'[e].add = own[e].add \o <<added>>
  <2> SUFFICES ASSUME NEW e \in Endpoints
               PROVE  /\ own'[e] \in Lists
                      /\ own'[e].add = own[e].add \/ own'[e].add = own[e].add \o <<added>>
    OBVIOUS
  <2>1. own[e] \in Lists /\ own[e].add \in Seq(Conventions) /\ own[e].final \in Seq(Conventions)
    BY <1>1 DEF Lists
  <2>2. own'[e] = own[e] \/ own'[e] = [own[e] EXCEPT ![list] = Append(@, added)]
    BY <1>1, <1>3 DEF Added
  <2>3. Append(own[e].add, added) = own[e].add \o <<added>>
    BY <2>1, <1>2, AppendIsConcat
  <2>4. /\ Append(own[e].add, added) \in Seq(Conventions)
        /\ Append(own[e].final, added) \in Seq(Conventions)
    BY <2>1, <1>2
  <2> QED BY <2>1, <2>2, <2>3, <2>4 DEF Lists
<1>6. own' \in [Endpoints -> Lists]
  BY <1>1, <1>3, <1>5 DEF Added
<1>7. TypeInv'
  BY <1>1, <1>2, <1>4, <1>6 DEF TypeInv
<1>8. PhaseInv'
  BY <1>4 DEF PhaseInv, Custom
<1>9. PolicyInv'
  <2> SUFFICES ASSUME NEW e \in Endpoints
               PROVE  Dressed(e) /\ Dressed(e)' /\ StartsWith(own'[e].add, Dedicated(e))
    BY DEF PolicyInv, StartsWith, Dedicated, Each, When, Convention, Empty
  <2>1. Dressed(e) /\ Dressed(e)'
    BY <1>4, ContractAssumption DEF PhaseInv, TypeInv, Endpoints, Dressed
  <2>2. StartsWith(own[e].add, Dedicated(e))
    BY <2>1 DEF PolicyInv
  <2>3. own[e].add \in Seq(Conventions) /\ <<added>> \in Seq(Conventions)
    BY <1>1, <1>2 DEF Lists
  <2>4. StartsWith(own[e].add \o <<added>>, Dedicated(e))
    BY <2>2, <2>3, PoliciesAreSequences, StartsStay
  <2> QED BY <2>1, <2>2, <2>4, <1>5
<1> QED BY <1>7, <1>8, <1>9

\* Every step preserves the invariant.
LEMMA StepPreserves == ASSUME IInv, [Next]_vars PROVE IInv'
<1>1. CASE UNCHANGED vars
  BY <1>1 DEF vars, mapper, conventions, IInv, TypeInv, PhaseInv, PolicyInv, Dressed
<1>2. CASE MapMethods \/ MapMethodsFails \/ ApplyDedicated \/ ApplyCustom \/ CustomPolicyFails \/ FinishOperation
  BY <1>2, MapperPreserves
<1>3. CASE Configure \/ Return
  <2>1. TypeInv'
    BY <1>3 DEF Configure, Return, mapper, conventions, IInv, TypeInv
  <2>2. PhaseInv'
    BY <1>3 DEF Configure, Return, mapper, conventions, IInv, PhaseInv
  <2>3. PolicyInv'
    BY <1>3 DEF Configure, Return, mapper, conventions, IInv, PolicyInv, Dressed
  <2> QED BY <2>1, <2>2, <2>3 DEF IInv
<1>4. ASSUME NEW scope \in Scopes, LookupFails(scope) PROVE IInv'
  <2>1. step # "policies" /\ next \notin Endpoints /\ Throws
    BY <1>4 DEF LookupFails, IInv, PhaseInv
  <2> QED BY <2>1, ThrowsPreserves
<1>5. ASSUME NEW scope \in Scopes, NEW list \in {"add", "final"}, Add(scope, list) PROVE IInv'
  BY <1>5, HostPreserves
<1> QED BY <1>1, <1>2, <1>3, <1>4, <1>5 DEF Next

-----------------------------------------------------------------------------
(* What is selected of a sequence, by induction over its length.            *)

\* Induction over the numbers, for a set of them.
LEMMA NumbersByInduction ==
    ASSUME NEW T \in SUBSET Nat, 0 \in T, \A n \in T : n + 1 \in T
    PROVE  T = Nat
<1> SUFFICES ASSUME Nat \ T # {}
             PROVE  FALSE
  OBVIOUS
<1>1. PICK n \in Nat \ T : \A m \in Nat \ T : <<m, n>> \notin OpToRel(<, Nat)
  BY NatLessThanWellFounded, WFMin
<1>2. \A m \in Nat \ T : ~(m < n)
  BY <1>1 DEF OpToRel
<1>3. n \in Nat /\ n \notin T /\ n # 0
  OBVIOUS
<1>4. n - 1 \in Nat /\ n - 1 < n /\ (n - 1) + 1 = n
  BY <1>3
<1> QED BY <1>2, <1>3, <1>4

\* What Selected computes, place by place.
Chooses(f, s, places, n) ==
    f = [m \in 0..n |->
            IF m = 0 THEN <<>>
            ELSE IF m \in places THEN Append(f[m - 1], s[m]) ELSE f[m - 1]]

\* There is such a function, up to every place.
LEMMA ChoicesExist ==
    ASSUME NEW s, NEW places, NEW n \in Nat
    PROVE  \E f : Chooses(f, s, places, n)
<1> DEFINE T == {k \in Nat : \E f : Chooses(f, s, places, k)}
<1>1. 0 \in T
  <2> DEFINE f == [m \in 0..0 |-> <<>>]
  <2>1. Chooses(f, s, places, 0)
    BY DEF Chooses
  <2> QED BY <2>1
<1>2. ASSUME NEW k \in T PROVE k + 1 \in T
  <2>1. PICK f : Chooses(f, s, places, k)
    OBVIOUS
  <2> DEFINE g == [m \in 0..(k + 1) |->
                      IF m <= k THEN f[m]
                      ELSE IF m \in places THEN Append(f[k], s[m]) ELSE f[k]]
             h == [m \in 0..(k + 1) |->
                      IF m = 0 THEN <<>>
                      ELSE IF m \in places THEN Append(g[m - 1], s[m]) ELSE g[m - 1]]
  <2>2. ASSUME NEW m \in 0..(k + 1) PROVE g[m] = h[m]
    <3>1. CASE m = k + 1
      <4>1. m # 0 /\ m - 1 = k /\ k \in 0..(k + 1) /\ ~(m <= k)
        BY <3>1
      <4>2. g[k] = f[k]
        BY <4>1
      <4> QED BY <4>1, <4>2
    <3>2. CASE m \in 1..k
      <4>1. m # 0 /\ m - 1 \in 0..(k + 1) /\ m - 1 <= k /\ m <= k /\ m \in 0..k
        BY <3>2
      <4>2. g[m] = f[m] /\ g[m - 1] = f[m - 1]
        BY <4>1
      <4>3. f[m] = IF m \in places THEN Append(f[m - 1], s[m]) ELSE f[m - 1]
        BY <2>1, <4>1 DEF Chooses
      <4>4. h[m] = IF m \in places THEN Append(g[m - 1], s[m]) ELSE g[m - 1]
        BY <4>1
      <4> QED BY <4>2, <4>3, <4>4
    <3>3. CASE m = 0
      <4>1. f[0] = <<>>
        BY <2>1 DEF Chooses
      <4> QED BY <3>3, <4>1
    <3> QED BY <3>1, <3>2, <3>3
  <2>3. g = h
    BY <2>2
  <2>4. Chooses(g, s, places, k + 1)
    BY <2>3 DEF Chooses
  <2> QED BY <2>4
<1> HIDE DEF T
<1>3. T = Nat
  <2>1. T \in SUBSET Nat
    BY DEF T
  <2> QED BY <1>1, <1>2, <2>1, NumbersByInduction
<1> QED BY <1>3 DEF T

\* Two of them agree as far as they are about the same elements.
LEMMA ChoicesAgree ==
    ASSUME NEW s, NEW t, NEW P, NEW Q, NEW a \in Nat, NEW b \in Nat, a <= b,
           NEW f, NEW g, Chooses(f, s, P, a), Chooses(g, t, Q, b),
           \A n \in 1..a : s[n] = t[n] /\ (n \in P <=> n \in Q)
    PROVE  f[a] = g[a]
<1> DEFINE T == {k \in Nat : k <= a => f[k] = g[k]}
<1>1. 0 \in T
  BY DEF Chooses
<1>2. ASSUME NEW k \in T PROVE k + 1 \in T
  <2>1. SUFFICES ASSUME k + 1 <= a PROVE f[k + 1] = g[k + 1]
    OBVIOUS
  <2>2. /\ k + 1 \in 1..a /\ k + 1 \in 0..a /\ k + 1 \in 0..b
        /\ (k + 1) - 1 = k /\ k + 1 # 0 /\ k <= a
    BY <2>1
  <2>3. f[k] = g[k]
    BY <2>2
  <2>4. f[k + 1] = IF k + 1 \in P THEN Append(f[k], s[k + 1]) ELSE f[k]
    BY <2>2 DEF Chooses
  <2>5. g[k + 1] = IF k + 1 \in Q THEN Append(g[k], t[k + 1]) ELSE g[k]
    BY <2>2 DEF Chooses
  <2> QED BY <2>2, <2>3, <2>4, <2>5
<1> HIDE DEF T
<1>3. T = Nat
  <2>1. T \in SUBSET Nat
    BY DEF T
  <2> QED BY <1>1, <1>2, <2>1, NumbersByInduction
<1> QED BY <1>3 DEF T

\* Selected is its last value.
LEMMA SelectedIsChosen ==
    ASSUME NEW S, NEW s \in Seq(S), NEW places
    PROVE  \E f : Chooses(f, s, places, Len(s)) /\ Selected(s, places) = f[Len(s)]
<1> DEFINE f == CHOOSE f : Chooses(f, s, places, Len(s))
<1>1. Chooses(f, s, places, Len(s))
  <2>1. Len(s) \in Nat
    OBVIOUS
  <2> QED BY <2>1, ChoicesExist
<1>2. Selected(s, places) = f[Len(s)]
  BY Zenon DEF Selected, Chooses
<1> QED BY <1>1, <1>2

\* Of nothing, nothing is selected.
LEMMA NothingSelected ==
    ASSUME NEW places PROVE Selected(<<>>, places) = <<>>
<1>1. PICK f : Chooses(f, <<>>, places, Len(<<>>)) /\ Selected(<<>>, places) = f[Len(<<>>)]
  <2>1. <<>> \in Seq({})
    OBVIOUS
  <2> QED BY <2>1, SelectedIsChosen
<1>2. Len(<<>>) = 0 /\ 0 \in 0..0
  OBVIOUS
<1> QED BY <1>1, <1>2 DEF Chooses

\* An element added at the end is selected after the others, or not at all.
LEMMA SelectedGrows ==
    ASSUME NEW S, NEW s \in Seq(S), NEW x \in S, NEW P, NEW Q,
           \A n \in 1..Len(s) : n \in P <=> n \in Q
    PROVE  Selected(Append(s, x), Q) =
               IF Len(s) + 1 \in Q THEN Append(Selected(s, P), x) ELSE Selected(s, P)
<1> DEFINE t == Append(s, x)
           a == Len(s)
<1>1. /\ t \in Seq(S) /\ Len(t) = a + 1 /\ t[a + 1] = x /\ a \in Nat
      /\ \A n \in 1..a : t[n] = s[n]
  OBVIOUS
<1> HIDE DEF t, a
<1>2. PICK f : Chooses(f, s, P, a) /\ Selected(s, P) = f[a]
  BY SelectedIsChosen DEF a
<1>3. PICK g : Chooses(g, t, Q, a + 1) /\ Selected(t, Q) = g[a + 1]
  BY <1>1, SelectedIsChosen
<1>4. f[a] = g[a]
  <2>1. \A n \in 1..a : s[n] = t[n] /\ (n \in P <=> n \in Q)
    BY <1>1 DEF a
  <2>2. a \in Nat /\ a + 1 \in Nat /\ a <= a + 1
    BY <1>1
  <2> QED BY <1>2, <1>3, <2>1, <2>2, ChoicesAgree
<1>5. g[a + 1] = IF a + 1 \in Q THEN Append(g[a], t[a + 1]) ELSE g[a]
  <2>1. a + 1 \in 0..(a + 1) /\ a + 1 # 0 /\ (a + 1) - 1 = a
    BY <1>1
  <2> QED BY <1>3, <2>1 DEF Chooses
<1>6. Selected(t, Q) = IF a + 1 \in Q THEN Append(Selected(s, P), x) ELSE Selected(s, P)
  BY <1>1, <1>2, <1>3, <1>4, <1>5
<1> QED BY <1>6 DEF t, a

\* What is selected of a sequence is one.
LEMMA SelectedIsSequence ==
    ASSUME NEW S, NEW s \in Seq(S), NEW places
    PROVE  Selected(s, places) \in Seq(S)
<1> DEFINE a == Len(s)
<1>0. a \in Nat /\ \A n \in 1..a : s[n] \in S
  OBVIOUS
<1>1. PICK f : Chooses(f, s, places, a) /\ Selected(s, places) = f[a]
  BY SelectedIsChosen
<1> HIDE DEF a
<1> DEFINE T == {k \in Nat : k <= a => f[k] \in Seq(S)}
<1>2. 0 \in T
  BY <1>0, <1>1 DEF Chooses
<1>3. ASSUME NEW k \in T PROVE k + 1 \in T
  <2> SUFFICES ASSUME k + 1 <= a PROVE f[k + 1] \in Seq(S)
    OBVIOUS
  <2>1. k + 1 \in 0..a /\ (k + 1) - 1 = k /\ k + 1 # 0 /\ k <= a /\ k + 1 \in 1..a
    BY <1>0
  <2>2. f[k] \in Seq(S) /\ s[k + 1] \in S
    BY <2>1, <1>0
  <2>3. f[k + 1] = IF k + 1 \in places THEN Append(f[k], s[k + 1]) ELSE f[k]
    BY <1>1, <2>1 DEF Chooses
  <2> QED BY <2>2, <2>3
<1> HIDE DEF T
<1>4. T = Nat
  <2>1. T \in SUBSET Nat
    BY DEF T
  <2> QED BY <1>2, <1>3, <2>1, NumbersByInduction
<1> QED BY <1>0, <1>1, <1>4 DEF T

-----------------------------------------------------------------------------
(* What each endpoint has at every moment.                                  *)

\* The builders of methods hold the endpoints that are mapped, and a service is in
\* the registry with its last operation.
FiledInv ==
    /\ operations = {e \in Endpoints : e < next}
    /\ services = {s \in Services : \A e \in Endpoints : Contract[e].service = s => e < next}

\* What an endpoint has, and what remains to be applied, is what was promised; all else
\* was asked by the host.
Given(e) ==
    /\ e < next => own[e].add = Promised(e) \o Asked(e, FALSE, "add")
    /\ e = next /\ step = "custom" =>
          own[e].add \o Each("custom", pending) \o Timeout(e) = Promised(e)
    /\ e < next => own[e].final = PromisedFinally(e) \o Asked(e, FALSE, "final")
    /\ e = next /\ step = "custom" =>
          own[e].final \o Each("custom", pending) = PromisedFinally(e)
    /\ group[Contract[e].service].add = Asked(e, TRUE, "add")
    /\ group[Contract[e].service].final = Asked(e, TRUE, "final")

ScopeInv ==
    /\ group \in [Services -> Lists]
    /\ FiledInv
    /\ \A e \in Endpoints : Given(e)

\* The policies of an endpoint are a list.
LEMMA PromisesAreSequences ==
    ASSUME NEW e \in Endpoints
    PROVE  Promised(e) \in Seq(Conventions) /\ PromisedFinally(e) \in Seq(Conventions)
<1>1. /\ Dedicated(e) \in Seq(Conventions) /\ Timeout(e) \in Seq(Conventions)
      /\ Each("custom", Custom(e)) \in Seq(Conventions)
  BY PoliciesAreSequences, EachIsSequence DEF Kinds
<1> QED BY <1>1 DEF Promised, PromisedFinally

\* Three lists in a row are one.
LEMMA ListsRegroup ==
    ASSUME NEW p \in Seq(Conventions), NEW q \in Seq(Conventions), NEW s \in Seq(Conventions)
    PROVE  p \o (q \o s) = p \o q \o s
BY ConcatAssociative

\* What is appended to two lists in a row is appended to the second.
LEMMA AppendsToTheSecond ==
    ASSUME NEW p \in Seq(Conventions), NEW q \in Seq(Conventions), NEW x \in Conventions
    PROVE  Append(p \o q, x) = p \o Append(q, x)
<1>1. /\ Append(p \o q, x) = (p \o q) \o <<x>>
      /\ Append(q, x) = q \o <<x>> /\ <<x>> \in Seq(Conventions)
  BY AppendIsConcat
<1>2. (p \o q) \o <<x>> = p \o (q \o <<x>>)
  BY <1>1, ConcatAssociative
<1> QED BY <1>1, <1>2

\* The conventions of a list of names are the first one's and then the others'.
LEMMA EachSplits ==
    ASSUME NEW kind \in Kinds, NEW names \in Seq(Names), names # <<>>
    PROVE  Each(kind, names) = <<Convention(kind, Head(names))>> \o Each(kind, Tail(names))
<1> DEFINE n == Len(names)
           t == Tail(names)
           c == <<Convention(kind, Head(names))>>
<1>1. /\ n \in Nat /\ n # 0 /\ DOMAIN names = 1..n /\ Head(names) = names[1]
      /\ t \in Seq(Names) /\ Len(t) = n - 1 /\ \A i \in 1..(n - 1) : t[i] = names[i + 1]
  BY HeadTailProperties
<1>2. Each(kind, names) \in Seq(Conventions) /\ Each(kind, t) \in Seq(Conventions)
  BY <1>1, EachIsSequence
<1>3. c \in Seq(Conventions) /\ Len(c) = 1 /\ c[1] = Convention(kind, Head(names))
  <2>1. Convention(kind, Head(names)) \in Conventions
    BY <1>1 DEF Convention, Conventions
  <2> QED BY <2>1
<1> HIDE DEF n, t, c
<1>4. /\ Len(Each(kind, names)) = n
      /\ \A i \in 1..n : Each(kind, names)[i] = Convention(kind, names[i])
      /\ Len(Each(kind, t)) = n - 1
      /\ \A i \in 1..(n - 1) : Each(kind, t)[i] = Convention(kind, t[i])
  <2>1. DOMAIN t = 1..(n - 1) /\ n - 1 \in Nat
    BY <1>1
  <2> QED BY <1>1, <1>2, <2>1 DEF Each
<1>5. /\ c \o Each(kind, t) \in Seq(Conventions) /\ Len(c \o Each(kind, t)) = n
      /\ \A i \in 1..n : (c \o Each(kind, t))[i] = IF i = 1 THEN c[1] ELSE Each(kind, t)[i - 1]
  <2> DEFINE r == Each(kind, t)
  <2>1. r \in Seq(Conventions) /\ c \in Seq(Conventions) /\ Len(r) = n - 1 /\ Len(c) = 1
    BY <1>2, <1>3, <1>4
  <2> HIDE DEF r
  <2>2. /\ c \o r \in Seq(Conventions) /\ Len(c \o r) = Len(c) + Len(r)
        /\ \A i \in 1..(Len(c) + Len(r)) :
              (c \o r)[i] = IF i <= Len(c) THEN c[i] ELSE r[i - Len(c)]
    BY <2>1, ConcatProperties
  <2>3. Len(c) + Len(r) = n
    BY <1>1, <2>1
  <2>4. ASSUME NEW i \in 1..n PROVE (c \o r)[i] = IF i = 1 THEN c[1] ELSE r[i - 1]
    <3>1. i <= 1 <=> i = 1
      BY <1>1
    <3> QED BY <2>1, <2>2, <2>3, <3>1
  <2> QED BY <2>2, <2>3, <2>4 DEF r
<1>6. \A i \in 1..n : Each(kind, names)[i] = (c \o Each(kind, t))[i]
  <2> SUFFICES ASSUME NEW i \in 1..n PROVE Each(kind, names)[i] = (c \o Each(kind, t))[i]
    OBVIOUS
  <2>1. CASE i = 1
    BY <2>1, <1>1, <1>3, <1>4, <1>5
  <2>2. CASE i # 1
    <3>1. i - 1 \in 1..(n - 1) /\ (i - 1) + 1 = i
      BY <2>2, <1>1
    <3> QED BY <2>2, <3>1, <1>1, <1>4, <1>5
  <2> QED BY <2>1, <2>2
<1>7. Each(kind, names) = c \o Each(kind, t)
  <2> DEFINE l == Each(kind, names)
             r == c \o Each(kind, t)
  <2>1. /\ l \in Seq(Conventions) /\ r \in Seq(Conventions) /\ Len(l) = n /\ Len(r) = n
        /\ \A i \in 1..n : l[i] = r[i]
    BY <1>2, <1>4, <1>5, <1>6
  <2> HIDE DEF l, r
  <2>2. l = r
    BY <2>1, SeqEqual
  <2> QED BY <2>2 DEF l, r
<1> QED BY <1>7 DEF c, t

\* Of an endpoint nothing is asked before the host speaks.
LEMMA AskedOfNobody ==
    ASSUME host = <<>>, NEW e, NEW broad, NEW list
    PROVE  Asked(e, broad, list) = <<>>
BY NothingSelected DEF Asked

\* What was asked of an endpoint changes only with what the host has added.
LEMMA AskedStays ==
    ASSUME host' = host, NEW e \in Endpoints, NEW broad \in BOOLEAN, NEW list \in {"add", "final"}
    PROVE  Asked(e, broad, list)' = Asked(e, broad, list)
BY DEF Asked, IsAsked, Covers, Broad

\* What was asked of an endpoint is a list of conventions.
LEMMA AskedIsSequence ==
    ASSUME TypeInv, NEW e, NEW broad, NEW list
    PROVE  Asked(e, broad, list) \in Seq(Conventions)
BY SelectedIsSequence DEF Asked, TypeInv

\* A convention of the host's is asked, after the others, of the endpoints its scope covers.
LEMMA AskedGrows ==
    ASSUME TypeInv, NEW x \in Conventions, host' = Append(host, x),
           NEW e \in Endpoints, NEW broad \in BOOLEAN, NEW list \in {"add", "final"}
    PROVE  Asked(e, broad, list)' =
               IF IsAsked(x, e, broad, list) THEN Append(Asked(e, broad, list), x)
               ELSE Asked(e, broad, list)
<1> DEFINE t == Append(host, x)
           P == {n \in DOMAIN host : IsAsked(host[n], e, broad, list)}
           Q == {n \in DOMAIN t : IsAsked(t[n], e, broad, list)}
<1>1. /\ host \in Seq(Conventions) /\ DOMAIN host = 1..Len(host) /\ Len(host) \in Nat
      /\ DOMAIN t = 1..(Len(host) + 1) /\ t[Len(host) + 1] = x
      /\ \A n \in 1..Len(host) : t[n] = host[n]
  BY DEF TypeInv
<1>2. Asked(e, broad, list) = Selected(host, P)
  BY DEF Asked
<1>3. Asked(e, broad, list)' = Selected(t, Q)
  BY DEF Asked, IsAsked, Covers, Broad
<1>4. \A n \in 1..Len(host) : n \in P <=> n \in Q
  BY <1>1
<1>5. Len(host) + 1 \in Q <=> IsAsked(x, e, broad, list)
  BY <1>1
<1> HIDE DEF P, Q
<1>6. Selected(t, Q) = IF Len(host) + 1 \in Q THEN Append(Selected(host, P), x)
                       ELSE Selected(host, P)
  BY <1>1, <1>4, SelectedGrows
<1> QED BY <1>2, <1>3, <1>5, <1>6

-----------------------------------------------------------------------------

\* Before the mapping nothing was given and nothing filed.
LEMMA InitGives == ASSUME Init PROVE ScopeInv
<1>1. Len(Contract) \in Nat /\ Endpoints = 1..Len(Contract)
  BY ContractAssumption DEF Endpoints
<1>2. group \in [Services -> Lists]
  BY DEF Init, Empty, Lists
<1>3. FiledInv
  <2>1. {e \in Endpoints : e < next} = {}
    BY <1>1 DEF Init
  <2>2. {s \in Services : \A e \in Endpoints : Contract[e].service = s => e < next} = {}
    BY <1>1 DEF Init, Services
  <2> QED BY <2>1, <2>2 DEF Init, FiledInv
<1>4. ASSUME NEW e \in Endpoints PROVE Given(e)
  <2>1. \A broad \in BOOLEAN, list \in {"add", "final"} : Asked(e, broad, list) = <<>>
    BY AskedOfNobody DEF Init
  <2>2. own[e] = Empty /\ group[Contract[e].service] = Empty
    BY DEF Init, Services
  <2>3. ~(e < next) /\ step # "custom"
    BY <1>1 DEF Init
  <2>4. /\ Asked(e, FALSE, "final") = <<>>
        /\ Asked(e, TRUE, "add") = <<>> /\ Asked(e, TRUE, "final") = <<>>
    BY <2>1
  <2>5. Empty.add = <<>> /\ Empty.final = <<>>
    BY DEF Empty
  <2>6. /\ group[Contract[e].service].add = Asked(e, TRUE, "add")
        /\ group[Contract[e].service].final = Asked(e, TRUE, "final")
    BY <2>2, <2>4, <2>5, Zenon
  <2> QED BY <2>3, <2>6 DEF Given
<1> QED BY <1>2, <1>3, <1>4 DEF ScopeInv

\* Where the host has not spoken, an endpoint has what the mapper gave it.
LEMMA MapperGives ==
    ASSUME TypeInv, ScopeInv, host' = host, group' = group,
           NEW e \in Endpoints,
           e < next' => /\ own'[e].add = Promised(e) \o Asked(e, FALSE, "add")
                        /\ own'[e].final = PromisedFinally(e) \o Asked(e, FALSE, "final"),
           e = next' /\ step' = "custom" =>
              /\ own'[e].add \o Each("custom", pending') \o Timeout(e) = Promised(e)
              /\ own'[e].final \o Each("custom", pending') = PromisedFinally(e)
    PROVE  Given(e)'
<1>1. \A broad \in BOOLEAN, list \in {"add", "final"} :
        Asked(e, broad, list)' = Asked(e, broad, list)
  BY AskedStays
<1>2. Given(e)
  BY DEF ScopeInv
<1>3. Promised(e)' = Promised(e) /\ Timeout(e)' = Timeout(e)
      /\ PromisedFinally(e)' = PromisedFinally(e)
      /\ Each("custom", pending)' = Each("custom", pending')
  BY DEF Promised, PromisedFinally, Dedicated, Custom, Timeout, Each, When, Convention
<1> QED BY <1>1, <1>2, <1>3 DEF Given

\* A step that applies nothing changes nothing of it.
LEMMA IdleGives ==
    ASSUME TypeInv, ScopeInv,
           UNCHANGED <<conventions, host, next, pending, operations, services>>,
           step' = step \/ step' = "policies"
    PROVE  ScopeInv'
<1> USE DEF conventions
<1>1. FiledInv'
  BY DEF ScopeInv, FiledInv
<1>2. ASSUME NEW e \in Endpoints PROVE Given(e)'
  <2>1. Given(e)
    BY DEF ScopeInv
  <2> QED BY <2>1, MapperGives DEF Given
<1> QED BY <1>1, <1>2 DEF ScopeInv

\* A mapper leaves the endpoints it is not at as they are.
LEMMA OthersAreLeft ==
    ASSUME TypeInv, ScopeInv, host' = host, group' = group, next \in Endpoints,
           own' = [own EXCEPT ![next] = own'[next]],
           next' \in {next, next + 1}, next' = next + 1 => step' = "map",
           NEW e \in Endpoints \ {next}
    PROVE  Given(e)'
<1>1. own'[e] = own[e]
  BY DEF TypeInv
<1>2. (e < next' => e < next) /\ ~(e = next' /\ step' = "custom")
  <2>1. e \in Nat /\ next \in Nat /\ e # next
    BY ContractAssumption DEF TypeInv, Endpoints
  <2> QED BY <2>1
<1>3. Given(e)
  BY DEF ScopeInv
<1> QED BY <1>1, <1>2, <1>3, MapperGives DEF Given

\* The dedicated policies come first.
LEMMA ApplyDedicatedGives ==
    ASSUME IInv, ScopeInv, ApplyDedicated
    PROVE  ScopeInv'
<1> USE DEF IInv
<1>1. next \in Endpoints /\ step = "policies" /\ next' = next /\ step' = "custom"
  BY DEF ApplyDedicated, PhaseInv
<1>2. /\ own \in [Endpoints -> Lists] /\ own[next] \in Lists
      /\ own[next].add = <<>> /\ own[next].final = <<>>
  BY <1>1, ContractAssumption DEF PolicyInv, Dressed, TypeInv, Endpoints, Empty
<1>3. /\ Dedicated(next) \in Seq(Conventions) /\ AddOwn(Dedicated(next))
      /\ host' = host /\ group' = group /\ pending' = Custom(next)
      /\ UNCHANGED <<operations, services>>
  BY <1>1, PoliciesAreSequences DEF ApplyDedicated
<1>4. own[next].add \o Dedicated(next) = Dedicated(next)
  BY <1>2, <1>3
<1>5. /\ own'[next].final = <<>> /\ own'[next].add = Dedicated(next)
      /\ own' = [own EXCEPT ![next] = own'[next]]
  <2>1. own' = [own EXCEPT ![next].add = Dedicated(next)]
    BY <1>3, <1>4 DEF AddOwn
  <2> QED BY <1>1, <1>2, <2>1 DEF Lists
<1>6. ASSUME NEW e \in Endpoints PROVE Given(e)'
  <2>1. CASE e = next
    <3>1. ~(e < next')
      BY <1>1, <2>1, ContractAssumption DEF Endpoints
    <3>2. own'[e].add \o Each("custom", pending') \o Timeout(e) = Promised(e)
      BY <1>3, <1>5, <2>1 DEF Promised
    <3>3. own'[e].final \o Each("custom", pending') = PromisedFinally(e)
      <4>1. Each("custom", Custom(next)) \in Seq(Conventions)
        BY <1>1, PoliciesAreSequences, EachIsSequence DEF Kinds
      <4>2. <<>> \o Each("custom", Custom(next)) = Each("custom", Custom(next))
        BY <4>1, ConcatEmptySeq
      <4> QED BY <1>3, <1>5, <2>1, <4>2 DEF PromisedFinally
    <3> QED BY <1>3, <2>1, <3>1, <3>2, <3>3, MapperGives
  <2>2. CASE e # next
    <3>1. next' # next + 1
      BY <1>1, ContractAssumption DEF Endpoints
    <3> QED BY <1>1, <1>3, <1>5, <2>2, <3>1, OthersAreLeft
  <2> QED BY <2>1, <2>2
<1>7. FiledInv'
  BY <1>1, <1>3 DEF ScopeInv, FiledInv
<1> QED BY <1>3, <1>6, <1>7 DEF ScopeInv

\* Then the custom policies, one after the other.
LEMMA ApplyCustomGives ==
    ASSUME IInv, ScopeInv, ApplyCustom
    PROVE  ScopeInv'
<1> USE DEF IInv
<1> DEFINE c == <<Convention("custom", Head(pending))>>
           a == own[next].add
           f == own[next].final
           r == Each("custom", Tail(pending))
           u == Timeout(next)
<1>1. /\ next \in Endpoints /\ step = "custom" /\ next' = next /\ step' = step
      /\ pending \in Seq(Names) /\ pending # <<>> /\ pending' = Tail(pending)
      /\ AddBoth(Convention("custom", Head(pending)))
      /\ host' = host /\ group' = group /\ UNCHANGED <<operations, services>>
  BY DEF ApplyCustom, AddBoth, PhaseInv, TypeInv
<1>2. /\ own \in [Endpoints -> Lists] /\ own[next] \in Lists
      /\ a \in Seq(Conventions) /\ f \in Seq(Conventions)
  BY <1>1 DEF TypeInv, Lists
<1>3. Head(pending) \in Names /\ Tail(pending) \in Seq(Names)
  BY <1>1
<1>4. Convention("custom", Head(pending)) \in Conventions /\ c \in Seq(Conventions)
  <2>1. Convention("custom", Head(pending)) \in Conventions
    BY <1>3 DEF Convention, Conventions, Kinds
  <2> QED BY <2>1
<1>5. r \in Seq(Conventions) /\ u \in Seq(Conventions)
  BY <1>1, <1>3, EachIsSequence, PoliciesAreSequences DEF Kinds
<1>6. Each("custom", pending) = c \o r
  BY <1>1, EachSplits DEF Kinds
<1>7. a \o (c \o r) \o u = Promised(next) /\ f \o (c \o r) = PromisedFinally(next)
  BY <1>1, <1>6 DEF ScopeInv, Given
<1>0. /\ own'[next].add = a \o c /\ own'[next].final = f \o c
      /\ own' = [own EXCEPT ![next] = own'[next]]
  <2>1. /\ own' \in [Endpoints -> Lists] /\ own'[next].add = a \o c /\ own'[next].final = f \o c
        /\ \A e \in Endpoints \ {next} : own'[e] = own[e]
    BY <1>1, <1>4, BothGrow
  <2> QED BY <1>1, <1>2, <2>1
<1> HIDE DEF c, a, r, u, f
<1>8. (a \o c) \o r \o u = Promised(next)
  <2>1. (a \o c) \o r = a \o (c \o r)
    BY <1>2, <1>4, <1>5, ConcatAssociative
  <2> QED BY <1>7, <2>1
<1>9. (f \o c) \o r = PromisedFinally(next)
  <2>1. (f \o c) \o r = f \o (c \o r)
    BY <1>2, <1>4, <1>5, ConcatAssociative
  <2> QED BY <1>7, <2>1
<1>10. ASSUME NEW e \in Endpoints PROVE Given(e)'
  <2>1. CASE e = next
    <3>1. ~(e < next')
      BY <1>1, <2>1, ContractAssumption DEF Endpoints
    <3>2. own'[e].add \o Each("custom", pending') \o Timeout(e) = Promised(e)
      BY <1>0, <1>1, <1>8, <2>1 DEF r, u
    <3>3. own'[e].final \o Each("custom", pending') = PromisedFinally(e)
      BY <1>0, <1>1, <1>9, <2>1 DEF r
    <3> QED BY <1>1, <2>1, <3>1, <3>2, <3>3, MapperGives
  <2>2. CASE e # next
    <3>1. next' # next + 1
      BY <1>1, ContractAssumption DEF Endpoints
    <3> QED BY <1>0, <1>1, <2>2, <3>1, OthersAreLeft
  <2> QED BY <2>1, <2>2
<1>11. FiledInv'
  BY <1>1 DEF ScopeInv, FiledInv
<1> QED BY <1>1, <1>10, <1>11 DEF ScopeInv

\* The timeout comes last, and the registry is filed with the last endpoint.
LEMMA FinishGives ==
    ASSUME IInv, ScopeInv, FinishOperation
    PROVE  ScopeInv'
<1> USE DEF IInv
<1> DEFINE a == own[next].add
           u == Timeout(next)
<1>1. /\ next \in Endpoints /\ step = "custom" /\ next' = next + 1 /\ step' = "map"
      /\ pending = <<>> /\ host = <<>>
      /\ AddOwn(u) /\ host' = host /\ group' = group
  BY DEF FinishOperation, PhaseInv
<1>2. own \in [Endpoints -> Lists] /\ own[next] \in Lists /\ a \in Seq(Conventions)
  BY <1>1 DEF TypeInv, Lists
<1>3. u \in Seq(Conventions) /\ Promised(next) \in Seq(Conventions)
  BY <1>1, PoliciesAreSequences, PromisesAreSequences
<1>4. Each("custom", pending) = <<>>
  BY <1>1 DEF Each
<1>5. a \o <<>> \o u = Promised(next) /\ own[next].final \o <<>> = PromisedFinally(next)
  BY <1>1, <1>4 DEF ScopeInv, Given
<1>0. own[next].final \in Seq(Conventions) /\ own[next].final = PromisedFinally(next)
  BY <1>2, <1>5 DEF Lists
<1> HIDE DEF a, u
<1>6. a \o u = Promised(next)
  BY <1>2, <1>5
<1>7. /\ own'[next].final = own[next].final /\ own'[next].add = Promised(next)
      /\ own' = [own EXCEPT ![next] = own'[next]]
  BY <1>1, <1>2, <1>6 DEF AddOwn, Lists, a
<1>8. ASSUME NEW e \in Endpoints PROVE Given(e)'
  <2>1. CASE e = next
    <3>1. Asked(e, FALSE, "add") = <<>> /\ Asked(e, FALSE, "final") = <<>>
      BY <1>1, AskedOfNobody
    <3>2. own'[e].add = Promised(e) \o Asked(e, FALSE, "add")
      <4>1. Promised(e) \o <<>> = Promised(e)
        BY <1>3, <2>1, ConcatEmptySeq
      <4> QED BY <1>7, <2>1, <3>1, <4>1
    <3>3. own'[e].final = PromisedFinally(e) \o Asked(e, FALSE, "final")
      <4>1. own[next].final \o <<>> = own[next].final
        BY <1>0, ConcatEmptySeq
      <4> QED BY <1>0, <1>7, <2>1, <3>1, <4>1
    <3> QED BY <1>1, <2>1, <3>2, <3>3, MapperGives
  <2>2. CASE e # next
    BY <1>1, <1>7, <2>2, OthersAreLeft
  <2> QED BY <2>1, <2>2
<1>9. FiledInv'
  <2>0. Endpoints \subseteq Nat
    BY ContractAssumption DEF Endpoints
  <2>1. operations' = {e \in Endpoints : e < next'}
    <3>1. operations = {e \in Endpoints : e < next} /\ operations' = operations \cup {next}
      BY DEF FinishOperation, ScopeInv, FiledInv
    <3>2. \A e \in Endpoints : e < next + 1 <=> e < next \/ e = next
      BY <1>1, <2>0
    <3> QED BY <1>1, <3>1, <3>2
  <2> DEFINE s == Contract[next].service
             Over(x, n) == \A e \in Endpoints : Contract[e].service = x => e < n
  <2>2. s \in Services /\ services = {x \in Services : Over(x, next)}
    BY <1>1 DEF ScopeInv, FiledInv, Services
  <2>3. services' = {x \in Services : Over(x, next + 1)}
    <3>1. CASE \E e \in Endpoints : e > next /\ Contract[e].service = s
      <4>1. services' = services
        BY <3>1 DEF FinishOperation
      <4>2. ASSUME NEW x \in Services PROVE Over(x, next) <=> Over(x, next + 1)
        BY <1>1, <2>0, <3>1
      <4> QED BY <2>2, <4>1, <4>2
    <3>2. CASE ~\E e \in Endpoints : e > next /\ Contract[e].service = s
      <4>1. services' = services \cup {s}
        BY <3>2 DEF FinishOperation
      <4>2. ASSUME NEW x \in Services PROVE Over(x, next + 1) <=> Over(x, next) \/ x = s
        BY <1>1, <2>0, <3>2
      <4> QED BY <2>2, <4>1, <4>2
    <3> QED BY <3>1, <3>2
  <2> QED BY <1>1, <2>1, <2>3 DEF FiledInv
<1> QED BY <1>1, <1>8, <1>9 DEF ScopeInv

\* What the host adds reaches the endpoints its scope covers, by the group or by
\* themselves, and no other.
LEMMA AddGives ==
    ASSUME IInv, ScopeInv, NEW scope \in Scopes, NEW list \in {"add", "final"}, Add(scope, list)
    PROVE  ScopeInv'
<1> USE DEF IInv
<1> DEFINE added == [kind |-> "host", scope |-> scope, list |-> list, call |-> Len(host)]
           H == IF scope.service = Any THEN services ELSE {scope.service}
<1>1. /\ host \in Seq(Conventions) /\ own \in [Endpoints -> Lists]
      /\ group \in [Services -> Lists]
  BY DEF TypeInv, ScopeInv
<1>2. /\ added \in Conventions /\ added.scope = scope /\ added.list = list
  BY <1>1 DEF Conventions
<1>3. /\ phase \in {"configuring", "returned"} /\ host' = Append(host, added)
      /\ UNCHANGED <<phase, next, step, pending, registered, operations, services>>
  BY DEF Add, mapper
<1>4. next \notin Endpoints /\ operations = Endpoints /\ services = Services
      /\ \A e \in Endpoints : e < next
  <2>1. next \notin Endpoints
    BY <1>3 DEF PhaseInv
  <2>2. \A e \in Endpoints : e < next
    BY <2>1, ContractAssumption DEF TypeInv, Endpoints
  <2> QED BY <2>1, <2>2 DEF ScopeInv, FiledInv
<1>5. \/ Broad(scope) /\ group' = Added(group, H, list, added) /\ own' = own
      \/ Narrow(scope) /\ own' = Added(own, Held(scope), list, added) /\ group' = group
  BY DEF Add
<1>6. scope.service \in Services \cup {Any}
  BY DEF Scopes
<1> HIDE DEF added
<1>7. group' \in [Services -> Lists]
  <2>1. CASE group' = group
    BY <2>1, <1>1
  <2>2. CASE group' = Added(group, H, list, added)
    <3>1. ASSUME NEW s \in Services PROVE group'[s] \in Lists
      <4>1. /\ group[s] \in Lists
            /\ group[s].add \in Seq(Conventions) /\ group[s].final \in Seq(Conventions)
        BY <1>1 DEF Lists
      <4>2. group'[s] = group[s] \/ group'[s] = [group[s] EXCEPT ![list] = Append(@, added)]
        BY <1>1, <2>2 DEF Added
      <4>3. Append(group[s].add, added) \in Seq(Conventions)
            /\ Append(group[s].final, added) \in Seq(Conventions)
        BY <4>1, <1>2
      <4> QED BY <4>1, <4>2, <4>3 DEF Lists
    <3> QED BY <1>1, <2>2, <3>1 DEF Added
  <2> QED BY <1>5, <2>1, <2>2
<1>8. ASSUME NEW e \in Endpoints PROVE Given(e)'
  <2> DEFINE s == Contract[e].service
  <2>1. /\ Given(e) /\ e < next /\ s \in Services /\ group[s] \in Lists /\ own[e] \in Lists
        /\ Contract[e].service # Any /\ Contract[e].method # Any /\ Contract[e].verb # Any
    <3>1. Contract[e] \in HttpOperations
      BY ContractAssumption DEF Endpoints
    <3>2. Contract[e].service # Any /\ Contract[e].method # Any /\ Contract[e].verb # Any
      BY <3>1, ContractAssumption DEF HttpOperations
    <3> QED BY <1>1, <1>4, <3>2 DEF ScopeInv, Services
  <2>2. \A broad \in BOOLEAN, l \in {"add", "final"} :
          Asked(e, broad, l)' =
              IF Covers(scope, e) /\ Broad(scope) = broad /\ l = list
              THEN Append(Asked(e, broad, l), added) ELSE Asked(e, broad, l)
    <3> SUFFICES ASSUME NEW broad \in BOOLEAN, NEW l \in {"add", "final"}
                 PROVE  Asked(e, broad, l)' =
                            IF Covers(scope, e) /\ Broad(scope) = broad /\ l = list
                            THEN Append(Asked(e, broad, l), added) ELSE Asked(e, broad, l)
      OBVIOUS
    <3>1. IsAsked(added, e, broad, l) <=> Covers(scope, e) /\ Broad(scope) = broad /\ l = list
      BY <1>2 DEF IsAsked
    <3> QED BY <1>2, <1>3, <3>1, AskedGrows
  <2>3. \A broad \in BOOLEAN, l \in {"add", "final"} : Asked(e, broad, l) \in Seq(Conventions)
    BY AskedIsSequence
  <2>4. CASE Broad(scope) /\ group' = Added(group, H, list, added) /\ own' = own
    <3>1. Covers(scope, e) <=> s \in H
      BY <1>4, <2>1, <2>4 DEF Covers, Broad
    <3>2. group'[s] = IF s \in H THEN [group[s] EXCEPT ![list] = Append(@, added)] ELSE group[s]
      BY <1>1, <2>1, <2>4 DEF Added
    <3>3. /\ Asked(e, FALSE, "add")' = Asked(e, FALSE, "add")
          /\ Asked(e, FALSE, "final")' = Asked(e, FALSE, "final")
      BY <2>2, <2>4
    <3>4. \A l \in {"add", "final"} :
            Asked(e, TRUE, l)' = IF s \in H /\ l = list THEN Append(Asked(e, TRUE, l), added)
                                 ELSE Asked(e, TRUE, l)
      BY <2>2, <2>4, <3>1
    <3>5. group[s].add = Asked(e, TRUE, "add") /\ group[s].final = Asked(e, TRUE, "final")
      BY <2>1 DEF Given
    <3>6. group'[s].add = Asked(e, TRUE, "add")' /\ group'[s].final = Asked(e, TRUE, "final")'
      BY <2>1, <3>2, <3>4, <3>5 DEF Lists
    <3>7. /\ own'[e] = own[e] /\ next' = next /\ Promised(e)' = Promised(e) /\ ~(e = next)
          /\ PromisedFinally(e)' = PromisedFinally(e)
      BY <1>3, <1>4, <2>4 DEF Promised, PromisedFinally, Dedicated, Custom, Timeout, Each, When, Convention
    <3> QED BY <2>1, <3>3, <3>6, <3>7 DEF Given
  <2>5. CASE Narrow(scope) /\ own' = Added(own, Held(scope), list, added) /\ group' = group
    <3>0. ~Broad(scope)
      BY <2>5 DEF Narrow, Broad
    <3>1. Covers(scope, e) <=> e \in Held(scope)
      BY <1>4, <2>1, <2>5 DEF Covers, Narrow, Held
    <3>2. own'[e] = IF e \in Held(scope) THEN [own[e] EXCEPT ![list] = Append(@, added)] ELSE own[e]
      BY <1>1, <2>1, <2>5 DEF Added
    <3>3. /\ Asked(e, TRUE, "add")' = Asked(e, TRUE, "add")
          /\ Asked(e, TRUE, "final")' = Asked(e, TRUE, "final")
      BY <2>2, <3>0
    <3>4. \A l \in {"add", "final"} :
            Asked(e, FALSE, l)' = IF e \in Held(scope) /\ l = list
                                  THEN Append(Asked(e, FALSE, l), added)
                                  ELSE Asked(e, FALSE, l)
      <4>1. Broad(scope) = FALSE
        BY <3>0 DEF Broad
      <4>2. \A l \in {"add", "final"} :
              Asked(e, FALSE, l)' = IF Covers(scope, e) /\ l = list
                                    THEN Append(Asked(e, FALSE, l), added)
                                    ELSE Asked(e, FALSE, l)
        BY <2>2, <4>1
      <4> QED BY <3>1, <4>2
    <3>5. /\ own[e].add = Promised(e) \o Asked(e, FALSE, "add")
          /\ own[e].final = PromisedFinally(e) \o Asked(e, FALSE, "final")
      BY <2>1 DEF Given
    <3>6. own'[e].final = PromisedFinally(e) \o Asked(e, FALSE, "final")'
      <4>1. Append(PromisedFinally(e) \o Asked(e, FALSE, "final"), added)
              = PromisedFinally(e) \o Append(Asked(e, FALSE, "final"), added)
        BY <1>2, <2>3, PromisesAreSequences, AppendsToTheSecond
      <4>2. own'[e].final = IF e \in Held(scope) /\ list = "final"
                            THEN Append(own[e].final, added) ELSE own[e].final
        BY <2>1, <3>2 DEF Lists
      <4> QED BY <3>4, <3>5, <4>1, <4>2
    <3>7. own'[e].add = Promised(e) \o Asked(e, FALSE, "add")'
      <4>1. Append(Promised(e) \o Asked(e, FALSE, "add"), added)
              = Promised(e) \o Append(Asked(e, FALSE, "add"), added)
        BY <1>2, <2>3, PromisesAreSequences, AppendsToTheSecond
      <4>2. own'[e].add = IF e \in Held(scope) /\ list = "add"
                          THEN Append(own[e].add, added) ELSE own[e].add
        BY <2>1, <3>2 DEF Lists
      <4> QED BY <3>4, <3>5, <4>1, <4>2
    <3>8. /\ group'[s] = group[s] /\ next' = next /\ Promised(e)' = Promised(e) /\ ~(e = next)
          /\ PromisedFinally(e)' = PromisedFinally(e)
      BY <1>3, <1>4, <2>5 DEF Promised, PromisedFinally, Dedicated, Custom, Timeout, Each, When, Convention
    <3> QED BY <2>1, <3>3, <3>6, <3>7, <3>8 DEF Given
  <2> QED BY <1>5, <2>4, <2>5
<1>9. FiledInv'
  BY <1>3 DEF ScopeInv, FiledInv
<1> QED BY <1>7, <1>8, <1>9 DEF ScopeInv

\* Every step leaves each endpoint with what it was promised and what was asked of it.
LEMMA StepGives == ASSUME IInv, ScopeInv, [Next]_vars PROVE ScopeInv'
<1> USE DEF mapper, conventions
<1>1. CASE \/ UNCHANGED vars \/ MapMethods \/ MapMethodsFails \/ CustomPolicyFails
           \/ Configure \/ Return
  BY <1>1, IdleGives
     DEF IInv, vars, MapMethods, MapMethodsFails, CustomPolicyFails, Throws, Configure, Return
<1>2. CASE ApplyDedicated
  BY <1>2, ApplyDedicatedGives
<1>3. CASE ApplyCustom
  BY <1>3, ApplyCustomGives
<1>4. CASE FinishOperation
  BY <1>4, FinishGives
<1>5. ASSUME NEW scope \in Scopes, LookupFails(scope) PROVE ScopeInv'
  BY <1>5, IdleGives DEF IInv, LookupFails, Throws
<1>6. ASSUME NEW scope \in Scopes, NEW list \in {"add", "final"}, Add(scope, list)
      PROVE  ScopeInv'
  BY <1>6, AddGives
<1> QED BY <1>1, <1>2, <1>3, <1>4, <1>5, <1>6 DEF Next

-----------------------------------------------------------------------------

\* The inductive invariant of MapRemoteServices holds for any contract, any
\* registrations and any calls of the host's.
THEOREM Invariance == Spec => []IInv
BY InitEstablishes, StepPreserves, PTL DEF Spec

\* However a mapping fails, none of the endpoints it leaves behind is without the
\* authorization its contract asks for, and it failed at a route, in a custom policy or
\* in the host's callback: EmitApply and RemoteServiceEndpointPolicyRuntime.Apply.
THEOREM FailedMappingsAreProtected == Spec => []FailedMappingIsProtected
<1>1. IInv => FailedMappingIsProtected
  <2> SUFFICES ASSUME IInv, phase = "threw"
               PROVE  /\ \A e \in Endpoints : Mapped(e) => StartsWith(own[e].add, Dedicated(e))
                      /\ \A e \in Endpoints : ~Mapped(e) => own[e] = Empty
                      /\ next \in Endpoints
                           => host = <<>> /\ (step = "map" \/ Custom(next) # <<>>)
    BY DEF FailedMappingIsProtected
  <2>1. step \in {"map", "custom"}
    BY DEF IInv, TypeInv, PhaseInv
  <2>2. \A e \in Endpoints : Mapped(e) <=> Dressed(e)
    BY <2>1 DEF Mapped, Dressed
  <2> QED BY <2>2 DEF IInv, PhaseInv, PolicyInv
<1> QED BY <1>1, Invariance, PTL

\* Once the mappers are done, an endpoint has the conventions of the scopes that cover it
\* and no other, each once, around the policies of its contract and in the order that
\* groups and endpoints give them, for any contract and any number of conventions:
\* RemoteServiceConventionBuilder and the builders below it.
THEOREM ConventionsFollowTheirScopes == Spec => []ConventionsFollowScopes
<1>1. Init => ScopeInv
  BY InitGives
<1>2. IInv /\ ScopeInv /\ [Next]_vars => ScopeInv'
  BY StepGives
<1>3. IInv /\ ScopeInv => ConventionsFollowScopes
  <2> SUFFICES ASSUME IInv, ScopeInv, phase \in {"configuring", "returned"}, NEW e \in Endpoints
               PROVE  Effective(e) =
                          Asked(e, TRUE, "add") \o Promised(e) \o Asked(e, FALSE, "add")
                              \o PromisedFinally(e) \o Asked(e, FALSE, "final")
                              \o Asked(e, TRUE, "final")
    BY DEF ConventionsFollowScopes
  <2> DEFINE w == Asked(e, TRUE, "add")
             x == Promised(e)
             y == Asked(e, FALSE, "add")
             f == PromisedFinally(e)
             g == Asked(e, FALSE, "final")
  <2>1. e < next
    BY ContractAssumption DEF IInv, PhaseInv, TypeInv, Endpoints
  <2>2. /\ group[Contract[e].service].add = w
        /\ group[Contract[e].service].final = Asked(e, TRUE, "final")
        /\ own[e].add = x \o y /\ own[e].final = f \o g
    BY <2>1 DEF ScopeInv, Given
  <2>3. /\ w \in Seq(Conventions) /\ x \in Seq(Conventions) /\ y \in Seq(Conventions)
        /\ f \in Seq(Conventions) /\ g \in Seq(Conventions)
    BY AskedIsSequence, PromisesAreSequences DEF IInv
  <2> HIDE DEF w, x, y, f, g
  <2> DEFINE v == w \o x \o y
  <2>4. w \o (x \o y) = v /\ v \in Seq(Conventions)
    BY <2>3, ConcatAssociative
  <2> HIDE DEF v
  <2>5. v \o (f \o g) = v \o f \o g
    BY <2>3, <2>4, ListsRegroup
  <2>6. Effective(e) = w \o (x \o y) \o (f \o g) \o Asked(e, TRUE, "final")
    BY <2>2, Zenon DEF Effective
  <2>7. Effective(e) = v \o f \o g \o Asked(e, TRUE, "final")
    BY <2>4, <2>5, <2>6, Zenon
  <2> QED BY <2>7 DEF w, x, y, f, g, v
<1> QED BY <1>1, <1>2, <1>3, Invariance, PTL DEF Spec
=============================================================================
