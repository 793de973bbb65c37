------------------------ MODULE ContractParseProofs ------------------------
(***************************************************************************)
(* Theorems about ContractParse, for any interfaces, names and contracts.  *)
(***************************************************************************)
EXTENDS ContractParse, SequenceTheorems, WellFoundedInduction, TLAPS

-----------------------------------------------------------------------------
(* The walk. Its result follows inheritance because of what the stack is    *)
(* while it lasts: a path down the hierarchy, every frame of which has its  *)
(* bases done, left, or being visited right above it.                       *)

Done == {sources[k] : k \in DOMAIN sources}
Active == {stack[k].at : k \in DOMAIN stack}

WalkTyped ==
    /\ IsHierarchy(contract)
    /\ pc \in {"start", "walk", "methods", "accepted", "rejected"}
    /\ stack \in Seq([at : Interfaces, left : SUBSET Interfaces])
    /\ sources \in Seq(Interfaces)

\* A path from the service, each of whose interfaces inherits those above it.
StackIsAPath ==
    /\ stack # <<>> => stack[1].at = Service
    /\ \A j, k \in DOMAIN stack : j < k => stack[k].at \in contract.all[stack[j].at]

BasesAreAccounted ==
    \A k \in DOMAIN stack :
        /\ stack[k].left \subseteq contract.bases[stack[k].at]
        /\ \A b \in contract.bases[stack[k].at] :
             \/ b \in stack[k].left
             \/ b \in Done
             \/ k < Len(stack) /\ b = stack[k + 1].at

VisitedIsDoneOrActive ==
    /\ Active \cap Done = {}
    /\ pc = "walk" /\ stack # <<>> => visited = Done \cup Active

SourcesAreOrdered ==
    /\ \A k \in DOMAIN sources : contract.all[sources[k]] \subseteq Placed(k - 1)
    /\ \A j, k \in DOMAIN sources : sources[j] = sources[k] => j = k
    /\ Done \subseteq contract.all[Service]

WalkEnds ==
    /\ pc = "start" => stack = <<>> /\ sources = <<>>
    /\ pc = "walk" /\ stack = <<>> => contract.all[Service] \subseteq Done
    /\ pc \in {"methods", "accepted"} => stack = <<>> /\ contract.all[Service] \subseteq Done

WalkInv ==
    /\ WalkTyped
    /\ StackIsAPath
    /\ BasesAreAccounted
    /\ VisitedIsDoneOrActive
    /\ SourcesAreOrdered
    /\ WalkEnds

\* What the steps do to a sequence, whatever it is a sequence of.
LEMMA SequenceShape ==
    ASSUME NEW S, NEW s \in Seq(S)
    PROVE  /\ Len(s) \in Nat /\ DOMAIN s = 1..Len(s)
           /\ s # <<>> => Len(s) \in DOMAIN s /\ Len(s) >= 1
           /\ \A k \in DOMAIN s : s[k] \in S
    OBVIOUS

LEMMA AppendShape ==
    ASSUME NEW S, NEW s \in Seq(S), NEW e \in S
    PROVE  /\ Append(s, e) \in Seq(S) /\ Append(s, e) # <<>>
           /\ Len(Append(s, e)) = Len(s) + 1 /\ DOMAIN Append(s, e) = 1..(Len(s) + 1)
           /\ Append(s, e)[Len(s) + 1] = e
           /\ \A k \in 1..Len(s) : Append(s, e)[k] = s[k]
    OBVIOUS

LEMMA PopShape ==
    ASSUME NEW S, NEW s \in Seq(S), s # <<>>,
           NEW t, t = SubSeq(s, 1, Len(s) - 1)
    PROVE  /\ t \in Seq(S)
           /\ Len(t) = Len(s) - 1 /\ DOMAIN t = 1..(Len(s) - 1)
           /\ \A k \in 1..(Len(s) - 1) : t[k] = s[k]
           /\ Len(s) = 1 => t = <<>>
  <1>1. Len(s) \in Nat /\ Len(s) >= 1 /\ \A k \in 1..Len(s) : s[k] \in S
    BY SequenceShape
  <1> DEFINE m == Len(s) - 1
  <1>3. m \in Int /\ m >= 0 /\ \A k \in 1..m : s[k] \in S
    BY <1>1
  <1> HIDE DEF m
  <1>4. /\ SubSeq(s, 1, m) \in Seq(S)
        /\ Len(SubSeq(s, 1, m)) = IF 1 <= m THEN m - 1 + 1 ELSE 0
        /\ \A k \in 1..(m - 1 + 1) : SubSeq(s, 1, m)[k] = s[1 + k - 1]
    BY <1>3, SubSeqProperties
  <1>5. t = SubSeq(s, 1, m)
    BY DEF m
  <1>6. t \in Seq(S) /\ Len(t) = m /\ \A k \in 1..m : t[k] = s[k]
    BY <1>3, <1>4, <1>5
  <1>7. DOMAIN t = 1..m /\ (m = 0 => t = <<>>)
    BY <1>6, SequenceShape
  <1> QED
    BY <1>6, <1>7 DEF m

LEMMA InitWalk == Init => WalkInv
  <1> SUFFICES ASSUME Init PROVE WalkInv
    OBVIOUS
  <1>1. WalkTyped
    BY HierarchyAssumption DEF Init, WalkTyped
  <1>2. DOMAIN stack = {} /\ DOMAIN sources = {}
    BY DEF Init
  <1> QED
    BY <1>1, <1>2 DEF Init, WalkInv, StackIsAPath, BasesAreAccounted, VisitedIsDoneOrActive,
       SourcesAreOrdered, WalkEnds, Done, Active

LEMMA StackShape ==
    ASSUME WalkInv
    PROVE  /\ Len(stack) \in Nat /\ DOMAIN stack = 1..Len(stack)
           /\ stack # <<>> => Len(stack) \in DOMAIN stack /\ Len(stack) >= 1
           /\ \A k \in DOMAIN stack : /\ stack[k] \in [at : Interfaces, left : SUBSET Interfaces]
                                      /\ stack[k].at \in Interfaces
                                      /\ stack[k].left \subseteq Interfaces
  <1> DEFINE F == [at : Interfaces, left : SUBSET Interfaces]
  <1>1. stack \in Seq(F)
    BY DEF WalkInv, WalkTyped
  <1>2. \A f \in F : f.at \in Interfaces /\ f.left \subseteq Interfaces
    OBVIOUS
  <1> HIDE DEF F
  <1>3. /\ Len(stack) \in Nat /\ DOMAIN stack = 1..Len(stack)
        /\ stack # <<>> => Len(stack) \in DOMAIN stack /\ Len(stack) >= 1
        /\ \A k \in DOMAIN stack : stack[k] \in F
    BY <1>1, SequenceShape
  <1> QED
    BY <1>2, <1>3 DEF F

\* Nothing on the stack is inherited by what is below it: a base already visited is done.
LEMMA VisitedBasesAreDone ==
    ASSUME WalkInv, pc = "walk", stack # <<>>,
           NEW b \in Top.left, b \in visited
    PROVE  b \in Done
  <1>1. /\ Len(stack) \in DOMAIN stack
        /\ Top.at \in Interfaces /\ Top.left \subseteq Interfaces
    BY StackShape DEF Top
  <1>2. b \in contract.all[Top.at]
    BY <1>1 DEF WalkInv, WalkTyped, BasesAreAccounted, IsHierarchy, Top
  <1>3. ASSUME NEW j \in DOMAIN stack PROVE stack[j].at # b
    <2>1. stack[j].at \in Interfaces /\ j <= Len(stack)
      BY StackShape
    <2>2. CASE j = Len(stack)
      BY <1>1, <1>2, <2>1, <2>2 DEF WalkInv, WalkTyped, IsHierarchy, Top
    <2>3. CASE j < Len(stack)
      <3>1. Top.at \in contract.all[stack[j].at]
        BY <1>1, <2>3 DEF WalkInv, StackIsAPath, Top
      <3>2. contract.all[Top.at] \subseteq contract.all[stack[j].at]
        BY <2>1, <3>1 DEF WalkInv, WalkTyped, IsHierarchy
      <3> QED
        BY <1>2, <2>1, <3>2 DEF WalkInv, WalkTyped, IsHierarchy
    <2> QED
      BY StackShape, <2>1, <2>2, <2>3
  <1> QED
    BY <1>3 DEF WalkInv, VisitedIsDoneOrActive, Active

LEMMA StartWalkKeeps == WalkInv /\ StartWalk => WalkInv'
  <1> SUFFICES ASSUME WalkInv, StartWalk PROVE WalkInv'
    OBVIOUS
  <1> USE DEF WalkInv, StartWalk
  <1>1. /\ stack' = <<Frame(Service)>> /\ sources = <<>> /\ sources' = sources
        /\ contract' = contract /\ pc' = "walk" /\ visited' = {Service}
    BY DEF WalkEnds
  <1>2. Frame(Service) \in [at : Interfaces, left : SUBSET Interfaces]
    BY HierarchyAssumption DEF WalkTyped, IsHierarchy, Frame
  <1>3. /\ DOMAIN stack' = {1} /\ stack'[1].at = Service /\ Len(stack') = 1
        /\ stack'[1].left = contract.bases[Service]
    BY <1>1 DEF Frame
  <1>4. Done = {} /\ Done' = {} /\ Active' = {Service} /\ stack' # <<>> /\ DOMAIN sources' = {}
    BY <1>1, <1>3 DEF Done, Active
  <1>5. WalkTyped'
    BY <1>1, <1>2 DEF WalkTyped
  <1>6. StackIsAPath' /\ BasesAreAccounted'
    BY <1>1, <1>3 DEF StackIsAPath, BasesAreAccounted
  <1>7. VisitedIsDoneOrActive' /\ SourcesAreOrdered' /\ WalkEnds'
    BY <1>1, <1>4 DEF VisitedIsDoneOrActive, SourcesAreOrdered, WalkEnds
  <1> QED
    BY <1>5, <1>6, <1>7

\* The stack without one of the bases that its top has left, and with that base on top.
Rest(b) == [stack EXCEPT ![Len(stack)].left = @ \ {b}]

LEMMA DescendShape ==
    ASSUME WalkInv, stack # <<>>, NEW b \in Top.left
    PROVE  LET n == Len(stack)
               rest == Rest(b) IN
           /\ rest \in Seq([at : Interfaces, left : SUBSET Interfaces])
           /\ Len(rest) = n /\ DOMAIN rest = 1..n
           /\ \A k \in 1..n : /\ rest[k].at = stack[k].at
                               /\ rest[k].left = IF k = n THEN Top.left \ {b} ELSE stack[k].left
           /\ Frame(b) \in [at : Interfaces, left : SUBSET Interfaces]
           /\ Frame(b).at = b /\ Frame(b).left = contract.bases[b]
           /\ Len(Append(rest, Frame(b))) = n + 1 /\ DOMAIN Append(rest, Frame(b)) = 1..(n + 1)
           /\ Append(rest, Frame(b))[n + 1] = Frame(b)
           /\ \A k \in 1..n : Append(rest, Frame(b))[k] = rest[k]
  <1> DEFINE n == Len(stack)
             rest == Rest(b)
             F == [at : Interfaces, left : SUBSET Interfaces]
  <1>1. /\ n \in Nat /\ n \in DOMAIN stack /\ DOMAIN stack = 1..n
        /\ Top = stack[n] /\ Top.left \subseteq Interfaces
        /\ \A k \in 1..n : stack[k] \in F
    BY StackShape DEF Top
  <1>2. /\ rest \in Seq(F) /\ Len(rest) = n /\ DOMAIN rest = 1..n
        /\ \A k \in 1..n : /\ rest[k].at = stack[k].at
                            /\ rest[k].left = IF k = n THEN Top.left \ {b} ELSE stack[k].left
    BY <1>1 DEF WalkInv, WalkTyped, Rest
  <1>3. Frame(b) \in F /\ Frame(b).at = b /\ Frame(b).left = contract.bases[b]
    BY <1>1 DEF WalkInv, WalkTyped, IsHierarchy, Frame
  <1> HIDE DEF F, n, rest
  <1>4. /\ Len(Append(rest, Frame(b))) = n + 1 /\ DOMAIN Append(rest, Frame(b)) = 1..(n + 1)
        /\ Append(rest, Frame(b))[n + 1] = Frame(b)
        /\ \A k \in 1..n : Append(rest, Frame(b))[k] = rest[k]
    BY <1>2, <1>3, AppendShape
  <1> QED
    BY <1>2, <1>3, <1>4 DEF F, n, rest

LEMMA DescendKeeps == WalkInv /\ Descend => WalkInv'
  <1> SUFFICES ASSUME WalkInv, Descend PROVE WalkInv'
    OBVIOUS
  <1> DEFINE n == Len(stack)
             rest(b) == [stack EXCEPT ![n].left = @ \ {b}]
  <1>1. PICK b \in Top.left :
          /\ stack' = IF b \in visited THEN rest(b) ELSE Append(rest(b), Frame(b))
          /\ visited' = visited \cup {b}
    BY DEF Descend
  <1>2. /\ pc = "walk" /\ pc' = pc /\ stack # <<>>
        /\ contract' = contract /\ sources' = sources /\ Done' = Done
    BY DEF Descend, Done
  <1>3. /\ n \in Nat /\ n \in DOMAIN stack /\ DOMAIN stack = 1..n
        /\ Top = stack[n] /\ Top.at \in Interfaces /\ Top.left \subseteq Interfaces
    BY <1>2, StackShape DEF Top
  <1>4. b \in contract.bases[Top.at] /\ b \in contract.all[Top.at] /\ b \in Interfaces
    BY <1>3 DEF WalkInv, WalkTyped, BasesAreAccounted, IsHierarchy
  <1>5. /\ rest(b) \in Seq([at : Interfaces, left : SUBSET Interfaces])
        /\ Len(rest(b)) = n /\ DOMAIN rest(b) = 1..n
        /\ \A k \in 1..n : /\ rest(b)[k].at = stack[k].at
                            /\ rest(b)[k].left = IF k = n THEN Top.left \ {b} ELSE stack[k].left
    BY <1>2, DescendShape DEF Rest
  <1>6. \A k \in 1..n : \A c \in contract.bases[stack[k].at] :
           \/ c \in rest(b)[k].left \/ c \in Done
           \/ k < n /\ c = stack[k + 1].at
           \/ k = n /\ c = b
    BY <1>3, <1>5 DEF WalkInv, BasesAreAccounted
  <1>7. \A k \in 1..n : rest(b)[k].left \subseteq contract.bases[stack[k].at]
    BY <1>3, <1>5 DEF WalkInv, BasesAreAccounted
  <1>8. SourcesAreOrdered' /\ stack' # <<>>
    BY <1>1, <1>2, <1>3, <1>5 DEF WalkInv, SourcesAreOrdered, Placed
  <1>9. WalkEnds'
    BY <1>2, <1>8 DEF WalkEnds
  <1>10. CASE b \in visited
    <2>1. stack' = rest(b) /\ b \in Done
      BY <1>1, <1>2, <1>10, VisitedBasesAreDone
    <2>2. Active' = Active
      BY <1>3, <1>5, <2>1 DEF Active
    <2>3. WalkTyped'
      BY <1>2, <1>5, <2>1 DEF WalkInv, WalkTyped
    <2>4. StackIsAPath'
      BY <1>2, <1>3, <1>5, <2>1 DEF WalkInv, StackIsAPath
    <2>5. BasesAreAccounted'
      BY <1>2, <1>3, <1>5, <1>6, <1>7, <2>1 DEF BasesAreAccounted
    <2>6. VisitedIsDoneOrActive'
      BY <1>1, <1>2, <2>1, <2>2 DEF WalkInv, VisitedIsDoneOrActive
    <2> QED
      BY <1>8, <1>9, <2>3, <2>4, <2>5, <2>6 DEF WalkInv
  <1>11. CASE b \notin visited
    <2>1. stack' = Append(rest(b), Frame(b))
      BY <1>1, <1>11
    <2>2. Frame(b) \in [at : Interfaces, left : SUBSET Interfaces]
          /\ Frame(b).at = b /\ Frame(b).left = contract.bases[b]
      BY <1>4 DEF WalkInv, WalkTyped, IsHierarchy, Frame
    <2>3. /\ Len(stack') = n + 1 /\ DOMAIN stack' = 1..(n + 1)
          /\ stack'[n + 1].at = b /\ stack'[n + 1].left = contract.bases[b]
          /\ \A k \in 1..n : stack'[k] = rest(b)[k]
      BY <1>2, <2>1, <2>2, DescendShape DEF Rest
    <2>4. Active' = Active \cup {b}
      <3>1. \A k \in 1..n : stack'[k].at = stack[k].at
        BY <1>5, <2>3
      <3>2. Active' = {stack'[k].at : k \in 1..(n + 1)} /\ Active = {stack[k].at : k \in 1..n}
        BY <1>3, <2>3 DEF Active
      <3>3. \A k : k \in 1..(n + 1) <=> k \in 1..n \/ k = n + 1
        BY <1>3
      <3> HIDE DEF n
      <3> QED
        BY <2>3, <3>1, <3>2, <3>3
    <2>5. WalkTyped'
      BY <1>2, <1>5, <2>1, <2>2 DEF WalkInv, WalkTyped
    <2>6. \A j \in 1..n : b \in contract.all[stack[j].at]
      <3>1. \A j \in 1..n : stack[j].at \in Interfaces
                             /\ (j = n \/ Top.at \in contract.all[stack[j].at])
        <4> SUFFICES ASSUME NEW j \in 1..n
                     PROVE  /\ stack[j].at \in Interfaces
                            /\ j = n \/ Top.at \in contract.all[stack[j].at]
          OBVIOUS
        <4>1. stack[j].at \in Interfaces /\ (j = n \/ j < n)
          <5>1. j \in DOMAIN stack /\ (j = n \/ j < n)
            <6> HIDE DEF n
            <6> QED
              BY <1>3
          <5> QED
            BY <5>1, StackShape
        <4>2. CASE j < n
          BY <1>3, <4>1, <4>2 DEF WalkInv, StackIsAPath
        <4> QED
          BY <4>1, <4>2
      <3>2. \A i \in Interfaces :
               Top.at \in contract.all[i] => contract.all[Top.at] \subseteq contract.all[i]
        BY DEF WalkInv, WalkTyped, IsHierarchy
      <3> HIDE DEF n
      <3> QED
        BY <1>3, <1>4, <3>1, <3>2
    <2>7. StackIsAPath'
      <3>1. \A j, k \in 1..n : j < k => stack[k].at \in contract.all[stack[j].at]
        BY <1>3 DEF WalkInv, StackIsAPath
      <3>2. stack[1].at = Service
        BY <1>2 DEF WalkInv, StackIsAPath
      <3> QED
        BY <1>2, <1>3, <1>5, <2>3, <2>6, <3>1, <3>2 DEF StackIsAPath
    <2>8. BasesAreAccounted'
      <3> SUFFICES ASSUME NEW k \in 1..(n + 1)
                   PROVE  /\ stack'[k].left \subseteq contract.bases[stack'[k].at]
                          /\ \A c \in contract.bases[stack'[k].at] :
                               \/ c \in stack'[k].left
                               \/ c \in Done
                               \/ k < n + 1 /\ c = stack'[k + 1].at
        BY <1>2, <2>3 DEF BasesAreAccounted
      <3>1. CASE k = n + 1
        BY <2>3, <3>1
      <3>2. CASE k = n
        <4>1. k \in 1..n /\ stack'[k] = rest(b)[k] /\ stack'[k].at = stack[k].at
              /\ stack'[k + 1].at = b /\ k < n + 1
          BY <1>3, <1>5, <2>3, <3>2
        <4>2. stack'[k].left \subseteq contract.bases[stack[k].at]
          BY <1>7, <4>1
        <4>3. \A c \in contract.bases[stack[k].at] : c \in rest(b)[k].left \/ c \in Done \/ c = b
          BY <1>6, <3>2, <4>1
        <4> HIDE DEF rest
        <4> QED
          BY <4>1, <4>2, <4>3
      <3>3. CASE k < n
        <4>1. /\ k \in 1..n /\ stack'[k] = rest(b)[k] /\ stack'[k].at = stack[k].at
              /\ stack'[k + 1].at = stack[k + 1].at /\ k < n + 1 /\ k # n
          BY <1>3, <1>5, <2>3, <3>3
        <4>2. stack'[k].left \subseteq contract.bases[stack[k].at]
          BY <1>7, <4>1
        <4>3. \A c \in contract.bases[stack[k].at] :
                 c \in rest(b)[k].left \/ c \in Done \/ c = stack[k + 1].at
          BY <1>6, <4>1
        <4> HIDE DEF rest
        <4> QED
          BY <4>1, <4>2, <4>3, Zenon
      <3>4. k = n + 1 \/ k = n \/ k < n
        <4> HIDE DEF n
        <4> QED
          BY <1>3
      <3> QED
        BY <3>1, <3>2, <3>3, <3>4, Zenon
    <2>9. VisitedIsDoneOrActive'
      BY <1>1, <1>2, <1>11, <2>4 DEF WalkInv, VisitedIsDoneOrActive
    <2> QED
      BY <1>8, <1>9, <2>5, <2>7, <2>8, <2>9 DEF WalkInv
  <1> QED
    BY <1>10, <1>11

LEMMA ReturnKeeps == WalkInv /\ Return => WalkInv'
  <1> SUFFICES ASSUME WalkInv, Return PROVE WalkInv'
    OBVIOUS
  <1> DEFINE n == Len(stack)
             i == Top.at
  <1>1. /\ pc = "walk" /\ pc' = pc /\ stack # <<>> /\ Top.left = {}
        /\ contract' = contract /\ visited' = visited
        /\ sources' = IF i = Service THEN sources ELSE Append(sources, i)
        /\ stack' = SubSeq(stack, 1, n - 1)
    BY DEF Return
  <1>2. /\ n \in Nat /\ n \in DOMAIN stack /\ DOMAIN stack = 1..n /\ n >= 1
        /\ Top = stack[n] /\ i \in Interfaces
    BY <1>1, StackShape DEF Top
  <1>3. /\ stack' \in Seq([at : Interfaces, left : SUBSET Interfaces])
        /\ Len(stack') = n - 1 /\ DOMAIN stack' = 1..(n - 1)
        /\ \A k \in 1..(n - 1) : stack'[k] = stack[k]
        /\ n = 1 => stack' = <<>>
    <2> DEFINE F == [at : Interfaces, left : SUBSET Interfaces]
    <2>1. stack \in Seq(F)
      BY DEF WalkInv, WalkTyped
    <2> HIDE DEF F
    <2>2. /\ stack' \in Seq(F)
          /\ Len(stack') = n - 1 /\ DOMAIN stack' = 1..(n - 1)
          /\ \A k \in 1..(n - 1) : stack'[k] = stack[k]
          /\ n = 1 => stack' = <<>>
      <3>1. stack # <<>> /\ stack' = SubSeq(stack, 1, Len(stack) - 1)
        BY <1>1
      <3>2. /\ stack' \in Seq(F)
            /\ Len(stack') = Len(stack) - 1 /\ DOMAIN stack' = 1..(Len(stack) - 1)
            /\ \A k \in 1..(Len(stack) - 1) : stack'[k] = stack[k]
            /\ Len(stack) = 1 => stack' = <<>>
        BY <2>1, <3>1, PopShape
      <3> QED
        BY <3>2
    <2> QED
      BY <2>2 DEF F
  <1>4. contract.bases[i] \subseteq Done
    BY <1>1, <1>2 DEF WalkInv, BasesAreAccounted
  <1>5. /\ Len(sources) \in Nat /\ DOMAIN sources = 1..Len(sources)
        /\ \A k \in DOMAIN sources : sources[k] \in Interfaces
    BY DEF WalkInv, WalkTyped
  <1>6. \A b \in Done : contract.all[b] \subseteq Done
    BY <1>5 DEF WalkInv, SourcesAreOrdered, Done, Placed
  <1>7. contract.all[i] \subseteq Done
    BY <1>2, <1>4, <1>6 DEF WalkInv, WalkTyped, IsHierarchy
  <1>8. i \in Active /\ i \notin Done
    BY <1>2 DEF WalkInv, VisitedIsDoneOrActive, Active
  <1>9. \A k \in 1..(n - 1) : stack[k].at # i
    <2> TAKE k \in 1..(n - 1)
    <2>1. i \in contract.all[stack[k].at]
      BY <1>2 DEF WalkInv, StackIsAPath
    <2>2. i \notin contract.all[i]
      BY <1>2 DEF WalkInv, WalkTyped, IsHierarchy
    <2> QED
      BY <2>1, <2>2
  <1>10. Active' = Active \ {i}
    BY <1>2, <1>3, <1>9 DEF Active
  <1>11. StackIsAPath'
    BY <1>1, <1>2, <1>3 DEF WalkInv, StackIsAPath
  <1>12. i # Service => n > 1 /\ i \in contract.all[Service]
    BY <1>1, <1>2 DEF WalkInv, StackIsAPath
  <1>13. i = Service => n = 1
    BY <1>1, <1>2, <1>9 DEF WalkInv, StackIsAPath
  <1>14. \A k \in 1..(n - 1) : \A c \in contract.bases[stack[k].at] :
            \/ c \in stack[k].left \/ c \in Done
            \/ k < n - 1 /\ c = stack[k + 1].at
            \/ k = n - 1 /\ c = i
    <2> SUFFICES ASSUME NEW k \in 1..(n - 1)
                 PROVE  \A c \in contract.bases[stack[k].at] :
                           \/ c \in stack[k].left \/ c \in Done
                           \/ k < n - 1 /\ c = stack[k + 1].at
                           \/ k = n - 1 /\ c = i
      OBVIOUS
    <2>1. k \in 1..n /\ k < n /\ (k < n - 1 \/ (k + 1 = n /\ k = n - 1))
      <3> HIDE DEF n
      <3> QED
        BY <1>2
    <2>2. \A c \in contract.bases[stack[k].at] :
             c \in stack[k].left \/ c \in Done \/ c = stack[k + 1].at
      BY <1>2, <2>1 DEF WalkInv, BasesAreAccounted
    <2> QED
      BY <1>2, <2>1, <2>2
  <1>15. CASE i = Service
    <2>1. sources' = sources /\ Done' = Done /\ stack' = <<>> /\ n = 1
      BY <1>1, <1>3, <1>13, <1>15 DEF Done
    <2>2. Active' = {} /\ DOMAIN stack' = {}
      BY <1>3, <2>1 DEF Active
    <2>3. WalkTyped'
      BY <1>1, <1>3, <2>1 DEF WalkInv, WalkTyped
    <2>4. BasesAreAccounted' /\ VisitedIsDoneOrActive' /\ WalkEnds'
      BY <1>1, <1>7, <1>15, <2>1, <2>2
      DEF BasesAreAccounted, VisitedIsDoneOrActive, WalkEnds
    <2>5. SourcesAreOrdered'
      BY <1>1, <2>1 DEF WalkInv, SourcesAreOrdered, Placed
    <2> QED
      BY <1>11, <2>3, <2>4, <2>5 DEF WalkInv
  <1>16. CASE i # Service
    <2>1. sources' = Append(sources, i) /\ sources' \in Seq(Interfaces)
      BY <1>1, <1>2, <1>16 DEF WalkInv, WalkTyped
    <2>2. /\ Len(sources') = Len(sources) + 1 /\ DOMAIN sources' = 1..(Len(sources) + 1)
          /\ sources'[Len(sources) + 1] = i
          /\ \A k \in 1..Len(sources) : sources'[k] = sources[k]
      BY <1>2, <1>5, <2>1 DEF WalkInv, WalkTyped
    <2>3. Done' = Done \cup {i} /\ stack' # <<>>
      BY <1>3, <1>5, <1>12, <1>16, <2>2 DEF Done
    <2>4. WalkTyped'
      BY <1>1, <1>3, <2>1 DEF WalkInv, WalkTyped
    <2>5. BasesAreAccounted'
      <3> SUFFICES ASSUME NEW k \in 1..(n - 1)
                   PROVE  /\ stack[k].left \subseteq contract.bases[stack[k].at]
                          /\ \A c \in contract.bases[stack[k].at] :
                               \/ c \in stack[k].left
                               \/ c \in Done \cup {i}
                               \/ k < n - 1 /\ c = stack'[k + 1].at
        BY <1>1, <1>2, <1>3, <2>3 DEF BasesAreAccounted
      <3>1. stack[k].left \subseteq contract.bases[stack[k].at]
        BY <1>2 DEF WalkInv, BasesAreAccounted
      <3>2. k < n - 1 => k + 1 \in 1..(n - 1)
        BY <1>2
      <3> QED
        BY <1>3, <1>14, <3>1, <3>2
    <2>6. VisitedIsDoneOrActive'
      BY <1>1, <1>8, <1>10, <2>3 DEF WalkInv, VisitedIsDoneOrActive
    <2>7. \A k \in 0..Len(sources) : Placed(k)' = Placed(k)
      BY <1>5, <2>2 DEF Placed
    <2>8. Placed(Len(sources)) = Done
      BY <1>5 DEF Placed, Done
    <2>9. \A k \in DOMAIN sources' : contract.all[sources'[k]] \subseteq Placed(k - 1)'
      BY <1>5, <1>7, <2>2, <2>7, <2>8 DEF WalkInv, SourcesAreOrdered
    <2>10. \A j, k \in DOMAIN sources' : sources'[j] = sources'[k] => j = k
      BY <1>5, <1>8, <2>2 DEF WalkInv, SourcesAreOrdered, Done
    <2>11. SourcesAreOrdered'
      BY <1>1, <1>12, <1>16, <2>3, <2>9, <2>10 DEF WalkInv, SourcesAreOrdered
    <2>12. WalkEnds'
      BY <1>1, <2>3 DEF WalkEnds
    <2> QED
      BY <1>11, <2>4, <2>5, <2>6, <2>11, <2>12 DEF WalkInv
  <1> QED
    BY <1>15, <1>16

\* After the walk nothing of it changes.
LEMMA RestKeeps ==
    ASSUME WalkInv,
           \/ Refuse \/ GroupMethods \/ RejectOverload
           \/ \E m \in Methods : ParseMethod(m) \/ SkipMethod(m)
           \/ Accept \/ Reject \/ UNCHANGED vars
    PROVE  WalkInv'
  <1>1. /\ UNCHANGED <<contract, stack, visited, sources>>
        /\ \/ pc' = pc
           \/ pc' = "rejected"
           \/ pc = "walk" /\ stack = <<>> /\ pc' = "methods"
           \/ pc = "methods" /\ pc' = "accepted"
    BY DEF Refuse, GroupMethods, RejectOverload, ParseMethod, SkipMethod, Accept, Reject, vars
  <1>2. WalkTyped' /\ StackIsAPath' /\ BasesAreAccounted' /\ SourcesAreOrdered'
    BY <1>1 DEF WalkInv, WalkTyped, StackIsAPath, BasesAreAccounted, SourcesAreOrdered,
       Done, Placed
  <1>3. VisitedIsDoneOrActive' /\ WalkEnds'
    BY <1>1 DEF WalkInv, VisitedIsDoneOrActive, WalkEnds, Done, Active
  <1> QED
    BY <1>2, <1>3 DEF WalkInv

THEOREM WalkIsInvariant == Spec => []WalkInv
  <1>1. WalkInv /\ [Next]_vars => WalkInv'
    BY StartWalkKeeps, DescendKeeps, ReturnKeeps, RestKeeps DEF Next
  <1> QED
    BY InitWalk, <1>1, PTL DEF Spec

\* The sources are the service's interfaces, each once and after all it inherits
\* (GetInterfaceHierarchy), for every hierarchy and every order of names.
THEOREM SourcesFollowInheritance == Spec => []SourcesAreTheHierarchy
  <1>1. WalkInv => SourcesAreTheHierarchy
    <2> SUFFICES ASSUME WalkInv PROVE SourcesAreTheHierarchy
      OBVIOUS
    <2>1. Placed(Len(sources)) = Done
      BY DEF WalkInv, WalkTyped, Placed, Done
    <2> QED
      BY <2>1 DEF WalkInv, SourcesAreOrdered, WalkEnds, SourcesAreTheHierarchy
  <1> QED
    BY WalkIsInvariant, <1>1, PTL

-----------------------------------------------------------------------------
(* The verbs. The walk's order extends inheritance, so the last declaration *)
(* that has verbs is one that no other overrides, and when those agree it   *)
(* stands for them all.                                                     *)

LEMMA LastOfSome ==
    ASSUME NEW n \in Nat, NEW K \in SUBSET (1..n), K # {}
    PROVE  Last(K) \in K /\ \A j \in K : j <= Last(K)
  <1> DEFINE T == {n - k : k \in K}
  <1>1. T \subseteq Nat /\ T # {}
    <2>1. \A k \in K : n - k \in Nat
      OBVIOUS
    <2> QED
      BY <2>1
  <1>2. PICK x \in T : \A y \in T : ~(<<y, x>> \in OpToRel(<, Nat))
    BY <1>1, NatLessThanWellFounded, WFMin
  <1>3. \A y \in T : ~(y < x)
    BY <1>1, <1>2 DEF OpToRel
  <1>4. PICK k \in K : x = n - k
    OBVIOUS
  <1>5. \A j \in K : j <= k
    <2> SUFFICES ASSUME NEW j \in K PROVE j <= k
      OBVIOUS
    <2>1. n - j \in T
      OBVIOUS
    <2>2. ~(n - j < n - k)
      BY <1>3, <1>4, <2>1
    <2> QED
      BY <2>2
  <1> QED
    BY <1>5 DEF Last

LEMMA OrderShape ==
    ASSUME WalkInv
    PROVE  /\ Len(sources) \in Nat
           /\ DOMAIN Order = 1..(Len(sources) + 1)
           /\ Order[Len(sources) + 1] = Service
           /\ \A k \in 1..Len(sources) : Order[k] = sources[k] /\ sources[k] \in Interfaces
           /\ Done = {sources[k] : k \in 1..Len(sources)}
           /\ \A k \in DOMAIN Order : Order[k] \in Interfaces
  <1>1. sources \in Seq(Interfaces) /\ Service \in Interfaces
    BY HierarchyAssumption DEF WalkInv, WalkTyped
  <1>2. /\ DOMAIN Order = 1..(Len(sources) + 1) /\ Order[Len(sources) + 1] = Service
        /\ \A k \in 1..Len(sources) : Order[k] = sources[k]
    BY <1>1, AppendShape DEF Order
  <1>3. /\ Len(sources) \in Nat /\ DOMAIN sources = 1..Len(sources)
        /\ \A k \in 1..Len(sources) : sources[k] \in Interfaces
    BY <1>1, SequenceShape
  <1> QED
    BY <1>1, <1>2, <1>3 DEF Done

\* What is inherited comes first.
LEMMA OrderExtendsInheritance ==
    ASSUME WalkInv, NEW j \in DOMAIN Order, NEW k \in DOMAIN Order,
           Order[k] \in contract.all[Order[j]]
    PROVE  k < j
  <1> DEFINE n == Len(sources)
  <1>1. n \in Nat /\ j \in 1..(n + 1) /\ k \in 1..(n + 1)
    BY OrderShape
  <1>2. Service \notin contract.all[Service] /\ Service \notin Done
    BY HierarchyAssumption DEF WalkInv, WalkTyped, IsHierarchy, SourcesAreOrdered
  <1>3. CASE j = n + 1
    <2>1. k # n + 1
      BY <1>2, <1>3, OrderShape
    <2> QED
      BY <1>1, <1>3, <2>1
  <1>4. CASE j # n + 1
    <2>1. j \in 1..n /\ Order[j] = sources[j]
      BY <1>1, <1>4, OrderShape
    <2>2. Order[k] \in Placed(j - 1)
      BY <2>1, OrderShape DEF WalkInv, WalkTyped, SourcesAreOrdered
    <2>3. PICK i \in 1..(j - 1) : Order[k] = sources[i]
      BY <2>2 DEF Placed
    <2>4. i \in 1..n /\ sources[i] \in Done
      BY <1>1, <2>1, <2>3, OrderShape
    <2>5. k \in 1..n /\ Order[k] = sources[k]
      <3>1. k # n + 1
        BY <1>2, <2>3, <2>4, OrderShape
      <3>2. k \in 1..n
        BY <1>1, <3>1
      <3> QED
        BY <3>2, OrderShape
    <2>6. k = i
      <3>1. DOMAIN sources = 1..n
        BY SequenceShape DEF WalkInv, WalkTyped
      <3> QED
        BY <2>3, <2>4, <2>5, <3>1 DEF WalkInv, SourcesAreOrdered
    <2> QED
      BY <1>1, <2>1, <2>3, <2>6
  <1> QED
    BY <1>3, <1>4

FollowsVerbs(m) ==
    /\ VerbsAt(m) # {}
    /\ ~Conflicting(m)
    /\ DOMAIN model[m].operations = DOMAIN VerbAttributes(m)
    /\ \A k \in DOMAIN VerbAttributes(m) :
         /\ model[m].operations[k].verb = VerbAttributes(m)[k].verb
         /\ model[m].operations[k].route = VerbAttributes(m)[k].route

VerbInv ==
    /\ pc \in {"start", "walk"} => Parsed = {}
    /\ Parsed # {} => contract.all[Service] \subseteq Done
    /\ \A m \in Parsed : FollowsVerbs(m)

LEMMA InitVerbs == Init => VerbInv
    BY DEF Init, VerbInv, Parsed

LEMMA VerbsAreSettled ==
    ASSUME UNCHANGED <<contract, sources>>, NEW m
    PROVE  /\ VerbsAt(m)' = VerbsAt(m)
           /\ VerbAttributes(m)' = VerbAttributes(m)
           /\ Conflicting(m)' <=> Conflicting(m)
           /\ Done' = Done
  <1>1. Order' = Order
    BY DEF Order
  <1>2. \A k : Declaration(k, m)' = Declaration(k, m)
    BY <1>1 DEF Declaration
  <1>3. DeclaredAt(m)' = DeclaredAt(m)
    BY <1>1, <1>2 DEF DeclaredAt
  <1>4. VerbsAt(m)' = VerbsAt(m)
    BY <1>2, <1>3 DEF VerbsAt
  <1>5. VerbAttributes(m)' = VerbAttributes(m)
    BY <1>2, <1>4 DEF VerbAttributes
  <1>6. MostSpecific(VerbsAt(m))' = MostSpecific(VerbsAt(m))
    BY <1>1, <1>4 DEF MostSpecific, Overridden
  <1>7. Conflicting(m)' <=> Conflicting(m)
    BY <1>2, <1>6 DEF Conflicting
  <1> QED
    BY <1>4, <1>5, <1>7 DEF Done

LEMMA VerbsAreKept == WalkInv /\ VerbInv /\ [Next]_vars => VerbInv'
  <1> SUFFICES ASSUME WalkInv, VerbInv, [Next]_vars PROVE VerbInv'
    OBVIOUS
  <1>1. CASE Refuse \/ StartWalk \/ Descend \/ Return \/ GroupMethods \/ RejectOverload
    <2>1. model' = model /\ pc \in {"start", "walk"}
      BY <1>1 DEF Refuse, StartWalk, Descend, Return, GroupMethods, RejectOverload
    <2> QED
      BY <2>1 DEF VerbInv, Parsed
  <1>2. ASSUME NEW m \in Methods, ParseMethod(m) PROVE VerbInv'
    <2>1. /\ pc = "methods" /\ pc' = pc /\ UNCHANGED <<contract, sources>>
          /\ ~Conflicting(m) /\ Parses(m)
          /\ model' = [n \in DOMAIN model \cup {m} |-> IF n = m THEN Parsing(m) ELSE model[n]]
      BY <1>2 DEF ParseMethod
    <2>2. /\ model'[m].operations = Operations(m)
          /\ \A n \in Parsed' \ {m} : n \in Parsed /\ model'[n] = model[n]
      BY <2>1 DEF Parsing, Parsed
    <2>3. VerbsAt(m) # {}
      BY <2>1 DEF Parses, VerbAttributes
    <2>4. /\ DOMAIN Operations(m) = DOMAIN VerbAttributes(m)
          /\ \A k \in DOMAIN VerbAttributes(m) :
               /\ Operations(m)[k].verb = VerbAttributes(m)[k].verb
               /\ Operations(m)[k].route = VerbAttributes(m)[k].route
      BY DEF Operations, Operation
    <2>5. FollowsVerbs(m)'
      BY <2>1, <2>2, <2>3, <2>4, VerbsAreSettled DEF FollowsVerbs
    <2>6. ASSUME NEW n \in Parsed', n # m PROVE FollowsVerbs(n)'
      <3>1. n \in Parsed /\ model'[n] = model[n]
        BY <2>2, <2>6
      <3> QED
        BY <2>1, <3>1, VerbsAreSettled DEF VerbInv, FollowsVerbs
    <2>7. (contract.all[Service] \subseteq Done)'
      BY <2>1, VerbsAreSettled DEF WalkInv, WalkEnds
    <2> QED
      BY <2>1, <2>5, <2>6, <2>7 DEF VerbInv
  <1>3. CASE \/ \E m \in Methods : SkipMethod(m)
             \/ Accept \/ Reject \/ UNCHANGED vars
    <2>1. /\ UNCHANGED <<contract, sources, model>>
          /\ pc' \in {"start", "walk"} => pc' = pc
      BY <1>3 DEF SkipMethod, Accept, Reject, vars
    <2>2. Parsed' = Parsed
      BY <2>1 DEF Parsed
    <2>3. ASSUME NEW n \in Parsed PROVE FollowsVerbs(n)'
      BY <2>1, <2>3, VerbsAreSettled DEF VerbInv, FollowsVerbs
    <2> QED
      BY <2>1, <2>2, <2>3, VerbsAreSettled DEF VerbInv
  <1> QED
    BY <1>1, <1>2, <1>3 DEF Next

LEMMA LastIsMostSpecific ==
    ASSUME WalkInv, VerbInv, NEW m \in Parsed
    PROVE  Last(VerbsAt(m)) \in MostSpecific(VerbsAt(m))
  <1>1. /\ VerbsAt(m) # {} /\ VerbsAt(m) \subseteq DOMAIN Order
        /\ VerbsAt(m) \in SUBSET (1..(Len(sources) + 1)) /\ Len(sources) + 1 \in Nat
    <2>1. VerbsAt(m) # {} /\ VerbsAt(m) \subseteq DOMAIN Order
      BY DEF VerbInv, FollowsVerbs, VerbsAt, DeclaredAt
    <2>2. Len(sources) \in Nat /\ DOMAIN Order = 1..(Len(sources) + 1)
      BY OrderShape
    <2> QED
      BY <2>1, <2>2
  <1>2. Last(VerbsAt(m)) \in VerbsAt(m) /\ \A j \in VerbsAt(m) : j <= Last(VerbsAt(m))
    BY <1>1, LastOfSome
  <1>3. \A j \in VerbsAt(m) : j \in Nat /\ Last(VerbsAt(m)) \in Nat
    BY <1>1, <1>2
  <1>4. ~Overridden(Last(VerbsAt(m)), VerbsAt(m))
    BY <1>1, <1>2, <1>3, OrderExtendsInheritance DEF Overridden
  <1> QED
    BY <1>2, <1>4 DEF MostSpecific

\* The places of the declarations with verbs are the interfaces that have them.
LEMMA PlacesAreInterfaces ==
    ASSUME WalkInv, VerbInv, NEW m \in Parsed
    PROVE  /\ WithVerbs(m) = {Order[k] : k \in VerbsAt(m)}
           /\ Sovereign(WithVerbs(m)) = {Order[k] : k \in MostSpecific(VerbsAt(m))}
  <1>1. Hierarchy = {Order[k] : k \in DOMAIN Order}
    <2>1. contract.all[Service] = Done
      BY DEF WalkInv, SourcesAreOrdered, VerbInv
    <2>2. \A k \in DOMAIN Order : Order[k] \in Done \cup {Service}
      BY OrderShape
    <2>3. \A i \in Done \cup {Service} : \E k \in DOMAIN Order : Order[k] = i
      BY OrderShape
    <2> QED
      BY <2>1, <2>2, <2>3 DEF Hierarchy
  <1>2. \A k \in DOMAIN Order :
           k \in VerbsAt(m) <=>
             Declares(Order[k], m) /\ contract.declares[Order[k]][m].verbs # <<>>
    BY DEF VerbsAt, DeclaredAt, Declaration, Declares
  <1>3. VerbsAt(m) \subseteq DOMAIN Order
    BY DEF VerbsAt, DeclaredAt
  <1>4. WithVerbs(m) = {Order[k] : k \in VerbsAt(m)}
    BY <1>1, <1>2, <1>3 DEF WithVerbs
  <1>5. Sovereign(WithVerbs(m)) = {Order[k] : k \in MostSpecific(VerbsAt(m))}
    BY <1>4 DEF Sovereign, MostSpecific, Overridden
  <1> QED
    BY <1>4, <1>5

\* The operations of a method are the most specific interface's, whichever that is
\* (ParseMethod, ValidateInheritedOperationDeclarations).
THEOREM VerbsFollowInheritance == Spec => []MostSpecificVerbsWin
  <1>1. WalkInv /\ VerbInv => MostSpecificVerbsWin
    <2> SUFFICES ASSUME WalkInv, VerbInv, NEW m \in Parsed
                 PROVE  /\ Sovereign(WithVerbs(m)) # {}
                        /\ \A i \in Sovereign(WithVerbs(m)) :
                             LET verbs == contract.declares[i][m].verbs IN
                             /\ DOMAIN model[m].operations = DOMAIN verbs
                             /\ \A k \in DOMAIN verbs :
                                  /\ model[m].operations[k].verb = verbs[k].verb
                                  /\ model[m].operations[k].route = verbs[k].route
      BY DEF MostSpecificVerbsWin
    <2> DEFINE last == Last(VerbsAt(m))
    <2>1. last \in MostSpecific(VerbsAt(m))
      BY LastIsMostSpecific
    <2>2. VerbAttributes(m) = Declaration(last, m).verbs
      BY DEF VerbInv, FollowsVerbs, VerbAttributes
    <2>3. ASSUME NEW i \in Sovereign(WithVerbs(m))
          PROVE  contract.declares[i][m].verbs = VerbAttributes(m)
      <3>1. PICK k \in MostSpecific(VerbsAt(m)) : i = Order[k]
        BY PlacesAreInterfaces
      <3>2. Declaration(k, m).verbs = Declaration(last, m).verbs
        BY <2>1, <3>1 DEF VerbInv, FollowsVerbs, Conflicting
      <3> QED
        BY <2>2, <3>1, <3>2 DEF Declaration
    <2>4. Sovereign(WithVerbs(m)) # {}
      BY <2>1, PlacesAreInterfaces
    <2>5. FollowsVerbs(m)
      BY DEF VerbInv
    <2> QED
      BY <2>3, <2>4, <2>5 DEF FollowsVerbs
  <1> QED
    BY WalkIsInvariant, InitVerbs, VerbsAreKept, <1>1, PTL DEF Spec
=============================================================================
