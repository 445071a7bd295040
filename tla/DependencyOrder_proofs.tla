------------------------ MODULE DependencyOrder_proofs ------------------------
(***************************************************************************)
(* What the ordering of the derived ruleset values guarantees, for every   *)
(* set of keys and every reading of them by each other.                    *)
(***************************************************************************)
EXTENDS DependencyOrder, TLAPS, FiniteSetTheorems, WellFoundedInduction

Targets == DOMAIN dependencies

\* What a target still waits for.
Missing(t) == dependencies[t] \ Placed

OrderTypeOK ==
    /\ Targets \in SUBSET Keys
    /\ dependencies \in [Targets -> SUBSET Targets]
    /\ remaining \in [Targets -> Nat]
    /\ ready \in SUBSET Targets
    /\ order \in Seq(Targets)

\* The count kept for a target is the number of its reads that are not placed.
Counted == \A t \in Targets : remaining[t] = Cardinality(Missing(t))

\* Ready is what could be placed and has not been.
ReadyIsFree == ready = {t \in Targets \ Placed : Missing(t) = {}}

\* The inductive invariant.  The count and the set of what is ready need each
\* other: a target becomes ready at the moment its count reaches one.
OrderInv ==
    /\ OrderTypeOK
    /\ Counted
    /\ ReadyIsFree
    /\ ReadsPlacedFirst
    /\ Len(order) = Cardinality(Placed)

-------------------------------------------------------------------------------
(* Facts about keys and the plan. *)

\* A nonempty set of keys has a least one, which ready.pop_first returns.
LEMMA FirstIsMember ==
    ASSUME NEW S \in SUBSET Keys, S # {}
    PROVE  First(S) \in S /\ \A j \in S : First(S) <= j
<1>1. PICK x \in S : \A y \in S : ~(<<y, x>> \in OpToRel(<, Nat))
    BY KeysAssumption, WFMin, NatLessThanWellFounded
<1>2. \A y \in S : ~(y < x)
    BY <1>1, KeysAssumption DEF OpToRel
<1>3. \A y \in S : x <= y
    BY <1>2, KeysAssumption
<1> QED
    BY <1>3 DEF First

\* Every set of targets is finite.
LEMMA TargetsFinite ==
    ASSUME OrderTypeOK, NEW S \in SUBSET Targets
    PROVE  IsFiniteSet(S)
<1>1. S \in SUBSET Keys
    BY DEF OrderTypeOK
<1> QED
    BY <1>1, KeysAssumption, FS_Subset

\* What is placed are targets, and the reads of what is placed are placed.
LEMMA PlacedClosed ==
    ASSUME OrderTypeOK, ReadsPlacedFirst
    PROVE  /\ Placed \in SUBSET Targets
           /\ \A t \in Placed : dependencies[t] \subseteq Placed
<1>1. Placed \in SUBSET Targets
    BY DEF OrderTypeOK, Placed
<1>2. ASSUME NEW t \in Placed, NEW read \in dependencies[t]
      PROVE  read \in Placed
  <2>1. PICK k \in DOMAIN order : order[k] = t
      BY DEF Placed
  <2>2. PICK j \in 1 .. k - 1 : order[j] = read
      BY <2>1 DEF ReadsPlacedFirst
  <2>3. j \in DOMAIN order
      BY <2>1, <2>2 DEF OrderTypeOK
  <2> QED
      BY <2>2, <2>3 DEF Placed
<1> QED
    BY <1>1, <1>2

-------------------------------------------------------------------------------
(* Every step keeps the invariant. *)

\* Nothing is ordered at first.
LEMMA InitOrdered == OrderInit => OrderInv
<1> SUFFICES ASSUME OrderInit PROVE OrderInv
    OBVIOUS
<1>1. Targets = {} /\ order = <<>> /\ DOMAIN order = {} /\ Placed = {}
    BY DEF OrderInit, Targets, Placed
<1>2. OrderTypeOK
    BY <1>1 DEF OrderInit, OrderTypeOK, Targets
<1>3. Counted /\ ReadyIsFree /\ ReadsPlacedFirst
    BY <1>1 DEF OrderInit, Counted, ReadyIsFree, ReadsPlacedFirst
<1>4. Len(order) = Cardinality(Placed)
    BY <1>1, FS_EmptySet
<1> QED
    BY <1>2, <1>3, <1>4 DEF OrderInv

\* A ruleset is taken up: what reads nothing is ready, all else waits for all
\* that it reads.
LEMMA StartKeeps ==
    ASSUME Start
    PROVE  OrderInv'
<1>1. PICK targets \in SUBSET Keys : \E reads \in [targets -> SUBSET targets] : StartOrder(reads)
    BY DEF Start
<1>2. PICK reads \in [targets -> SUBSET targets] : StartOrder(reads)
    BY <1>1
<1>3. /\ dependencies' = reads
      /\ remaining' = [t \in targets |-> Cardinality(reads[t])]
      /\ ready' = {t \in targets : Cardinality(reads[t]) = 0}
      /\ order' = <<>>
    BY <1>2 DEF StartOrder
<1>4. Targets' = targets /\ Placed' = {} /\ DOMAIN order' = {}
    BY <1>3 DEF Targets, Placed
<1>5. \A t \in targets : /\ IsFiniteSet(reads[t])
                         /\ Cardinality(reads[t]) \in Nat
                         /\ Cardinality(reads[t]) = 0 <=> reads[t] = {}
  <2> TAKE t \in targets
  <2>1. IsFiniteSet(reads[t])
      BY KeysAssumption, FS_Subset
  <2> QED
      BY <2>1, FS_CardinalityType, FS_EmptySet
<1>6. OrderTypeOK'
    BY <1>3, <1>4, <1>5 DEF OrderTypeOK
<1>7. \A t \in targets : Missing(t)' = reads[t]
    BY <1>3, <1>4 DEF Missing
<1>8. Counted'
    BY <1>3, <1>4, <1>7 DEF Counted
<1>9. ReadyIsFree'
    BY <1>3, <1>4, <1>5, <1>7 DEF ReadyIsFree
<1>10. ReadsPlacedFirst'
    BY <1>4 DEF ReadsPlacedFirst
<1>11. (Len(order) = Cardinality(Placed))'
    BY <1>3, <1>4, FS_EmptySet
<1> QED
    BY <1>6, <1>8, <1>9, <1>10, <1>11 DEF OrderInv

\* The next target is placed: it had all its reads before it, and its
\* dependents wait for one read less.
LEMMA PlaceKeeps ==
    ASSUME OrderInv, PlaceFirst
    PROVE  OrderInv'
<1> DEFINE x == First(ready)
<1>1. /\ OrderTypeOK
      /\ Counted
      /\ ReadyIsFree
      /\ ReadsPlacedFirst
      /\ Len(order) = Cardinality(Placed)
    BY DEF OrderInv
<1>2. x \in ready
    BY <1>1, FirstIsMember DEF PlaceFirst, OrderTypeOK
<1>3. x \in Targets /\ x \notin Placed /\ Missing(x) = {}
    BY <1>1, <1>2 DEF ReadyIsFree
<1>4. /\ dependencies' = dependencies
      /\ order' = Append(order, x)
      /\ remaining' = [t \in Targets |-> IF x \in dependencies[t] THEN remaining[t] - 1 ELSE remaining[t]]
      /\ ready' = (ready \ {x}) \cup {t \in Targets : x \in dependencies[t] /\ remaining[t] = 1}
    BY <1>1 DEF PlaceFirst, OrderTypeOK
<1> HIDE DEF x
<1>5. Targets' = Targets
    BY <1>4 DEF Targets
<1>6. /\ order' \in Seq(Targets)
      /\ Len(order') = Len(order) + 1
      /\ DOMAIN order = 1 .. Len(order)
      /\ DOMAIN order' = 1 .. Len(order) + 1
      /\ \A k \in 1 .. Len(order) : order'[k] = order[k]
      /\ order'[Len(order) + 1] = x
      /\ Len(order) \in Nat
    BY <1>1, <1>3, <1>4 DEF OrderTypeOK
<1>7. Placed' = Placed \cup {x}
    BY <1>6 DEF Placed
<1>8. /\ Placed \in SUBSET Targets
      /\ \A t \in Placed : dependencies[t] \subseteq Placed
    BY <1>1, PlacedClosed
<1>9. \A t \in Targets : dependencies[t] \in SUBSET Targets
    BY <1>1 DEF OrderTypeOK
<1>10. \A t \in Targets : Missing(t)' = Missing(t) \ {x}
    BY <1>4, <1>7 DEF Missing
<1>11. \A t \in Targets : x \in Missing(t) <=> x \in dependencies[t]
    BY <1>3 DEF Missing
<1>12. \A t \in Targets : IsFiniteSet(Missing(t)) /\ Cardinality(Missing(t)) \in Nat
  <2> TAKE t \in Targets
  <2>1. Missing(t) \in SUBSET Targets
      BY <1>9 DEF Missing
  <2>2. IsFiniteSet(Missing(t))
      BY <1>1, <2>1, TargetsFinite
  <2> QED
      BY <2>2, FS_CardinalityType
<1>13. \A t \in Targets :
          Cardinality(Missing(t)') = IF x \in Missing(t) THEN Cardinality(Missing(t)) - 1
                                                         ELSE Cardinality(Missing(t))
    BY <1>10, <1>12, FS_RemoveElement
<1>14. \A t \in Targets : remaining'[t] = Cardinality(Missing(t)') /\ remaining'[t] \in Nat
  <2> TAKE t \in Targets
  <2>1. remaining[t] = Cardinality(Missing(t))
      BY <1>1 DEF Counted
  <2>2. remaining'[t] = Cardinality(Missing(t)')
      BY <1>4, <1>11, <1>13, <2>1
  <2>3. IsFiniteSet(Missing(t) \ {x})
      BY <1>12, FS_RemoveElement
  <2> QED
      BY <1>10, <2>2, <2>3, FS_CardinalityType
<1>15. Counted'
    BY <1>5, <1>14 DEF Counted
<1>16. \A t \in Targets : x \in dependencies[t] =>
                             (remaining[t] = 1 <=> Missing(t) = {x})
  <2> SUFFICES ASSUME NEW t \in Targets, x \in dependencies[t]
               PROVE  remaining[t] = 1 <=> Missing(t) = {x}
      OBVIOUS
  <2>1. x \in Missing(t)
      BY <1>11
  <2>2. remaining[t] = Cardinality(Missing(t))
      BY <1>1 DEF Counted
  <2>3. Cardinality(Missing(t)) = 1 <=> \E y : Missing(t) = {y}
      BY <1>12, FS_Singleton
  <2> QED
      BY <2>1, <2>2, <2>3
<1>17. ReadyIsFree'
  <2>1. ASSUME NEW t \in Targets
        PROVE  t \in ready' <=> t \notin Placed' /\ Missing(t)' = {}
    <3>1. t \in ready <=> t \notin Placed /\ Missing(t) = {}
        BY <1>1 DEF ReadyIsFree
    <3>2. CASE x \in dependencies[t]
      <4>1. x \in Missing(t) /\ t # x
          BY <1>3, <1>11, <3>2
      <4>2. t \notin Placed
          BY <1>3, <1>8, <3>2
      <4>3. t \in ready' <=> remaining[t] = 1
          BY <1>4, <3>1, <3>2, <4>1
      <4>4. Missing(t)' = {} <=> Missing(t) = {x}
          BY <1>10, <4>1
      <4> QED
          BY <1>7, <1>16, <3>2, <4>1, <4>2, <4>3, <4>4
    <3>3. CASE x \notin dependencies[t]
      <4>1. Missing(t)' = Missing(t)
          BY <1>10, <1>11, <3>3
      <4>2. t \in ready' <=> t \in ready /\ t # x
          BY <1>4, <3>3
      <4> QED
          BY <1>7, <3>1, <4>1, <4>2
    <3> QED
        BY <3>2, <3>3
  <2>2. ready' \subseteq Targets
      BY <1>1, <1>4 DEF OrderTypeOK
  <2> QED
      BY <1>5, <2>1, <2>2 DEF ReadyIsFree
<1>18. OrderTypeOK'
  <2>1. remaining' \in [Targets -> Nat]
      BY <1>4, <1>14
  <2>2. ready' \in SUBSET Targets
      BY <1>1, <1>4 DEF OrderTypeOK
  <2> QED
      BY <1>1, <1>4, <1>5, <1>6, <2>1, <2>2 DEF OrderTypeOK
<1>19. ReadsPlacedFirst'
  <2>1. \A k \in 1 .. Len(order) : order[k] # x
      BY <1>3, <1>6 DEF Placed
  <2>2. dependencies[x] \subseteq Placed
      BY <1>3 DEF Missing
  <2>3. ASSUME NEW k \in 1 .. Len(order) + 1, NEW j \in 1 .. Len(order) + 1,
               order'[j] = order'[k]
        PROVE  j = k
      BY <1>1, <1>6, <2>1, <2>3 DEF ReadsPlacedFirst
  <2>4. ASSUME NEW k \in 1 .. Len(order) + 1, NEW read \in dependencies[order'[k]]
        PROVE  \E j \in 1 .. k - 1 : order'[j] = read
    <3>1. CASE k \in 1 .. Len(order)
      <4>1. PICK j \in 1 .. k - 1 : order[j] = read
          BY <1>1, <1>6, <2>4, <3>1 DEF ReadsPlacedFirst
      <4>2. j \in 1 .. Len(order)
          BY <1>6, <3>1, <4>1
      <4> QED
          BY <1>6, <4>1, <4>2
    <3>2. CASE k = Len(order) + 1
      <4>1. read \in Placed
          BY <1>6, <2>2, <2>4, <3>2
      <4>2. PICK j \in 1 .. Len(order) : order[j] = read
          BY <1>6, <4>1 DEF Placed
      <4> QED
          BY <1>6, <3>2, <4>2
    <3> QED
        BY <1>6, <3>1, <3>2
  <2> QED
      BY <1>4, <1>6, <2>3, <2>4 DEF ReadsPlacedFirst
<1>20. (Len(order) = Cardinality(Placed))'
  <2>1. IsFiniteSet(Placed)
      BY <1>1, <1>8, TargetsFinite
  <2>2. Cardinality(Placed \cup {x}) = Cardinality(Placed) + 1
      BY <1>3, <2>1, FS_AddElement
  <2> QED
      BY <1>1, <1>6, <1>7, <2>2
<1> QED
    BY <1>15, <1>17, <1>18, <1>19, <1>20 DEF OrderInv

\* The counts and the plan agree at every moment of an ordering
\* (compile_ruleset_value_plan).
THEOREM OrderInvariant == OrderSpec => []OrderInv
<1>1. OrderInv /\ [Start \/ PlaceFirst]_orderVars => OrderInv'
  <2> SUFFICES ASSUME OrderInv, [Start \/ PlaceFirst]_orderVars PROVE OrderInv'
      OBVIOUS
  <2>1. CASE Start
      BY <2>1, StartKeeps
  <2>2. CASE PlaceFirst
      BY <2>2, PlaceKeeps
  <2>3. CASE UNCHANGED orderVars
      BY <2>3 DEF orderVars, OrderInv, OrderTypeOK, Counted, ReadyIsFree, ReadsPlacedFirst,
                  Missing, Targets, Placed
  <2> QED
      BY <2>1, <2>2, <2>3
<1> QED
    BY <1>1, InitOrdered, PTL DEF OrderSpec

-------------------------------------------------------------------------------
(* The plan. *)

\* Whatever reads what, a derived value is placed once and after all it reads,
\* so that the evaluation of the plan finds each of them computed.
THEOREM PlanIsOrdered == OrderSpec => []ReadsPlacedFirst
BY OrderInvariant, PTL DEF OrderInv

\* What is left unplaced waits for itself.
LEMMA LeftoverIsCircular ==
    ASSUME OrderInv, Ordered, Placed # Targets
    PROVE  Circular
<1> DEFINE left == Targets \ Placed
<1>1. OrderTypeOK /\ ReadyIsFree /\ ReadsPlacedFirst
    BY DEF OrderInv
<1>2. left # {}
    BY <1>1, PlacedClosed
<1>3. \A t \in left : dependencies[t] \cap left # {}
  <2> TAKE t \in left
  <2>1. Missing(t) # {}
      BY <1>1 DEF ReadyIsFree, Ordered
  <2>2. Missing(t) \subseteq left
      BY <1>1 DEF Missing, OrderTypeOK
  <2> QED
      BY <2>1, <2>2 DEF Missing
<1>4. left \in SUBSET DOMAIN dependencies
    BY DEF Targets
<1> QED
    BY <1>2, <1>3, <1>4 DEF Circular

\* Of values that wait for each other, none can be the first to be placed.
LEMMA CircularIsLeftOver ==
    ASSUME OrderInv, Circular
    PROVE  Placed # Targets
<1> SUFFICES ASSUME Placed = Targets PROVE FALSE
    OBVIOUS
<1>1. OrderTypeOK /\ ReadsPlacedFirst
    BY DEF OrderInv
<1>2. PICK S \in SUBSET Targets : S # {} /\ \A t \in S : dependencies[t] \cap S # {}
    BY DEF Circular, Targets
<1> DEFINE places == {k \in DOMAIN order : order[k] \in S}
<1>3. places \in SUBSET Nat
    BY <1>1 DEF OrderTypeOK
<1>4. places # {}
    BY <1>2 DEF Placed
<1>5. PICK k \in places : \A j \in places : ~(<<j, k>> \in OpToRel(<, Nat))
    BY <1>3, <1>4, WFMin, NatLessThanWellFounded
<1>6. PICK read \in dependencies[order[k]] : read \in S
    BY <1>2
<1>7. PICK j \in 1 .. k - 1 : order[j] = read
    BY <1>1, <1>6 DEF ReadsPlacedFirst
<1>8. j \in places /\ j < k
    BY <1>1, <1>3, <1>6, <1>7 DEF OrderTypeOK
<1> QED
    BY <1>3, <1>5, <1>8 DEF OpToRel

\* The comparison that decides on the diagnostic of a cycle is exact: the plan
\* is short if and only if some derived values read each other in a circle.
THEOREM CyclesAreReported == OrderSpec => []ShortPlanIsCircular
<1>1. OrderInv => ShortPlanIsCircular
  <2> SUFFICES ASSUME OrderInv, Ordered PROVE Cyclic <=> Circular
      BY DEF ShortPlanIsCircular
  <2>1. OrderTypeOK /\ Placed \in SUBSET Targets
      BY PlacedClosed DEF OrderInv
  <2>2. IsFiniteSet(Targets)
      BY <2>1, TargetsFinite
  <2>3. Cyclic <=> Cardinality(Placed) # Cardinality(Targets)
      BY DEF Cyclic, OrderInv, Targets
  <2>4. Cyclic <=> Placed # Targets
      BY <2>1, <2>2, <2>3, FS_Subset
  <2> QED
      BY <2>4, LeftoverIsCircular, CircularIsLeftOver
<1> QED
    BY <1>1, OrderInvariant, PTL
===============================================================================
