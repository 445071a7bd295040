--------------------------- MODULE TurnEngine_proofs ---------------------------
(***************************************************************************)
(* What next_turn guarantees, for every set of participants and every      *)
(* initiative order.                                                       *)
(***************************************************************************)
EXTENDS TurnEngine, TLAPS, WellFoundedInduction

\* A nonempty set of natural numbers has a least member.
LEMMA LeastExists ==
    ASSUME NEW S \in SUBSET Nat, S # {}
    PROVE  \E k \in S : \A j \in S : k <= j
<1>1. PICK x \in S : \A y \in S : ~(<<y, x>> \in OpToRel(<, Nat))
    BY WFMin, NatLessThanWellFounded
<1>2. \A y \in S : ~(y < x)
    BY <1>1 DEF OpToRel
<1>3. \A y \in S : x <= y
    BY <1>2
<1> QED
    BY <1>3

\* What holds at 0 and is passed on from each number to the next holds up to "n".
LEMMA CountingUp ==
    ASSUME NEW n \in Nat, NEW S, 0 \in S, \A k \in 1 .. n : k - 1 \in S => k \in S
    PROVE  0 .. n \subseteq S
<1> DEFINE bad == (0 .. n) \ S
<1> SUFFICES ASSUME bad # {} PROVE FALSE
    OBVIOUS
<1>1. bad \in SUBSET Nat
    OBVIOUS
<1>2. PICK k \in bad : \A j \in bad : k <= j
  <2> HIDE DEF bad
  <2> QED
      BY <1>1, LeastExists
<1>3. k \in 1 .. n /\ k - 1 \in 0 .. n
    BY <1>2
<1>4. k - 1 \notin bad
  <2>1. ~(k <= k - 1)
      BY <1>3
  <2> QED
      BY <1>2, <2>1
<1> QED
    BY <1>2, <1>3, <1>4

\* Nearest picks the least offset.
LEMMA NearestIsLeast ==
    ASSUME NEW S \in SUBSET Nat, S # {}
    PROVE  Nearest(S) \in S /\ \A j \in S : Nearest(S) <= j
BY LeastExists DEF Nearest

\* The order is a sequence that names every participant at one place.
LEMMA PlaceInOrder ==
    ASSUME NEW p \in Participants
    PROVE  /\ Len(Initiative) \in Nat \ {0}
           /\ DOMAIN Initiative = 1 .. Len(Initiative)
           /\ Initiative \in [1 .. Len(Initiative) -> Participants]
           /\ Place(p) \in 1 .. Len(Initiative)
           /\ Initiative[Place(p)] = p
<1>1. /\ Len(Initiative) \in Nat \ {0}
      /\ DOMAIN Initiative = 1 .. Len(Initiative)
      /\ Initiative \in [1 .. Len(Initiative) -> Participants]
    BY InitiativeAssumption
<1>2. \E i \in DOMAIN Initiative : Initiative[i] = p
    BY InitiativeAssumption
<1> QED
    BY <1>1, <1>2 DEF Place

\* Going round the order stays on it; the place "k" steps on is reached with
\* one wrap at most.
LEMMA AfterWraps ==
    ASSUME NEW n \in Nat \ {0}, n = Len(Initiative),
           NEW i \in 1 .. n, NEW k \in 1 .. n
    PROVE  /\ After(i, k) \in 1 .. n
           /\ After(i, k) = IF i + k <= n THEN i + k ELSE i + k - n
<1>1. i - 1 + k \in 0 .. 2 * n - 1
    OBVIOUS
<1>2. CASE i + k <= n
  <2>1. (i - 1 + k) % n = i - 1 + k
      BY <1>1, <1>2
  <2> QED
      BY <1>2, <2>1 DEF After
<1>3. CASE i + k > n
  <2>1. (i - 1 + k) % n = i - 1 + k - n
      BY <1>1, <1>3
  <2> QED
      BY <1>3, <2>1 DEF After
<1> QED
    BY <1>2, <1>3

\* How many steps lead from one place of the order to another.
LEMMA StepsBetween ==
    ASSUME NEW n \in Nat \ {0}, n = Len(Initiative),
           NEW i \in 1 .. n, NEW j \in 1 .. n
    PROVE  LET d == IF j > i THEN j - i ELSE j - i + n
           IN  d \in 1 .. n /\ After(i, d) = j
<1> DEFINE d == IF j > i THEN j - i ELSE j - i + n
<1>1. d \in 1 .. n
    OBVIOUS
<1>2. After(i, d) = IF i + d <= n THEN i + d ELSE i + d - n
  <2> HIDE DEF d
  <2> QED
      BY <1>1, AfterWraps
<1> QED
    BY <1>1, <1>2

\* The turn passes to a living participant, nobody alive between the two in
\* the order, the counters as the order demands.
LEMMA NextTurnIsNearestLiving ==
    ASSUME NEW s, NEW t \in Turns, Living(s) # {}
    PROVE  LET next == NextTurn(t, s)
           IN  /\ next \in Turns
               /\ next.actor \in Living(s)
               /\ next.turn = t.turn + 1
               /\ next.round = IF Place(next.actor) <= Place(t.actor)
                               THEN t.round + 1 ELSE t.round
               /\ \A k \in PassedOver(Place(t.actor), Place(next.actor)) :
                      Initiative[k] \notin Living(s)
<1> DEFINE n       == Len(Initiative)
           from    == Place(t.actor)
           offsets == LivingOffsets(s, t.actor)
           k       == Nearest(offsets)
           to      == After(from, k)
<1>1. /\ n \in Nat \ {0}
      /\ DOMAIN Initiative = 1 .. n
      /\ \A i \in 1 .. n : Initiative[i] \in Participants
      /\ from \in 1 .. n
    BY PlaceInOrder DEF Turns
<1>2. \A i \in 1 .. n : Place(Initiative[i]) = i
    BY <1>1, PlaceInOrder, InitiativeAssumption
<1>3. offsets \in SUBSET Nat /\ offsets \subseteq 1 .. n
    BY <1>1 DEF LivingOffsets
<1>4. offsets # {}
  <2>1. PICK p \in Living(s) : TRUE
      OBVIOUS
  <2>2. Place(p) \in 1 .. n /\ Initiative[Place(p)] = p
      BY <2>1, PlaceInOrder DEF Living
  <2> DEFINE d == IF Place(p) > from THEN Place(p) - from ELSE Place(p) - from + n
  <2>3. d \in 1 .. n /\ After(from, d) = Place(p)
      BY <1>1, <2>2, StepsBetween
  <2> QED
      BY <1>1, <2>1, <2>2, <2>3 DEF LivingOffsets
<1>5. /\ k \in 1 .. n
      /\ k \in offsets
      /\ \A j \in offsets : k <= j
    BY <1>3, <1>4, NearestIsLeast
<1>6. to \in 1 .. n /\ to = IF from + k <= n THEN from + k ELSE from + k - n
    BY <1>1, <1>5, AfterWraps
<1>7. Initiative[to] \in Living(s)
    BY <1>5 DEF LivingOffsets
<1>8. Place(Initiative[to]) = to
    BY <1>2, <1>6
<1>9. NextTurn(t, s) = [round |-> IF to <= from THEN t.round + 1 ELSE t.round,
                       turn  |-> t.turn + 1,
                       actor |-> Initiative[to]]
    BY <1>4 DEF NextTurn
<1>10. ASSUME NEW x \in PassedOver(from, to)
       PROVE  Initiative[x] \notin Living(s)
  <2> DEFINE d == IF x > from THEN x - from ELSE x - from + n
  <2>1. /\ x \in 1 .. n
        /\ to > from => x > from /\ x < to
        /\ to <= from => x > from \/ x < to
      BY <1>1, <1>6, <1>10 DEF PassedOver
  <2>2. d \in 1 .. n /\ d < k
      BY <1>1, <1>5, <1>6, <2>1
  <2>3. After(from, d) = x
      BY <1>1, <2>1, <2>2, StepsBetween
  <2>4. d \notin offsets
      BY <1>1, <1>5, <2>2
  <2> QED
      BY <1>1, <2>1, <2>2, <2>3, <2>4 DEF LivingOffsets
<1>11. Initiative[to] \in Participants
    BY <1>1, <1>6
<1> QED
    BY <1>7, <1>8, <1>9, <1>10, <1>11 DEF Turns
===============================================================================
