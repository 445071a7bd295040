------------------------ MODULE TransitionLedger_proofs ------------------------
(***************************************************************************)
(* What effects, modifiers and spatial sources have left after any number  *)
(* of transactions, for every content and all rulesets.                    *)
(***************************************************************************)
EXTENDS RestoredLedger, TurnEngine_proofs, FiniteSetTheorems, SequenceTheorems

-------------------------------------------------------------------------------
(* Types. *)

Moves == [mover : Participants, start : Cells, route : Seq(Cells)]

TriggerCandidates ==
    [boundary : 1 .. 4, definition : DOMAIN SourceDefinitions, source : Participants,
     cell : Cells, participant : Participants]

Firings == TriggerCandidates \X {"suppressed", "applied", "inapplicable"}

Transactions ==
    [ok : BOOLEAN, state : States, moves : {M \in SUBSET Moves : IsFiniteSet(M)},
     modified : SUBSET (Participants \X DOMAIN Modifiers), fired : Seq(Firings)]

-------------------------------------------------------------------------------
(* Recursion. *)

\* What a function makes of a finite set is finite and no larger.
LEMMA ImageFinite ==
    ASSUME NEW S, IsFiniteSet(S), NEW f
    PROVE  IsFiniteSet({f[x] : x \in S}) /\ Cardinality({f[x] : x \in S}) <= Cardinality(S)
<1> DEFINE g == [x \in S |-> f[x]]
           T == {f[x] : x \in S}
<1>1. g \in Surjection(S, T)
    BY DEF Surjection
<1> HIDE DEF g, T
<1>2. IsFiniteSet(T) /\ Cardinality(T) <= Cardinality(S)
    BY <1>1, FS_Surjection
<1> QED
    BY <1>2 DEF T

\* The results "f" of the steps up to each of them.
Walk(f, n, V, start, step) ==
    /\ f \in [0 .. n -> V]
    /\ f[0] = start
    /\ \A k \in 1 .. n : f[k] = step[k][f[k - 1]]

\* Steps that stay in a set can be taken one after another.
LEMMA StepsTaken ==
    ASSUME NEW n \in Nat, NEW V, NEW start \in V, NEW step \in [1 .. n -> [V -> V]]
    PROVE  \E f : Walk(f, n, V, start, step)
<1> DEFINE S == {m \in 0 .. n : \E f \in [0 .. m -> V] :
                    f[0] = start /\ \A k \in 1 .. m : f[k] = step[k][f[k - 1]]}
<1>1. 0 \in S
  <2> DEFINE f == [k \in 0 .. 0 |-> start]
  <2>1. f \in [0 .. 0 -> V] /\ f[0] = start
      OBVIOUS
  <2>2. \A k \in 1 .. 0 : f[k] = step[k][f[k - 1]]
      OBVIOUS
  <2> HIDE DEF f
  <2> QED
      BY <2>1, <2>2
<1>2. ASSUME NEW m \in 1 .. n, m - 1 \in S
      PROVE  m \in S
  <2>1. PICK f \in [0 .. m - 1 -> V] :
           f[0] = start /\ \A k \in 1 .. m - 1 : f[k] = step[k][f[k - 1]]
      BY <1>2
  <2> DEFINE g == [k \in 0 .. m |-> IF k = m THEN step[m][f[m - 1]] ELSE f[k]]
  <2>2. \A k \in 0 .. m - 1 : g[k] = f[k]
      OBVIOUS
  <2>3. g[m] = step[m][f[m - 1]]
      OBVIOUS
  <2>4. step[m][f[m - 1]] \in V
    <3>1. f[m - 1] \in V
        BY <2>1
    <3>2. step[m] \in [V -> V]
        OBVIOUS
    <3> QED
        BY <3>1, <3>2
  <2>5. g \in [0 .. m -> V]
    <3>1. \A k \in 0 .. m : k # m => k \in 0 .. m - 1
        OBVIOUS
    <3> QED
        BY <2>1, <2>4, <3>1
  <2> HIDE DEF g
  <2>6. ASSUME NEW k \in 1 .. m
        PROVE  g[k] = step[k][g[k - 1]]
    <3>1. k - 1 \in 0 .. m - 1 /\ g[k - 1] = f[k - 1]
        BY <2>2
    <3>2. CASE k = m
        BY <2>3, <3>1, <3>2
    <3>3. CASE k # m
      <4>1. k \in 1 .. m - 1 /\ k \in 0 .. m - 1
          BY <3>3
      <4> QED
          BY <2>1, <2>2, <3>1, <4>1
    <3> QED
        BY <3>2, <3>3
  <2>7. g[0] = start /\ m \in 0 .. n
      BY <2>1, <2>2
  <2> QED
      BY <2>5, <2>6, <2>7
<1>3. n \in S
  <2>1. \A m \in 1 .. n : m - 1 \in S => m \in S
      BY <1>2
  <2> HIDE DEF S
  <2>2. 0 .. n \subseteq S
      BY <1>1, <2>1, CountingUp
  <2> QED
      BY <2>2
<1> QED
    BY <1>3 DEF Walk

\* What every operation of a program keeps, the program keeps.
LEMMA ProgramStays ==
    ASSUME NEW V, NEW t \in V, NEW program \in Seq(Operations),
           NEW actor, NEW target, NEW cell,
           \A k \in 1 .. Len(program) : \A x \in V :
              x.ok => Operate(x, program[k], actor, target, cell) \in V
    PROVE  RunProgram(t, program, actor, target, cell) \in V
<1> DEFINE n    == Len(program)
           step == [k \in 1 .. n |-> [x \in V |-> Further(x, program[k], actor, target, cell)]]
           run  == CHOOSE f : f = [k \in 0 .. n |->
                      IF k = 0 THEN t ELSE Further(f[k - 1], program[k], actor, target, cell)]
<1>1. n \in Nat
    OBVIOUS
<1>2. \A k \in 1 .. n, x \in V : Further(x, program[k], actor, target, cell) \in V
    BY DEF Further
<1>3. step \in [1 .. n -> [V -> V]]
    BY <1>2
<1>4. \A k \in 1 .. n, x \in V : step[k][x] = Further(x, program[k], actor, target, cell)
    OBVIOUS
<1>5. RunProgram(t, program, actor, target, cell) = run[n]
    BY DEF RunProgram
<1> HIDE DEF step, n
<1>6. PICK f : Walk(f, n, V, t, step)
    BY <1>1, <1>3, StepsTaken
<1> DEFINE g == [k \in 0 .. n |->
                    IF k = 0 THEN t ELSE Further(f[k - 1], program[k], actor, target, cell)]
<1>7. ASSUME NEW k \in 0 .. n
      PROVE  f[k] = g[k]
  <2>1. CASE k = 0
      BY <1>6, <2>1 DEF Walk
  <2>2. CASE k # 0
    <3>1. k \in 1 .. n /\ k - 1 \in 0 .. n
        BY <1>1, <2>2
    <3> QED
        BY <1>4, <1>6, <3>1 DEF Walk
  <2> QED
      BY <2>1, <2>2
<1>8. f = g
    BY <1>6, <1>7 DEF Walk
<1>9. run = [k \in 0 .. n |->
                IF k = 0 THEN t ELSE Further(run[k - 1], program[k], actor, target, cell)]
    BY <1>8
<1> HIDE DEF run
<1> DEFINE S == {k \in 0 .. n : run[k] \in V}
<1>10. 0 \in S
    BY <1>1, <1>9
<1>11. ASSUME NEW k \in 1 .. n, k - 1 \in S
       PROVE  k \in S
  <2>1. k \in 0 .. n /\ k # 0
      BY <1>1
  <2>2. run[k] = Further(run[k - 1], program[k], actor, target, cell)
      BY <1>9, <2>1
  <2> QED
      BY <1>2, <1>11, <2>1, <2>2
<1>12. \A k \in 1 .. n : k - 1 \in S => k \in S
    BY <1>11
<1> HIDE DEF S
<1>13. n \in S
  <2>1. 0 .. n \subseteq S
      BY <1>1, <1>10, <1>12, CountingUp
  <2> QED
      BY <1>1, <2>1
<1> QED
    BY <1>5, <1>13 DEF S

\* What every dispatch keeps, with candidates left that are all of a kind, the
\* triggers keep.
LEMMA TriggersStay ==
    ASSUME NEW candidates, IsFiniteSet(candidates), NEW t, NEW revision,
           NEW V, [done |-> t, left |-> candidates] \in V,
           \A r \in V : DispatchFirst(r, revision) \in V
    PROVE  \E r \in V : RunTriggers(t, candidates, revision) = r.done
<1> DEFINE n     == Cardinality(candidates)
           start == [done |-> t, left |-> candidates]
           step  == [k \in 1 .. n |-> [r \in V |-> DispatchFirst(r, revision)]]
           run   == CHOOSE f : f = [k \in 0 .. n |->
                       IF k = 0 THEN start ELSE DispatchFirst(f[k - 1], revision)]
<1>1. n \in Nat
    BY FS_CardinalityType
<1>2. RunTriggers(t, candidates, revision) = run[n].done
    BY DEF RunTriggers
<1>3. step \in [1 .. n -> [V -> V]] /\ start \in V
    OBVIOUS
<1>4. \A k \in 1 .. n, r \in V : step[k][r] = DispatchFirst(r, revision)
    OBVIOUS
<1> HIDE DEF step, n, start
<1>5. PICK f : Walk(f, n, V, start, step)
    BY <1>1, <1>3, StepsTaken
<1> DEFINE g == [k \in 0 .. n |-> IF k = 0 THEN start ELSE DispatchFirst(f[k - 1], revision)]
<1>6. ASSUME NEW k \in 0 .. n
      PROVE  f[k] = g[k]
  <2>1. CASE k = 0
      BY <1>5, <2>1 DEF Walk
  <2>2. CASE k # 0
    <3>1. k \in 1 .. n /\ k - 1 \in 0 .. n
        BY <1>1, <2>2
    <3> QED
        BY <1>4, <1>5, <3>1 DEF Walk
  <2> QED
      BY <2>1, <2>2
<1>7. f = g
    BY <1>5, <1>6 DEF Walk
<1>8. run = [k \in 0 .. n |-> IF k = 0 THEN start ELSE DispatchFirst(run[k - 1], revision)]
    BY <1>7
<1> HIDE DEF run
<1> DEFINE S == {k \in 0 .. n : run[k] \in V}
<1>9. 0 \in S
    BY <1>1, <1>3, <1>8
<1>10. ASSUME NEW k \in 1 .. n, k - 1 \in S
       PROVE  k \in S
  <2>1. k \in 0 .. n /\ k # 0
      BY <1>1
  <2>2. run[k] = DispatchFirst(run[k - 1], revision)
      BY <1>8, <2>1
  <2> QED
      BY <1>10, <2>1, <2>2
<1>11. \A k \in 1 .. n : k - 1 \in S => k \in S
    BY <1>10
<1> HIDE DEF S
<1>12. n \in S
  <2>1. 0 .. n \subseteq S
      BY <1>1, <1>9, <1>11, CountingUp
  <2> QED
      BY <1>1, <2>1
<1> QED
    BY <1>2, <1>12 DEF S

\* Some of a set that are first by a count, equal among them and before the rest.
First(M, L, f) ==
    /\ M \in SUBSET L
    /\ M # {}
    /\ \A x \in M, y \in M : f[x] = f[y]
    /\ \A x \in M, c \in L \ M : f[x] < f[c]

\* There always are some.
LEMMA FirstBy ==
    ASSUME NEW L, L # {}, NEW f, \A c \in L : f[c] \in Nat
    PROVE  \E M : First(M, L, f)
<1> DEFINE N == {f[c] : c \in L}
<1>1. N \in SUBSET Nat /\ N # {}
    OBVIOUS
<1>2. PICK k \in N : \A j \in N : k <= j
  <2> HIDE DEF N
  <2> QED
      BY <1>1, LeastExists
<1> DEFINE M == {c \in L : f[c] = k}
<1>3. M # {} /\ M \in SUBSET L
    BY <1>2
<1>4. ASSUME NEW c \in L \ M
      PROVE  k < f[c]
  <2>1. f[c] \in N /\ f[c] # k /\ k \in Nat /\ f[c] \in Nat
      BY <1>1, <1>2
  <2>2. k <= f[c]
      BY <1>2, <2>1
  <2> QED
      BY <2>1, <2>2
<1>5. \A x \in M : f[x] = k
    OBVIOUS
<1> HIDE DEF M
<1> QED
    BY <1>3, <1>4, <1>5 DEF First

\* The order of candidates compares one field after the other.
LEMMA PrecedesBy ==
    ASSUME NEW a, NEW b
    PROVE  /\ a.boundary < b.boundary => Precedes(a, b)
           /\ a.boundary = b.boundary =>
                 /\ a.definition < b.definition => Precedes(a, b)
                 /\ a.definition = b.definition =>
                       /\ a.source < b.source => Precedes(a, b)
                       /\ a.source = b.source =>
                             /\ a.cell < b.cell => Precedes(a, b)
                             /\ a.cell = b.cell =>
                                   (a.participant < b.participant => Precedes(a, b))
<1> DEFINE rank(c) == <<c.boundary, c.definition, c.source, c.cell, c.participant>>
           Before(k) == /\ rank(a)[k] < rank(b)[k]
                        /\ \A j \in 1 .. k - 1 : rank(a)[j] = rank(b)[j]
<1>1. Precedes(a, b) = \E k \in 1 .. 5 : Before(k)
    BY DEF Precedes
<1>2. \A c : /\ rank(c)[1] = c.boundary
             /\ rank(c)[2] = c.definition
             /\ rank(c)[3] = c.source
             /\ rank(c)[4] = c.cell
             /\ rank(c)[5] = c.participant
    OBVIOUS
<1> HIDE DEF rank
<1>3. a.boundary < b.boundary => Before(1)
    BY <1>2
<1>4. a.boundary = b.boundary /\ a.definition < b.definition => Before(2)
    BY <1>2
<1>5. a.boundary = b.boundary /\ a.definition = b.definition /\ a.source < b.source => Before(3)
  <2>1. \A j \in 1 .. 3 - 1 : j = 1 \/ j = 2
      OBVIOUS
  <2> QED
      BY <1>2, <2>1
<1>6. /\ a.boundary = b.boundary /\ a.definition = b.definition /\ a.source = b.source
      /\ a.cell < b.cell
      => Before(4)
  <2>1. \A j \in 1 .. 4 - 1 : j = 1 \/ j = 2 \/ j = 3
      OBVIOUS
  <2> QED
      BY <1>2, <2>1
<1>7. /\ a.boundary = b.boundary /\ a.definition = b.definition /\ a.source = b.source
      /\ a.cell = b.cell /\ a.participant < b.participant
      => Before(5)
  <2>1. \A j \in 1 .. 5 - 1 : j = 1 \/ j = 2 \/ j = 3 \/ j = 4
      OBVIOUS
  <2> QED
      BY <1>2, <2>1
<1> HIDE DEF Before
<1> QED
    BY <1>1, <1>3, <1>4, <1>5, <1>6, <1>7

\* Among candidates there is a first one.
LEMMA FirstExists ==
    ASSUME NEW left \in SUBSET TriggerCandidates, left # {}
    PROVE  \E x \in left : \A d \in left \ {x} : Precedes(x, d)
<1> DEFINE f1 == [c \in TriggerCandidates |-> c.boundary]
           f2 == [c \in TriggerCandidates |-> c.definition]
           f3 == [c \in TriggerCandidates |-> c.source]
           f4 == [c \in TriggerCandidates |-> c.cell]
           f5 == [c \in TriggerCandidates |-> c.participant]
<1>1. \A c \in TriggerCandidates :
         /\ f1[c] = c.boundary /\ f1[c] \in Nat
         /\ f2[c] = c.definition /\ f2[c] \in Nat
         /\ f3[c] = c.source /\ f3[c] \in Nat
         /\ f4[c] = c.cell /\ f4[c] \in Nat
         /\ f5[c] = c.participant /\ f5[c] \in Nat
  <2>1. \A c \in TriggerCandidates :
           /\ c.boundary \in 1 .. 4
           /\ c.definition \in DOMAIN SourceDefinitions
           /\ c.source \in Participants
           /\ c.cell \in 1 .. Width
           /\ c.participant \in Participants
      BY DEF TriggerCandidates, Cells
  <2>2. DOMAIN SourceDefinitions \subseteq Nat /\ Participants \subseteq Nat
      BY TenureAssumption, InitiativeAssumption
  <2>3. 1 .. 4 \subseteq Nat /\ 1 .. Width \subseteq Nat
      BY BoardAssumption
  <2> QED
      BY <2>1, <2>2, <2>3
<1> HIDE DEF f1, f2, f3, f4, f5
<1>2. PICK L1 : First(L1, left, f1)
  <2>1. left # {} /\ \A c \in left : f1[c] \in Nat
      BY <1>1
  <2> QED
      BY <2>1, FirstBy
<1>3. PICK L2 : First(L2, L1, f2)
  <2>1. L1 # {} /\ \A c \in L1 : f2[c] \in Nat
      BY <1>1, <1>2 DEF First
  <2> QED
      BY <1>2, <2>1, FirstBy
<1>4. PICK L3 : First(L3, L2, f3)
  <2>1. L2 # {} /\ \A c \in L2 : f3[c] \in Nat
      BY <1>1, <1>2, <1>3 DEF First
  <2> QED
      BY <1>3, <2>1, FirstBy
<1>5. PICK L4 : First(L4, L3, f4)
  <2>1. L3 # {} /\ \A c \in L3 : f4[c] \in Nat
      BY <1>1, <1>2, <1>3, <1>4 DEF First
  <2> QED
      BY <1>4, <2>1, FirstBy
<1>6. PICK L5 : First(L5, L4, f5)
  <2>1. L4 # {} /\ \A c \in L4 : f5[c] \in Nat
      BY <1>1, <1>2, <1>3, <1>4, <1>5 DEF First
  <2> QED
      BY <1>5, <2>1, FirstBy
<1>7. PICK x \in L5 : TRUE
    BY <1>6 DEF First
<1>8. L1 \subseteq left /\ L2 \subseteq L1 /\ L3 \subseteq L2 /\ L4 \subseteq L3 /\ L5 \subseteq L4
    BY <1>2, <1>3, <1>4, <1>5, <1>6 DEF First
<1>9. ASSUME NEW d \in left \ {x}
      PROVE  Precedes(x, d)
  <2>1. /\ x \in L1 /\ x \in L2 /\ x \in L3 /\ x \in L4 /\ x \in left
        /\ x \in TriggerCandidates /\ d \in TriggerCandidates
      BY <1>7, <1>8
  <2>2. CASE d \notin L1
      BY <1>1, <1>2, <2>1, <2>2, PrecedesBy DEF First
  <2>3. CASE d \in L1 /\ d \notin L2
      BY <1>1, <1>2, <1>3, <2>1, <2>3, PrecedesBy DEF First
  <2>4. CASE d \in L2 /\ d \notin L3
      BY <1>1, <1>2, <1>3, <1>4, <2>1, <2>4, PrecedesBy DEF First
  <2>5. CASE d \in L3 /\ d \notin L4
      BY <1>1, <1>2, <1>3, <1>4, <1>5, <2>1, <2>5, PrecedesBy DEF First
  <2>6. CASE d \in L4 /\ d \notin L5
      BY <1>1, <1>2, <1>3, <1>4, <1>5, <1>6, <2>1, <2>6, PrecedesBy DEF First
  <2>7. CASE d \in L5
    <3>1. /\ x.boundary = d.boundary /\ x.definition = d.definition /\ x.source = d.source
          /\ x.cell = d.cell /\ x.participant = d.participant
        BY <1>1, <1>2, <1>3, <1>4, <1>5, <1>6, <2>1, <2>7 DEF First
    <3>2. x = d
        BY <2>1, <3>1 DEF TriggerCandidates
    <3> QED
        BY <3>2
  <2> QED
      BY <2>2, <2>3, <2>4, <2>5, <2>6, <2>7
<1> QED
    BY <1>7, <1>8, <1>9

-------------------------------------------------------------------------------
(* One operation. *)

\* How an operation may change what is active.
SourcesChange(t, r, op, actor) ==
    \/ r.state.sources = t.state.sources
    \/ /\ op.kind = "source"
       /\ \E at \in Participants :
             /\ HasRoom(SourceDefinitions, t.state.sources, op.definition, at)
             /\ r.state.sources = Stacked(SourceDefinitions, t.state.sources,
                                          NewSource(t.state, op.definition, actor, at))

EffectsChange(t, r, op, actor, target) ==
    \/ r.state.effects = t.state.effects
    \/ /\ op.kind = "effect"
       /\ HasRoom(EffectDefinitions, t.state.effects[target], op.definition, actor)
       /\ r.state.effects =
             [t.state.effects EXCEPT ![target] =
                 Stacked(EffectDefinitions, t.state.effects[target],
                         NewEffect(t.state, op.definition, actor))]
    \/ r.state.effects =
          [t.state.effects EXCEPT ![target] =
              {e \in t.state.effects[target] : e.definition # op.definition}]

ModifiersChange(t, r, op, target) ==
    \/ r.state.modifiers = t.state.modifiers /\ r.modified = t.modified
    \/ /\ op.kind = "modifier"
       /\ r.state.modifiers =
             [t.state.modifiers EXCEPT ![target] = WithModifier(t.state.modifiers[target], op.id)]
       /\ r.modified = t.modified \cup {<<target, op.id>>}

VitalityChange(t, r, op, target) ==
    /\ op.kind # "damage" => r.state.vitality = t.state.vitality
    /\ \A p \in Participants : p # target => r.state.vitality[p] = t.state.vitality[p]

\* What an operation does, apart from the position.
Operated(t, r, op, actor, target) ==
    /\ r.state.revision = t.state.revision
    /\ r.fired = t.fired
    /\ SourcesChange(t, r, op, actor)
    /\ EffectsChange(t, r, op, actor, target)
    /\ ModifiersChange(t, r, op, target)
    /\ VitalityChange(t, r, op, target)

\* New instances are typed.
LEMMA NewInstances ==
    ASSUME NEW s \in States, NEW owner \in Participants, NEW source \in Participants
    PROVE  /\ \A d \in DOMAIN EffectDefinitions :
                 /\ NewEffect(s, d, source) \in ActiveEffects
                 /\ NewEffect(s, d, source).definition = d
                 /\ NewEffect(s, d, source).source = source
                 /\ NewEffect(s, d, source).remaining = EffectDefinitions[d].count
                 /\ NewEffect(s, d, source).application_revision = s.revision + 1
           /\ \A d \in DOMAIN SourceDefinitions :
                 LET e == NewSource(s, d, owner, source)
                 IN  /\ e \in ActiveSources
                     /\ e.definition = d
                     /\ e.source = source
                     /\ e.remaining = SourceDefinitions[d].count
                     /\ e.application_revision = s.revision + 1
                     /\ e.trigger_revision = 0 /\ e.trigger_keys = {}
                     /\ e.cells = {c \in Cells : Distance(e.origin, c)
                                                    <= SourceDefinitions[d].radius}
<1>1. s.revision + 1 \in Nat \ {0} /\ s.position[source] \in Cells
    BY DEF States
<1>2. /\ \A d \in DOMAIN EffectDefinitions : EffectDefinitions[d].count \in Nat \ {0}
      /\ \A d \in DOMAIN SourceDefinitions : SourceDefinitions[d].count \in Nat \ {0}
    BY TenureAssumption
<1>3. ASSUME NEW d \in DOMAIN EffectDefinitions
      PROVE  NewEffect(s, d, source) \in ActiveEffects
    BY <1>1, <1>2 DEF NewEffect, ActiveEffects
<1>4. ASSUME NEW d \in DOMAIN SourceDefinitions
      PROVE  NewSource(s, d, owner, source) \in ActiveSources
  <2> DEFINE cells == {c \in Cells : Distance(s.position[source], c)
                                        <= SourceDefinitions[d].radius}
             keys  == {}
  <2>1. cells \in SUBSET Cells /\ keys \in SUBSET TriggerKeys
      OBVIOUS
  <2>2. NewSource(s, d, owner, source) =
           [definition |-> d, source |-> source, owner |-> owner, origin |-> s.position[source],
            cells |-> cells, remaining |-> SourceDefinitions[d].count,
            application_revision |-> s.revision + 1, trigger_revision |-> 0,
            trigger_keys |-> keys]
      BY DEF NewSource
  <2> HIDE DEF cells, keys
  <2> QED
      BY <1>1, <1>2, <2>1, <2>2 DEF ActiveSources
<1> QED
    BY <1>3, <1>4 DEF NewEffect, NewSource

\* Another state of a transaction.
LEMMA OtherState ==
    ASSUME NEW t \in Transactions, NEW u \in States
    PROVE  LET r == [t EXCEPT !.state = u]
           IN  /\ r \in Transactions
               /\ r.state = u /\ r.ok = t.ok /\ r.moves = t.moves
               /\ r.modified = t.modified /\ r.fired = t.fired
BY DEF Transactions

\* Another value of one field of a state.
LEMMA OtherFields ==
    ASSUME NEW s \in States
    PROVE  /\ \A v \in [Participants -> Nat] :
                 LET u == [s EXCEPT !.vitality = v]
                 IN  /\ u \in States /\ u.vitality = v /\ u.revision = s.revision
                     /\ u.effects = s.effects /\ u.sources = s.sources
                     /\ u.modifiers = s.modifiers
           /\ \A v \in [Participants -> Nat] :
                 LET u == [s EXCEPT !.resource = v]
                 IN  /\ u \in States /\ u.vitality = s.vitality /\ u.revision = s.revision
                     /\ u.effects = s.effects /\ u.sources = s.sources
                     /\ u.modifiers = s.modifiers
           /\ \A v \in [Participants -> Cells] :
                 LET u == [s EXCEPT !.position = v]
                 IN  /\ u \in States /\ u.vitality = s.vitality /\ u.revision = s.revision
                     /\ u.effects = s.effects /\ u.sources = s.sources
                     /\ u.modifiers = s.modifiers
           /\ \A v \in [Participants -> SUBSET ActiveEffects] :
                 LET u == [s EXCEPT !.effects = v]
                 IN  /\ u \in States /\ u.vitality = s.vitality /\ u.revision = s.revision
                     /\ u.effects = v /\ u.sources = s.sources
                     /\ u.modifiers = s.modifiers
           /\ \A v \in [Participants -> SUBSET ActiveModifiers] :
                 LET u == [s EXCEPT !.modifiers = v]
                 IN  /\ u \in States /\ u.vitality = s.vitality /\ u.revision = s.revision
                     /\ u.effects = s.effects /\ u.sources = s.sources
                     /\ u.modifiers = v
           /\ \A v \in SUBSET ActiveSources :
                 LET u == [s EXCEPT !.sources = v]
                 IN  /\ u \in States /\ u.vitality = s.vitality /\ u.revision = s.revision
                     /\ u.effects = s.effects /\ u.sources = v
                     /\ u.modifiers = s.modifiers
BY DEF States

\* The cells of a path are on the board.
LEMMA PathOnBoard ==
    ASSUME NEW c \in Cells, NEW d \in Cells
    PROVE  Path(c, d) \in Seq(Cells)
<1>1. Width \in Nat
    BY BoardAssumption
<1>2. Distance(c, d) \in Nat
    BY <1>1 DEF Cells, Distance
<1>3. ASSUME NEW k \in 1 .. Distance(c, d)
      PROVE  (IF c < d THEN c + k ELSE c - k) \in Cells
    BY <1>1 DEF Cells, Distance
<1>4. Path(c, d) \in [1 .. Distance(c, d) -> Cells]
    BY <1>3 DEF Path
<1> QED
    BY <1>2, <1>4, SeqDef

\* A failure leaves everything else as it was.
LEMMA FailKeeps ==
    ASSUME NEW t \in Transactions
    PROVE  /\ Fail(t) \in Transactions
           /\ Fail(t).state = t.state /\ Fail(t).moves = t.moves
           /\ Fail(t).modified = t.modified /\ Fail(t).fired = t.fired
BY DEF Fail, Transactions

\* An operation stays within the types and does no more than it says.
LEMMA OperateFrame ==
    ASSUME NEW t \in Transactions, NEW op \in Operations,
           NEW actor \in Participants, NEW target \in Participants, NEW cell,
           op.kind = "step" => cell \in Cells
    PROVE  LET r == Operate(t, op, actor, target, cell)
           IN  r \in Transactions /\ Operated(t, r, op, actor, target)
<1> DEFINE s == t.state
           r == Operate(t, op, actor, target, cell)
<1>1. s \in States
    BY DEF Transactions
<1>2. /\ op.kind \in Kinds /\ op.definition \in Nat /\ op.id \in DOMAIN Modifiers
      /\ op.at \in {"actor", "target"}
      /\ op.kind = "effect" => op.definition \in DOMAIN EffectDefinitions
      /\ op.kind = "source" => op.definition \in DOMAIN SourceDefinitions
    BY DEF Operations
<1>3. /\ s.revision \in Nat
      /\ s.vitality \in [Participants -> Nat]
      /\ s.position \in [Participants -> Cells]
      /\ s.resource \in [Participants -> Nat]
      /\ s.effects \in [Participants -> SUBSET ActiveEffects]
      /\ s.modifiers \in [Participants -> SUBSET ActiveModifiers]
      /\ s.sources \in SUBSET ActiveSources
    BY <1>1 DEF States
<1>4. CASE op.kind = "damage"
  <2> DEFINE v == [s.vitality EXCEPT ![target] = IF @ > 1 THEN @ - 1 ELSE 0]
             u == [s EXCEPT !.vitality = v]
  <2>1. v \in [Participants -> Nat]
      BY <1>3
  <2>2. \A p \in Participants : p # target => v[p] = s.vitality[p]
      BY <1>3
  <2>3. r = [t EXCEPT !.state = [t.state EXCEPT !.vitality = v]]
      BY <1>4 DEF Operate
  <2> HIDE DEF v
  <2>4. /\ u \in States /\ u.vitality = v /\ u.revision = s.revision
        /\ u.effects = s.effects /\ u.sources = s.sources /\ u.modifiers = s.modifiers
      BY <1>1, <2>1, OtherFields
  <2>5. r = [t EXCEPT !.state = u]
      BY <2>3
  <2> HIDE DEF u, r
  <2>6. r \in Transactions /\ r.state = u /\ r.modified = t.modified /\ r.fired = t.fired
      BY <2>4, <2>5, OtherState
  <2> HIDE DEF s
  <2>7. s = t.state
      BY DEF s
  <2>8. Operated(t, r, op, actor, target)
      BY <1>4, <2>2, <2>4, <2>6, <2>7
         DEF Operated, SourcesChange, EffectsChange, ModifiersChange, VitalityChange
  <2> QED
      BY <2>6, <2>8 DEF r
<1>5. CASE op.kind = "drain"
  <2>1. CASE s.resource[target] = 0
    <3>1. r = Fail(t)
        BY <1>5, <2>1 DEF Operate
    <3> HIDE DEF r
    <3>2. Operated(t, r, op, actor, target)
        BY <1>5, <3>1, FailKeeps
           DEF Operated, SourcesChange, EffectsChange, ModifiersChange, VitalityChange
    <3> QED
        BY <3>1, <3>2, FailKeeps DEF r
  <2>2. CASE s.resource[target] # 0
    <3> DEFINE v == [s.resource EXCEPT ![target] = @ - 1]
               u == [s EXCEPT !.resource = v]
    <3>1. v \in [Participants -> Nat]
      <4>1. s.resource[target] - 1 \in Nat
          BY <1>3, <2>2
      <4> QED
          BY <1>3, <4>1
    <3>2. r = [t EXCEPT !.state = [t.state EXCEPT !.resource = v]]
        BY <1>5, <2>2 DEF Operate
    <3> HIDE DEF v
    <3>3. /\ u \in States /\ u.vitality = s.vitality /\ u.revision = s.revision
          /\ u.effects = s.effects /\ u.sources = s.sources /\ u.modifiers = s.modifiers
        BY <1>1, <3>1, OtherFields
    <3>4. r = [t EXCEPT !.state = u]
        BY <3>2
    <3> HIDE DEF u, r
    <3>5. r \in Transactions /\ r.state = u /\ r.modified = t.modified /\ r.fired = t.fired
        BY <3>3, <3>4, OtherState
    <3> HIDE DEF s
    <3>6. s = t.state
        BY DEF s
    <3>7. Operated(t, r, op, actor, target)
        BY <1>5, <3>3, <3>5, <3>6
           DEF Operated, SourcesChange, EffectsChange, ModifiersChange, VitalityChange
    <3> QED
        BY <3>5, <3>7 DEF r
  <2> QED
      BY <2>1, <2>2
<1>6. CASE op.kind = "effect"
  <2>1. CASE ~HasRoom(EffectDefinitions, s.effects[target], op.definition, actor)
    <3>1. r = Fail(t)
        BY <1>6, <2>1 DEF Operate
    <3> HIDE DEF r
    <3>2. Operated(t, r, op, actor, target)
        BY <1>6, <3>1, FailKeeps
           DEF Operated, SourcesChange, EffectsChange, ModifiersChange, VitalityChange
    <3> QED
        BY <3>1, <3>2, FailKeeps DEF r
  <2>2. CASE HasRoom(EffectDefinitions, s.effects[target], op.definition, actor)
    <3> DEFINE new == NewEffect(s, op.definition, actor)
               E   == Stacked(EffectDefinitions, s.effects[target], new)
               v   == [s.effects EXCEPT ![target] = E]
               u   == [s EXCEPT !.effects = v]
    <3>1. new \in ActiveEffects
        BY <1>1, <1>2, <1>6, NewInstances
    <3>2. r = [t EXCEPT !.state = [t.state EXCEPT !.effects = v]]
        BY <1>6, <2>2 DEF Operate
    <3> HIDE DEF new
    <3>3. E \in SUBSET ActiveEffects
        BY <1>3, <3>1 DEF Stacked
    <3> HIDE DEF E
    <3>4. v \in [Participants -> SUBSET ActiveEffects]
        BY <1>3, <3>3
    <3>5. v = [t.state.effects EXCEPT ![target] =
                  Stacked(EffectDefinitions, t.state.effects[target],
                          NewEffect(t.state, op.definition, actor))]
        BY DEF E, new
    <3> HIDE DEF v
    <3>6. /\ u \in States /\ u.vitality = s.vitality /\ u.revision = s.revision
          /\ u.effects = v /\ u.sources = s.sources /\ u.modifiers = s.modifiers
        BY <1>1, <3>4, OtherFields
    <3>7. r = [t EXCEPT !.state = u]
        BY <3>2
    <3> HIDE DEF u, r
    <3>8. r \in Transactions /\ r.state = u /\ r.modified = t.modified /\ r.fired = t.fired
        BY <3>6, <3>7, OtherState
    <3> HIDE DEF s
    <3>9. s = t.state
        BY DEF s
    <3>10. EffectsChange(t, r, op, actor, target)
        BY <1>6, <2>2, <3>5, <3>6, <3>8, <3>9 DEF EffectsChange
    <3>11. Operated(t, r, op, actor, target)
        BY <1>6, <3>6, <3>8, <3>9, <3>10
           DEF Operated, SourcesChange, ModifiersChange, VitalityChange
    <3> QED
        BY <3>8, <3>11 DEF r
  <2> QED
      BY <2>1, <2>2
<1>7. CASE op.kind = "removeEffect"
  <2> DEFINE E == {e \in s.effects[target] : e.definition # op.definition}
             v == [s.effects EXCEPT ![target] = E]
             u == [s EXCEPT !.effects = v]
  <2>1. E \in SUBSET ActiveEffects
      BY <1>3
  <2>2. r = [t EXCEPT !.state = [t.state EXCEPT !.effects = v]]
      BY <1>7 DEF Operate
  <2> HIDE DEF E
  <2>3. v \in [Participants -> SUBSET ActiveEffects]
      BY <1>3, <2>1
  <2>4. v = [t.state.effects EXCEPT ![target] =
                {e \in t.state.effects[target] : e.definition # op.definition}]
      BY DEF E
  <2> HIDE DEF v
  <2>5. /\ u \in States /\ u.vitality = s.vitality /\ u.revision = s.revision
        /\ u.effects = v /\ u.sources = s.sources /\ u.modifiers = s.modifiers
      BY <1>1, <2>3, OtherFields
  <2>6. r = [t EXCEPT !.state = u]
      BY <2>2
  <2> HIDE DEF u, r
  <2>7. r \in Transactions /\ r.state = u /\ r.modified = t.modified /\ r.fired = t.fired
      BY <2>5, <2>6, OtherState
  <2> HIDE DEF s
  <2>8. s = t.state
      BY DEF s
  <2>9. EffectsChange(t, r, op, actor, target)
      BY <2>4, <2>5, <2>7 DEF EffectsChange
  <2>10. Operated(t, r, op, actor, target)
      BY <1>7, <2>5, <2>7, <2>8, <2>9
         DEF Operated, SourcesChange, ModifiersChange, VitalityChange
  <2> QED
      BY <2>7, <2>10 DEF r
<1>8. CASE op.kind = "modifier"
  <2> DEFINE M == WithModifier(s.modifiers[target], op.id)
             v == [s.modifiers EXCEPT ![target] = M]
             u == [s EXCEPT !.modifiers = v]
             w == t.modified \cup {<<target, op.id>>}
             x == [t EXCEPT !.state = u]
  <2>1. M \in SUBSET ActiveModifiers
    <3>1. [id |-> op.id, remaining |-> Modifiers[op.id].turns] \in ActiveModifiers
        BY <1>2, TenureAssumption DEF ActiveModifiers
    <3>2. s.modifiers[target] \in SUBSET ActiveModifiers
        BY <1>3
    <3> QED
        BY <3>1, <3>2 DEF WithModifier
  <2>2. r = [[t EXCEPT !.state = [t.state EXCEPT !.modifiers = v]] EXCEPT !.modified = w]
    <3>1. r = [t EXCEPT !.state.modifiers[target] = WithModifier(@, op.id),
                        !.modified = @ \cup {<<target, op.id>>}]
        BY <1>8 DEF Operate
    <3>2. t.modified = [t EXCEPT !.state = [t.state EXCEPT !.modifiers = v]].modified
        BY DEF Transactions
    <3> QED
        BY <3>1, <3>2
  <2> HIDE DEF M
  <2>3. v \in [Participants -> SUBSET ActiveModifiers]
      BY <1>3, <2>1
  <2>4. v = [t.state.modifiers EXCEPT ![target] =
                WithModifier(t.state.modifiers[target], op.id)]
      BY DEF M
  <2> HIDE DEF v
  <2>5. /\ u \in States /\ u.vitality = s.vitality /\ u.revision = s.revision
        /\ u.effects = s.effects /\ u.sources = s.sources /\ u.modifiers = v
      BY <1>1, <2>3, OtherFields
  <2>6. r = [x EXCEPT !.modified = w]
      BY <2>2
  <2> HIDE DEF u
  <2>7. x \in Transactions /\ x.state = u /\ x.modified = t.modified /\ x.fired = t.fired
      BY <2>5, OtherState
  <2>8. w \in SUBSET (Participants \X DOMAIN Modifiers)
      BY <1>2 DEF Transactions
  <2>9. w = t.modified \cup {<<target, op.id>>}
      OBVIOUS
  <2> HIDE DEF x, r, w
  <2>10. r \in Transactions /\ r.state = u /\ r.modified = w /\ r.fired = t.fired
      BY <2>6, <2>7, <2>8 DEF Transactions
  <2> HIDE DEF s
  <2>11. s = t.state
      BY DEF s
  <2>12. ModifiersChange(t, r, op, target)
      BY <1>8, <2>4, <2>5, <2>9, <2>10 DEF ModifiersChange
  <2>13. Operated(t, r, op, actor, target)
      BY <1>8, <2>5, <2>10, <2>11, <2>12
         DEF Operated, SourcesChange, EffectsChange, VitalityChange
  <2> QED
      BY <2>10, <2>13 DEF r
<1>9. CASE op.kind = "source"
  <2> DEFINE at == IF op.at = "actor" THEN actor ELSE target
  <2>1. at \in Participants
      OBVIOUS
  <2>2. CASE ~HasRoom(SourceDefinitions, s.sources, op.definition, at)
    <3>1. r = Fail(t)
        BY <1>9, <2>2 DEF Operate
    <3> HIDE DEF r
    <3>2. Operated(t, r, op, actor, target)
        BY <1>9, <3>1, FailKeeps
           DEF Operated, SourcesChange, EffectsChange, ModifiersChange, VitalityChange
    <3> QED
        BY <3>1, <3>2, FailKeeps DEF r
  <2>3. CASE HasRoom(SourceDefinitions, s.sources, op.definition, at)
    <3> DEFINE new == NewSource(s, op.definition, actor, at)
               S   == Stacked(SourceDefinitions, s.sources, new)
               u   == [s EXCEPT !.sources = S]
    <3>1. r = [t EXCEPT !.state = [t.state EXCEPT !.sources = S]]
        BY <1>9, <2>3 DEF Operate
    <3> HIDE DEF at
    <3>2. new \in ActiveSources
        BY <1>1, <1>2, <1>9, <2>1, NewInstances
    <3> HIDE DEF new
    <3>3. S \in SUBSET ActiveSources
        BY <1>3, <3>2 DEF Stacked
    <3>4. S = Stacked(SourceDefinitions, t.state.sources,
                      NewSource(t.state, op.definition, actor, at))
        BY DEF new
    <3> HIDE DEF S
    <3>5. /\ u \in States /\ u.vitality = s.vitality /\ u.revision = s.revision
          /\ u.effects = s.effects /\ u.sources = S /\ u.modifiers = s.modifiers
        BY <1>1, <3>3, OtherFields
    <3>6. r = [t EXCEPT !.state = u]
        BY <3>1
    <3> HIDE DEF u, r
    <3>7. r \in Transactions /\ r.state = u /\ r.modified = t.modified /\ r.fired = t.fired
        BY <3>5, <3>6, OtherState
    <3> HIDE DEF s
    <3>8. s = t.state
        BY DEF s
    <3>9. SourcesChange(t, r, op, actor)
        BY <1>9, <2>1, <2>3, <3>4, <3>5, <3>7, <3>8 DEF SourcesChange
    <3>10. Operated(t, r, op, actor, target)
        BY <1>9, <3>5, <3>7, <3>8, <3>9
           DEF Operated, EffectsChange, ModifiersChange, VitalityChange
    <3> QED
        BY <3>7, <3>10 DEF r
  <2> QED
      BY <2>2, <2>3
<1>10. CASE op.kind = "step"
  <2> DEFINE v == [s.position EXCEPT ![actor] = cell]
             u == [s EXCEPT !.position = v]
             m == [mover |-> actor, start |-> s.position[actor],
                   route |-> Path(s.position[actor], cell)]
             w == t.moves \cup {m}
             x == [t EXCEPT !.state = u]
  <2>1. v \in [Participants -> Cells]
      BY <1>3, <1>10
  <2>2. m \in Moves
    <3>1. s.position[actor] \in Cells
        BY <1>3
    <3>2. Path(s.position[actor], cell) \in Seq(Cells)
        BY <1>10, <3>1, PathOnBoard
    <3> QED
        BY <3>1, <3>2 DEF Moves
  <2>3. r = [[t EXCEPT !.state = [t.state EXCEPT !.position = v]] EXCEPT !.moves = w]
    <3>1. r = [t EXCEPT !.state.position[actor] = cell,
                        !.moves = @ \cup {[mover |-> actor, start |-> s.position[actor],
                                           route |-> Path(s.position[actor], cell)]}]
        BY <1>10 DEF Operate
    <3>2. t.moves = [t EXCEPT !.state = [t.state EXCEPT !.position = v]].moves
        BY DEF Transactions
    <3> QED
        BY <3>1, <3>2
  <2> HIDE DEF v
  <2>4. /\ u \in States /\ u.vitality = s.vitality /\ u.revision = s.revision
        /\ u.effects = s.effects /\ u.sources = s.sources /\ u.modifiers = s.modifiers
      BY <1>1, <2>1, OtherFields
  <2>5. r = [x EXCEPT !.moves = w]
      BY <2>3
  <2> HIDE DEF u, m
  <2>6. /\ x \in Transactions /\ x.state = u /\ x.modified = t.modified /\ x.fired = t.fired
        /\ x.moves = t.moves
      BY <2>4, OtherState
  <2>7. t.moves \in SUBSET Moves /\ IsFiniteSet(t.moves)
      BY DEF Transactions
  <2>8. w \in SUBSET Moves /\ IsFiniteSet(w)
      BY <2>2, <2>7, FS_AddElement
  <2> HIDE DEF x, r, w
  <2>9. r \in Transactions /\ r.state = u /\ r.modified = t.modified /\ r.fired = t.fired
      BY <2>5, <2>6, <2>8 DEF Transactions
  <2> HIDE DEF s
  <2>10. s = t.state
      BY DEF s
  <2>11. Operated(t, r, op, actor, target)
      BY <1>10, <2>4, <2>9, <2>10
         DEF Operated, SourcesChange, EffectsChange, ModifiersChange, VitalityChange
  <2> QED
      BY <2>9, <2>11 DEF r
<1> QED
    BY <1>2, <1>4, <1>5, <1>6, <1>7, <1>8, <1>9, <1>10 DEF Kinds

-------------------------------------------------------------------------------
(* Stacks. *)

\* Two instances that one stacking identity does not admit beside each other.
SameStack(definitions, e, f) ==
    /\ definitions[e.definition].stacking_id = definitions[f.definition].stacking_id
    /\ definitions[e.definition].stacking = "independentBySource" => e.source = f.source

StacksHold(definitions, S) ==
    /\ IsFiniteSet(S)
    /\ Cardinality(S) <= MaximumActive
    /\ \A e, f \in S : SameStack(definitions, e, f) => e = f

Less(e) == [e EXCEPT !.remaining = @ - 1]

\* A new instance that has room takes the place of the displaced ones.
LEMMA StackedHolds ==
    ASSUME NEW definitions, NEW S, NEW new, StacksHold(definitions, S),
           HasRoom(definitions, S, new.definition, new.source),
           \A e, f \in S \cup {new} :
              definitions[e.definition].stacking_id = definitions[f.definition].stacking_id
                 => definitions[e.definition].stacking = definitions[f.definition].stacking
    PROVE  StacksHold(definitions, Stacked(definitions, S, new))
<1> DEFINE D == Displaced(definitions, S, new.definition, new.source)
           R == S \ D
<1>1. D \subseteq S
    BY DEF Displaced
<1>2. ASSUME NEW e \in R
      PROVE  ~SameStack(definitions, e, new) /\ ~SameStack(definitions, new, e)
    BY DEF Displaced, SameStack
<1>3. IsFiniteSet(S) /\ Cardinality(S) <= MaximumActive
    BY DEF StacksHold
<1>4. D # {} \/ Cardinality(S) < MaximumActive
    BY DEF HasRoom
<1>5. \A e, f \in S : SameStack(definitions, e, f) => e = f
    BY DEF StacksHold
<1>6. Stacked(definitions, S, new) = R \cup {new}
    BY DEF Stacked
<1> HIDE DEF D
<1>7. /\ IsFiniteSet(R) /\ Cardinality(R) \in Nat /\ Cardinality(S) \in Nat
      /\ Cardinality(R) <= Cardinality(S)
      /\ D # {} => Cardinality(R) < Cardinality(S)
    BY <1>1, <1>3, FS_Subset, FS_CardinalityType
<1>8. \A e \in R : e \in S
    OBVIOUS
<1> HIDE DEF R
<1>9. IsFiniteSet(R \cup {new}) /\ Cardinality(R \cup {new}) <= Cardinality(R) + 1
  <2>1. IsFiniteSet(R)
      BY <1>7
  <2>2. /\ IsFiniteSet(R \cup {new})
        /\ \/ Cardinality(R \cup {new}) = Cardinality(R)
           \/ Cardinality(R \cup {new}) = Cardinality(R) + 1
      BY <2>1, FS_AddElement
  <2> QED
      BY <1>7, <2>2
<1>10. Cardinality(R \cup {new}) <= MaximumActive /\ Cardinality(R \cup {new}) \in Nat
    BY <1>3, <1>4, <1>7, <1>9, FS_CardinalityType, TenureAssumption
<1>11. \A e, f \in R \cup {new} : SameStack(definitions, e, f) => e = f
    BY <1>2, <1>5, <1>8
<1> QED
    BY <1>6, <1>9, <1>10, <1>11 DEF StacksHold

\* What is removed leaves the stacks as they are.
LEMMA FewerHold ==
    ASSUME NEW definitions, NEW S, StacksHold(definitions, S), NEW R \in SUBSET S
    PROVE  StacksHold(definitions, R)
<1>1. IsFiniteSet(S) /\ Cardinality(S) <= MaximumActive
    BY DEF StacksHold
<1>2. IsFiniteSet(R) /\ Cardinality(R) <= Cardinality(S)
    BY <1>1, FS_Subset
<1>3. Cardinality(R) \in Nat /\ Cardinality(S) \in Nat /\ MaximumActive \in Nat
    BY <1>1, <1>2, FS_CardinalityType, TenureAssumption
<1> QED
    BY <1>1, <1>2, <1>3 DEF StacksHold

\* What replaces each instance by one of its definition and source, or by
\* none, leaves the stacks as they are.
LEMMA AgedHolds ==
    ASSUME NEW definitions, NEW S, NEW due \in SUBSET S, StacksHold(definitions, S),
           \A e \in S : Less(e).definition = e.definition /\ Less(e).source = e.source
    PROVE  /\ StacksHold(definitions, Aged(S, due))
           /\ \A a \in Aged(S, due) : \E e \in S :
                 /\ a = IF e \in due THEN Less(e) ELSE e
                 /\ e \in due => e.remaining > 1
<1> DEFINE kept == {e \in S : e \in due => e.remaining > 1}
           g    == [e \in kept |-> IF e \in due THEN Less(e) ELSE e]
           A    == {g[e] : e \in kept}
<1>1. Aged(S, due) = A
    BY DEF Aged, Less
<1>2. \A e \in kept : g[e] = IF e \in due THEN Less(e) ELSE e
    OBVIOUS
<1>3. StacksHold(definitions, kept)
    BY FewerHold
<1>4. IsFiniteSet(kept) /\ Cardinality(kept) <= MaximumActive
    BY <1>3 DEF StacksHold
<1>5. \A e \in kept : e \in S /\ (e \in due => e.remaining > 1)
    OBVIOUS
<1> HIDE DEF g, kept
<1>6. IsFiniteSet(A) /\ Cardinality(A) <= Cardinality(kept)
    BY <1>4, ImageFinite
<1>7. Cardinality(A) <= MaximumActive
    BY <1>4, <1>6, FS_CardinalityType, TenureAssumption
<1>8. \A a \in A : \E e \in kept : a = IF e \in due THEN Less(e) ELSE e
    BY <1>2
<1>9. \A e \in kept : g[e].definition = e.definition /\ g[e].source = e.source
    BY <1>2, <1>5
<1>10. ASSUME NEW e \in kept, NEW f \in kept, SameStack(definitions, g[e], g[f])
       PROVE  g[e] = g[f]
  <2>1. SameStack(definitions, e, f)
      BY <1>9, <1>10 DEF SameStack
  <2> QED
      BY <1>3, <2>1 DEF StacksHold
<1>11. \A a, b \in A : SameStack(definitions, a, b) => a = b
    BY <1>10
<1> HIDE DEF A
<1> QED
    BY <1>1, <1>5, <1>6, <1>7, <1>8, <1>11 DEF StacksHold

-------------------------------------------------------------------------------
(* Time. *)

\* The entry that the transaction will leave in the log.
Now == Len(log) + 1

\* The entries up to then whose turn transition counts, once the transaction
\* has passed the turn to "next" (or has left it where it is).
Passed(k, anchor, source, target, next) ==
    CrossedSince(k, anchor, source, target)
        \cup {j \in {Now} : k < Now /\ turn # next /\ Crosses(anchor, source, target, turn, next)}

Timed(definitions, e, target, next) ==
    /\ e.application_revision \in 1 .. Now
    /\ e.remaining = definitions[e.definition].count
          - Cardinality(Passed(e.application_revision, definitions[e.definition].anchor,
                               e.source, target, next))

\* Passing the turn adds the new entry, where it counts.
LEMMA PassedCounts ==
    ASSUME Len(log) \in Nat, NEW k \in Nat,
           NEW anchor, NEW source, NEW target, NEW next, next # turn
    PROVE  /\ Cardinality(Passed(k, anchor, source, target, turn)) \in Nat
           /\ k = Now => Cardinality(Passed(k, anchor, source, target, turn)) = 0
           /\ Cardinality(Passed(k, anchor, source, target, next)) =
                 IF k < Now /\ Crosses(anchor, source, target, turn, next)
                 THEN Cardinality(Passed(k, anchor, source, target, turn)) + 1
                 ELSE Cardinality(Passed(k, anchor, source, target, turn))
<1> DEFINE C == CrossedSince(k, anchor, source, target)
<1>1. C \subseteq k + 1 .. Len(log)
    BY DEF CrossedSince
<1>2. Passed(k, anchor, source, target, turn) = C
    BY DEF Passed
<1>3. Passed(k, anchor, source, target, next) =
         IF k < Now /\ Crosses(anchor, source, target, turn, next) THEN C \cup {Now} ELSE C
    BY DEF Passed
<1> HIDE DEF C
<1>4. IsFiniteSet(k + 1 .. Len(log))
    BY FS_Interval
<1>5. IsFiniteSet(C) /\ Cardinality(C) \in Nat
    BY <1>1, <1>4, FS_Subset, FS_CardinalityType
<1>6. Now \notin C
    BY <1>1 DEF Now
<1>7. Cardinality(C \cup {Now}) = Cardinality(C) + 1
    BY <1>5, <1>6, FS_AddElement
<1>8. k = Now => Cardinality(C) = 0
  <2>1. k = Now => C = {}
      BY <1>1 DEF Now
  <2> QED
      BY <2>1, FS_EmptySet
<1> QED
    BY <1>2, <1>3, <1>5, <1>7, <1>8

\* What is applied now has its whole duration left.
LEMMA TimedNew ==
    ASSUME Len(log) \in Nat, NEW definitions, NEW e, NEW target, NEW next,
           e.application_revision = Now,
           definitions[e.definition].count \in Nat,
           e.remaining = definitions[e.definition].count
    PROVE  Timed(definitions, e, target, next)
<1> DEFINE a == definitions[e.definition].anchor
<1>1. Passed(Now, a, e.source, target, next) = {}
    BY DEF Passed, CrossedSince, Now
<1>2. Cardinality(Passed(Now, a, e.source, target, next)) = 0
    BY <1>1, FS_EmptySet
<1>3. Now \in 1 .. Now
    BY DEF Now
<1> QED
    BY <1>2, <1>3 DEF Timed

\* What is due counts down with the entry that counts.
LEMMA TimedAged ==
    ASSUME Len(log) \in Nat, NEW definitions, NEW e, NEW target, NEW next, next # turn,
           Timed(definitions, e, target, turn),
           definitions[e.definition].count \in Nat,
           NEW a,
           a.definition = e.definition, a.source = e.source,
           a.application_revision = e.application_revision,
           a.remaining =
              IF /\ Crosses(definitions[e.definition].anchor, e.source, target, turn, next)
                 /\ e.application_revision # Now
              THEN e.remaining - 1
              ELSE e.remaining
    PROVE  Timed(definitions, a, target, next)
<1> DEFINE anchor == definitions[e.definition].anchor
           k      == e.application_revision
           old    == Cardinality(Passed(k, anchor, e.source, target, turn))
           new    == Cardinality(Passed(k, anchor, e.source, target, next))
<1>1. k \in 1 .. Now /\ Now \in Nat /\ e.remaining = definitions[e.definition].count - old
    BY DEF Timed, Now
<1>2. /\ old \in Nat
      /\ new = IF k < Now /\ Crosses(anchor, e.source, target, turn, next) THEN old + 1 ELSE old
    BY <1>1, PassedCounts
<1>3. k # Now <=> k < Now
    BY <1>1
<1>4. Timed(definitions, a, target, next) <=>
         k \in 1 .. Now /\ a.remaining = definitions[e.definition].count - new
    BY DEF Timed
<1> HIDE DEF old, new
<1> QED
    BY <1>1, <1>2, <1>3, <1>4

-------------------------------------------------------------------------------
(* Spatial sources. *)

Diamond(origin, d) == {c \in Cells : Distance(origin, c) <= SourceDefinitions[d].radius}

SourceKept(e, next) ==
    /\ e.definition \in CreatedBy(rules)
    /\ e.trigger_revision <= Now
    /\ e.trigger_revision = 0 => e.trigger_keys = {}
    /\ IsFiniteSet(e.trigger_keys)
    /\ Cardinality(e.trigger_keys) <= MaximumKeys
    /\ e.cells = Diamond(e.origin, e.definition)
    /\ Timed(SourceDefinitions, e, e.source, next)

SourcesKept(S, next) ==
    /\ S \in SUBSET ActiveSources
    /\ StacksHold(SourceDefinitions, S)
    /\ \A e \in S : SourceKept(e, next)

\* A source that counts down remains the same otherwise.
LEMMA LessSource ==
    ASSUME NEW e \in ActiveSources
    PROVE  /\ Less(e).definition = e.definition
           /\ Less(e).source = e.source
           /\ Less(e).origin = e.origin
           /\ Less(e).cells = e.cells
           /\ Less(e).application_revision = e.application_revision
           /\ Less(e).trigger_revision = e.trigger_revision
           /\ Less(e).trigger_keys = e.trigger_keys
           /\ Less(e).remaining = e.remaining - 1
           /\ e.remaining > 1 => Less(e) \in ActiveSources
BY DEF Less, ActiveSources

\* What the assumptions say of a source definition.
LEMMA SourceDefined ==
    ASSUME NEW e \in ActiveSources
    PROVE  /\ e.definition \in DOMAIN SourceDefinitions
           /\ SourceDefinitions[e.definition].count \in Nat
           /\ SourceDefinitions[e.definition].radius \in Nat
           /\ SourceDefinitions[e.definition].stacking \in Policies
           /\ \A f \in ActiveSources :
                 SourceDefinitions[e.definition].stacking_id
                       = SourceDefinitions[f.definition].stacking_id
                    => SourceDefinitions[e.definition].stacking
                          = SourceDefinitions[f.definition].stacking
BY TenureAssumption DEF ActiveSources

\* A new source, before its transaction has advanced the revision.
LEMMA SourcesStacked ==
    ASSUME Len(log) \in Nat, NEW S, SourcesKept(S, turn),
           NEW s \in States, s.revision = Len(log), NEW d \in CreatedBy(rules),
           NEW owner \in Participants, NEW source \in Participants,
           HasRoom(SourceDefinitions, S, d, source)
    PROVE  SourcesKept(Stacked(SourceDefinitions, S, NewSource(s, d, owner, source)), turn)
<1> DEFINE new == NewSource(s, d, owner, source)
           T   == Stacked(SourceDefinitions, S, new)
<1>1. d \in DOMAIN SourceDefinitions
    BY DEF CreatedBy
<1>2. /\ new \in ActiveSources
      /\ new.definition = d
      /\ new.source = source
      /\ new.remaining = SourceDefinitions[d].count
      /\ new.application_revision = Now
      /\ new.trigger_revision = 0 /\ new.trigger_keys = {}
      /\ new.cells = Diamond(new.origin, d)
    BY <1>1, NewInstances DEF Now, Diamond
<1> HIDE DEF new
<1>3. S \in SUBSET ActiveSources /\ StacksHold(SourceDefinitions, S)
    BY DEF SourcesKept
<1>4. \A e \in T : e \in S \/ e = new
    BY DEF Stacked
<1>5. StacksHold(SourceDefinitions, T)
  <2>1. S \cup {new} \subseteq ActiveSources
      BY <1>2, <1>3
  <2>2. \A e, f \in S \cup {new} :
           SourceDefinitions[e.definition].stacking_id
                 = SourceDefinitions[f.definition].stacking_id
              => SourceDefinitions[e.definition].stacking
                    = SourceDefinitions[f.definition].stacking
      BY <2>1, SourceDefined
  <2>3. HasRoom(SourceDefinitions, S, new.definition, new.source)
      BY <1>2
  <2> QED
      BY <1>3, <2>2, <2>3, StackedHolds
<1>6. Timed(SourceDefinitions, new, new.source, turn)
    BY <1>2, SourceDefined, TimedNew
<1>7. SourceKept(new, turn)
  <2>1. IsFiniteSet(new.trigger_keys) /\ Cardinality(new.trigger_keys) <= MaximumKeys
      BY <1>2, FS_EmptySet, TenureAssumption
  <2>2. 0 <= Now
      BY DEF Now
  <2> QED
      BY <1>2, <1>6, <2>1, <2>2 DEF SourceKept
<1>8. \A e \in S : SourceKept(e, turn)
    BY DEF SourcesKept
<1> HIDE DEF T
<1>9. SourcesKept(T, turn)
    BY <1>2, <1>3, <1>4, <1>5, <1>7, <1>8 DEF SourcesKept
<1> QED
    BY <1>9 DEF T, new

\* A source with one more recorded trigger.
LEMMA SourcesRecorded ==
    ASSUME Len(log) \in Nat, NEW S, NEW next, SourcesKept(S, next),
           NEW e \in S, NEW key \in TriggerKeys,
           ~(e.trigger_revision = Now /\ Cardinality(e.trigger_keys) >= MaximumKeys)
    PROVE  LET n == Recorded(e, key, Now)
           IN  /\ SourcesKept((S \ {e}) \cup {n}, next)
               /\ n.definition = e.definition /\ n.source = e.source
               /\ n.application_revision = e.application_revision
               /\ n.trigger_revision = Now /\ key \in n.trigger_keys
               /\ e.trigger_revision = Now => e.trigger_keys \subseteq n.trigger_keys
<1> DEFINE n    == Recorded(e, key, Now)
           keys == IF e.trigger_revision = Now THEN e.trigger_keys \cup {key} ELSE {key}
           T    == (S \ {e}) \cup {n}
<1>1. e \in ActiveSources /\ SourceKept(e, next) /\ StacksHold(SourceDefinitions, S)
    BY DEF SourcesKept
<1>2. /\ keys \in SUBSET TriggerKeys
      /\ key \in keys
      /\ e.trigger_revision = Now => e.trigger_keys \subseteq keys
    BY <1>1 DEF ActiveSources
<1>3. IsFiniteSet(keys) /\ Cardinality(keys) <= MaximumKeys
  <2>1. CASE e.trigger_revision = Now
    <3>1. IsFiniteSet(e.trigger_keys)
        BY <1>1 DEF SourceKept
    <3>2. /\ IsFiniteSet(keys)
          /\ \/ Cardinality(keys) = Cardinality(e.trigger_keys)
             \/ Cardinality(keys) = Cardinality(e.trigger_keys) + 1
        BY <2>1, <3>1, FS_AddElement
    <3>3. Cardinality(e.trigger_keys) \in Nat /\ MaximumKeys \in Nat
        BY <3>1, FS_CardinalityType, TenureAssumption
    <3>4. Cardinality(e.trigger_keys) < MaximumKeys
        BY <2>1, <3>3
    <3> QED
        BY <3>2, <3>3, <3>4
  <2>2. CASE e.trigger_revision # Now
    <3>1. IsFiniteSet({key}) /\ Cardinality({key}) = 1
        BY FS_Singleton
    <3> QED
        BY <2>2, <3>1, TenureAssumption
  <2> QED
      BY <2>1, <2>2
<1>4. n = [e EXCEPT !.trigger_revision = Now, !.trigger_keys = keys]
    BY DEF Recorded
<1> HIDE DEF keys
<1>5. Now \in Nat \ {0}
    BY DEF Now
<1>6. /\ n \in ActiveSources
      /\ n.definition = e.definition /\ n.source = e.source /\ n.origin = e.origin
      /\ n.cells = e.cells /\ n.remaining = e.remaining
      /\ n.application_revision = e.application_revision
      /\ n.trigger_revision = Now /\ n.trigger_keys = keys
    BY <1>1, <1>2, <1>4, <1>5 DEF ActiveSources
<1> HIDE DEF n
<1>7. SourceKept(n, next)
  <2>1. Timed(SourceDefinitions, n, n.source, next)
      BY <1>1, <1>6 DEF SourceKept, Timed
  <2> QED
      BY <1>1, <1>3, <1>5, <1>6, <2>1 DEF SourceKept
<1>8. StacksHold(SourceDefinitions, T)
  <2>1. IsFiniteSet(S) /\ Cardinality(S) <= MaximumActive /\ Cardinality(S) \in Nat
      BY <1>1, FS_CardinalityType DEF StacksHold
  <2>2. IsFiniteSet(S \ {e}) /\ Cardinality(S \ {e}) = Cardinality(S) - 1
      BY <2>1, FS_RemoveElement
  <2>3. /\ IsFiniteSet(T)
        /\ \/ Cardinality(T) = Cardinality(S \ {e})
           \/ Cardinality(T) = Cardinality(S \ {e}) + 1
      BY <2>2, FS_AddElement
  <2>4. Cardinality(T) <= MaximumActive
      BY <2>1, <2>2, <2>3, TenureAssumption
  <2>5. ASSUME NEW a \in T, NEW b \in T, SameStack(SourceDefinitions, a, b)
        PROVE  a = b
    <3> DEFINE old(x) == IF x = n THEN e ELSE x
    <3>1. old(a) \in S /\ old(b) \in S
        OBVIOUS
    <3>2. SameStack(SourceDefinitions, old(a), old(b))
        BY <1>6, <2>5 DEF SameStack
    <3>3. old(a) = old(b)
      <4> HIDE DEF old
      <4> QED
          BY <1>1, <3>1, <3>2 DEF StacksHold
    <3> QED
        BY <3>3
  <2> HIDE DEF T
  <2> QED
      BY <2>3, <2>4, <2>5 DEF StacksHold
<1>9. SourcesKept(T, next)
  <2>1. \A a \in T : a = n \/ a \in S
      OBVIOUS
  <2> HIDE DEF T
  <2> QED
      BY <1>6, <1>7, <1>8, <2>1 DEF SourcesKept
<1> QED
    BY <1>2, <1>6, <1>9 DEF n

\* Sources that have aged with the turn.
LEMMA SourcesAged ==
    ASSUME Len(log) \in Nat, NEW S, NEW next, next # turn, SourcesKept(S, turn)
    PROVE  LET A == Aged(S, DueSources(S, turn, next, Now))
           IN  /\ SourcesKept(A, next)
               /\ \A a \in A : \E e \in S :
                     /\ a.definition = e.definition /\ a.source = e.source
                     /\ a.application_revision = e.application_revision
                     /\ a.trigger_revision = e.trigger_revision
                     /\ a.trigger_keys = e.trigger_keys
<1> DEFINE due == DueSources(S, turn, next, Now)
           A   == Aged(S, due)
<1>1. /\ due \in SUBSET S
      /\ \A e \in S : e \in due <=>
            /\ Crosses(SourceDefinitions[e.definition].anchor, e.source, e.source, turn, next)
            /\ e.application_revision # Now
    BY DEF DueSources
<1> HIDE DEF due
<1>2. S \in SUBSET ActiveSources /\ StacksHold(SourceDefinitions, S)
    BY DEF SourcesKept
<1>3. /\ StacksHold(SourceDefinitions, A)
      /\ \A a \in A : \E e \in S :
            /\ a = IF e \in due THEN Less(e) ELSE e
            /\ e \in due => e.remaining > 1
    BY <1>1, <1>2, LessSource, AgedHolds
<1> HIDE DEF A
<1>4. ASSUME NEW a \in A
      PROVE  /\ a \in ActiveSources
             /\ SourceKept(a, next)
             /\ \E e \in S :
                   /\ a.definition = e.definition /\ a.source = e.source
                   /\ a.application_revision = e.application_revision
                   /\ a.trigger_revision = e.trigger_revision
                   /\ a.trigger_keys = e.trigger_keys
  <2>1. PICK e \in S : /\ a = IF e \in due THEN Less(e) ELSE e
                       /\ e \in due => e.remaining > 1
      BY <1>3
  <2>2. e \in ActiveSources /\ SourceKept(e, turn)
      BY DEF SourcesKept
  <2>3. /\ a \in ActiveSources
        /\ a.definition = e.definition /\ a.source = e.source
        /\ a.origin = e.origin /\ a.cells = e.cells
        /\ a.application_revision = e.application_revision
        /\ a.trigger_revision = e.trigger_revision
        /\ a.trigger_keys = e.trigger_keys
        /\ a.remaining = IF e \in due THEN e.remaining - 1 ELSE e.remaining
      BY <2>1, <2>2, LessSource
  <2>4. SourceDefinitions[e.definition].count \in Nat
      BY <2>2, SourceDefined
  <2>5. Timed(SourceDefinitions, e, e.source, turn)
      BY <2>2 DEF SourceKept
  <2>6. a.remaining =
           IF /\ Crosses(SourceDefinitions[e.definition].anchor, e.source, e.source, turn, next)
              /\ e.application_revision # Now
           THEN e.remaining - 1
           ELSE e.remaining
      BY <1>1, <2>3
  <2>7. Timed(SourceDefinitions, a, e.source, next)
      BY <2>3, <2>4, <2>5, <2>6, TimedAged
  <2>8. SourceKept(a, next)
      BY <2>2, <2>3, <2>7 DEF SourceKept
  <2> QED
      BY <2>3, <2>8
<1> QED
    BY <1>3, <1>4 DEF SourcesKept, A, due

-------------------------------------------------------------------------------
(* Effects. *)

EffectKept(e, p, next) ==
    /\ e.remaining <= EffectDefinitions[e.definition].count
    /\ EffectsAreTimely => Timed(EffectDefinitions, e, p, next)

EffectsKept(E, p, next) ==
    /\ E \in SUBSET ActiveEffects
    /\ StacksHold(EffectDefinitions, E)
    /\ \A e \in E : EffectKept(e, p, next)

\* An effect that counts down remains the same otherwise.
LEMMA LessEffect ==
    ASSUME NEW e \in ActiveEffects
    PROVE  /\ Less(e).definition = e.definition
           /\ Less(e).source = e.source
           /\ Less(e).application_revision = e.application_revision
           /\ Less(e).remaining = e.remaining - 1
           /\ e.remaining > 1 => Less(e) \in ActiveEffects
BY DEF Less, ActiveEffects

\* What the assumptions say of an effect definition.
LEMMA EffectDefined ==
    ASSUME NEW e \in ActiveEffects
    PROVE  /\ e.definition \in DOMAIN EffectDefinitions
           /\ e.remaining \in Nat
           /\ EffectDefinitions[e.definition].count \in Nat
           /\ \A f \in ActiveEffects :
                 EffectDefinitions[e.definition].stacking_id
                       = EffectDefinitions[f.definition].stacking_id
                    => EffectDefinitions[e.definition].stacking
                          = EffectDefinitions[f.definition].stacking
BY TenureAssumption DEF ActiveEffects

\* A new effect, before its transaction has advanced the revision.
LEMMA EffectsStacked ==
    ASSUME Len(log) \in Nat, NEW E, NEW p, NEW next, EffectsKept(E, p, next),
           NEW s \in States, EffectsAreTimely => s.revision = Len(log),
           NEW d \in DOMAIN EffectDefinitions, NEW source \in Participants,
           HasRoom(EffectDefinitions, E, d, source)
    PROVE  EffectsKept(Stacked(EffectDefinitions, E, NewEffect(s, d, source)), p, next)
<1> DEFINE new == NewEffect(s, d, source)
           T   == Stacked(EffectDefinitions, E, new)
<1>1. /\ new \in ActiveEffects
      /\ new.definition = d
      /\ new.source = source
      /\ new.remaining = EffectDefinitions[d].count
      /\ new.application_revision = s.revision + 1
    BY NewInstances
<1> HIDE DEF new
<1>2. E \in SUBSET ActiveEffects /\ StacksHold(EffectDefinitions, E)
    BY DEF EffectsKept
<1>3. \A e \in T : e \in E \/ e = new
    BY DEF Stacked
<1>4. StacksHold(EffectDefinitions, T)
  <2>1. E \cup {new} \subseteq ActiveEffects
      BY <1>1, <1>2
  <2>2. \A e, f \in E \cup {new} :
           EffectDefinitions[e.definition].stacking_id
                 = EffectDefinitions[f.definition].stacking_id
              => EffectDefinitions[e.definition].stacking
                    = EffectDefinitions[f.definition].stacking
      BY <2>1, EffectDefined
  <2>3. HasRoom(EffectDefinitions, E, new.definition, new.source)
      BY <1>1
  <2> QED
      BY <1>2, <2>2, <2>3, StackedHolds
<1>5. EffectKept(new, p, next)
  <2>1. new.remaining <= EffectDefinitions[new.definition].count
      BY <1>1, EffectDefined
  <2>2. ASSUME EffectsAreTimely
        PROVE  Timed(EffectDefinitions, new, p, next)
    <3>1. new.application_revision = Now
        BY <1>1, <2>2 DEF Now
    <3>2. EffectDefinitions[new.definition].count \in Nat
        BY <1>1, EffectDefined
    <3> QED
        BY <1>1, <3>1, <3>2, TimedNew
  <2> QED
      BY <2>1, <2>2 DEF EffectKept
<1>6. \A e \in E : EffectKept(e, p, next)
    BY DEF EffectsKept
<1> HIDE DEF T
<1>7. EffectsKept(T, p, next)
    BY <1>1, <1>2, <1>3, <1>4, <1>5, <1>6 DEF EffectsKept
<1> QED
    BY <1>7 DEF T, new

\* Effects that have been removed.
LEMMA EffectsRemoved ==
    ASSUME NEW E, NEW p, NEW next, EffectsKept(E, p, next), NEW R \in SUBSET E
    PROVE  EffectsKept(R, p, next)
<1>1. StacksHold(EffectDefinitions, E)
    BY DEF EffectsKept
<1>2. StacksHold(EffectDefinitions, R)
    BY <1>1, FewerHold
<1> QED
    BY <1>2 DEF EffectsKept

\* Effects that have aged with the turn.
LEMMA EffectsAged ==
    ASSUME Len(log) \in Nat, NEW E, NEW p, NEW next, next # turn, EffectsKept(E, p, turn)
    PROVE  EffectsKept(Aged(E, DueEffects(E, p, turn, next, Now)), p, next)
<1> DEFINE due == DueEffects(E, p, turn, next, Now)
           A   == Aged(E, due)
<1>1. /\ due \in SUBSET E
      /\ \A e \in E : e \in due <=>
            /\ Crosses(EffectDefinitions[e.definition].anchor, e.source, p, turn, next)
            /\ e.application_revision # Now
    BY DEF DueEffects
<1> HIDE DEF due
<1>2. E \in SUBSET ActiveEffects /\ StacksHold(EffectDefinitions, E)
    BY DEF EffectsKept
<1>3. /\ StacksHold(EffectDefinitions, A)
      /\ \A a \in A : \E e \in E :
            /\ a = IF e \in due THEN Less(e) ELSE e
            /\ e \in due => e.remaining > 1
    BY <1>1, <1>2, LessEffect, AgedHolds
<1> HIDE DEF A
<1>4. ASSUME NEW a \in A
      PROVE  a \in ActiveEffects /\ EffectKept(a, p, next)
  <2>1. PICK e \in E : /\ a = IF e \in due THEN Less(e) ELSE e
                       /\ e \in due => e.remaining > 1
      BY <1>3
  <2>2. e \in ActiveEffects /\ EffectKept(e, p, turn)
      BY DEF EffectsKept
  <2>3. /\ a \in ActiveEffects
        /\ a.definition = e.definition /\ a.source = e.source
        /\ a.application_revision = e.application_revision
        /\ a.remaining = IF e \in due THEN e.remaining - 1 ELSE e.remaining
      BY <2>1, <2>2, LessEffect
  <2>4. EffectDefinitions[e.definition].count \in Nat /\ e.remaining \in Nat
      BY <2>2, EffectDefined
  <2>5. a.remaining =
           IF /\ Crosses(EffectDefinitions[e.definition].anchor, e.source, p, turn, next)
              /\ e.application_revision # Now
           THEN e.remaining - 1
           ELSE e.remaining
      BY <1>1, <2>3
  <2>6. ASSUME EffectsAreTimely
        PROVE  Timed(EffectDefinitions, a, p, next)
    <3>1. Timed(EffectDefinitions, e, p, turn)
        BY <2>2, <2>6 DEF EffectKept
    <3> QED
        BY <2>3, <2>4, <2>5, <3>1, TimedAged
  <2>7. a.remaining <= EffectDefinitions[a.definition].count
      BY <2>2, <2>3, <2>4 DEF EffectKept
  <2> QED
      BY <2>3, <2>6, <2>7 DEF EffectKept
<1> QED
    BY <1>3, <1>4 DEF EffectsKept, A, due

-------------------------------------------------------------------------------
(* Modifiers. *)

More(m) == [m EXCEPT !.remaining = @ + 1]

\* What the transaction has applied has its whole duration left; the rest is
\* what it was, one turn less once the turn has passed.
ModifierKept(m, p, modified, next) ==
    IF <<p, m.id>> \in modified
    THEN m.remaining = Modifiers[m.id].turns
    ELSE /\ \A n \in DOMAIN Modifiers : <<p, n>> \in modified =>
               Modifiers[n].stacking_group # Modifiers[m.id].stacking_group
         /\ (IF next = turn THEN m ELSE More(m)) \in state.modifiers[p]

ModifiersKept(M, p, modified, next) ==
    /\ M \in SUBSET ActiveModifiers
    /\ \A m, n \in M :
          Modifiers[m.id].stacking_group = Modifiers[n.id].stacking_group => m = n
    /\ ModifiersAreTimely => \A m \in M : ModifierKept(m, p, modified, next)

\* A modifier that counts down remains the same otherwise.
LEMMA LessModifier ==
    ASSUME NEW m \in ActiveModifiers
    PROVE  /\ m.id \in DOMAIN Modifiers
           /\ Less(m).id = m.id
           /\ m.remaining > 1 => Less(m) \in ActiveModifiers
           /\ More(Less(m)) = m
<1>1. /\ m.id \in DOMAIN Modifiers /\ m.remaining \in Nat \ {0}
      /\ m = [id |-> m.id, remaining |-> m.remaining]
    BY DEF ActiveModifiers
<1>2. Less(m) = [id |-> m.id, remaining |-> m.remaining - 1]
    BY <1>1 DEF Less
<1>3. More(Less(m)) = [id |-> m.id, remaining |-> m.remaining]
    BY <1>1, <1>2 DEF More
<1>4. m.remaining > 1 => Less(m) \in ActiveModifiers
    BY <1>1, <1>2 DEF ActiveModifiers
<1> QED
    BY <1>1, <1>2, <1>3, <1>4

\* A modifier that is applied.
LEMMA ModifiersApplied ==
    ASSUME NEW M, NEW p, NEW modified, NEW next, ModifiersKept(M, p, modified, next),
           NEW i \in DOMAIN Modifiers
    PROVE  ModifiersKept(WithModifier(M, i), p, modified \cup {<<p, i>>}, next)
<1> DEFINE new == [id |-> i, remaining |-> Modifiers[i].turns]
           W   == WithModifier(M, i)
           mod == modified \cup {<<p, i>>}
<1>1. new \in ActiveModifiers /\ new.id = i /\ new.remaining = Modifiers[i].turns
    BY TenureAssumption DEF ActiveModifiers
<1>2. \A m \in W : m = new \/ (m \in M /\ Modifiers[m.id].stacking_group # Modifiers[i].stacking_group)
    BY DEF WithModifier
<1>3. \A n : <<p, n>> \in mod => n = i \/ <<p, n>> \in modified
    OBVIOUS
<1>4. <<p, i>> \in mod /\ modified \subseteq mod
    OBVIOUS
<1> HIDE DEF new, W, mod
<1>5. W \in SUBSET ActiveModifiers
    BY <1>1, <1>2 DEF ModifiersKept
<1>6. \A m, n \in W :
         Modifiers[m.id].stacking_group = Modifiers[n.id].stacking_group => m = n
    BY <1>1, <1>2 DEF ModifiersKept
<1>7. ASSUME ModifiersAreTimely, NEW m \in W
      PROVE  ModifierKept(m, p, mod, next)
  <2>1. CASE m = new
      BY <1>1, <1>4, <2>1 DEF ModifierKept
  <2>2. CASE m # new
    <3>1. /\ m \in M /\ m.id # i
          /\ Modifiers[m.id].stacking_group # Modifiers[i].stacking_group
        BY <1>2, <2>2
    <3>2. ModifierKept(m, p, modified, next)
        BY <1>7, <3>1 DEF ModifiersKept
    <3>3. <<p, m.id>> \in mod <=> <<p, m.id>> \in modified
        BY <1>3, <1>4, <3>1
    <3> QED
        BY <1>3, <3>1, <3>2, <3>3 DEF ModifierKept
  <2> QED
      BY <2>1, <2>2
<1> QED
    BY <1>5, <1>6, <1>7 DEF ModifiersKept, W, mod

\* The groups of the modifiers applied to a participant.
Refreshed(modified, p) == {Modifiers[m[2]].stacking_group : m \in {n \in modified : n[1] = p}}

\* Modifiers that have aged with the turn.
LEMMA ModifiersAged ==
    ASSUME NEW M, NEW p \in Participants,
           NEW modified \in SUBSET (Participants \X DOMAIN Modifiers),
           NEW refreshed, ModifiersAreTimely => refreshed = Refreshed(modified, p),
           NEW next, next # turn, ModifiersKept(M, p, modified, turn)
    PROVE  ModifiersKept(Aged(M, DueModifiers(M, state.modifiers[p], refreshed)),
                         p, modified, next)
<1> DEFINE due == DueModifiers(M, state.modifiers[p], refreshed)
           A   == Aged(M, due)
<1>1. /\ due \in SUBSET M
      /\ \A m \in M : m \in due <=>
            m \in state.modifiers[p] /\ Modifiers[m.id].stacking_group \notin refreshed
    BY DEF DueModifiers
<1> HIDE DEF due
<1>2. \A a \in A : \E m \in M : /\ a = IF m \in due THEN Less(m) ELSE m
                                /\ m \in due => m.remaining > 1
  <2>1. A = (M \ due) \cup {Less(e) : e \in {d \in due : d.remaining > 1}}
      BY DEF Aged, Less
  <2> QED
      BY <1>1, <2>1
<1> HIDE DEF A
<1>3. /\ M \in SUBSET ActiveModifiers
      /\ \A m, n \in M : Modifiers[m.id].stacking_group = Modifiers[n.id].stacking_group => m = n
    BY DEF ModifiersKept
<1>4. ASSUME NEW a \in A
      PROVE  a \in ActiveModifiers
    BY <1>2, <1>3, LessModifier
<1>5. ASSUME NEW a \in A, NEW b \in A,
             Modifiers[a.id].stacking_group = Modifiers[b.id].stacking_group
      PROVE  a = b
  <2>1. PICK m \in M : a = IF m \in due THEN Less(m) ELSE m
      BY <1>2
  <2>2. PICK n \in M : b = IF n \in due THEN Less(n) ELSE n
      BY <1>2
  <2>3. a.id = m.id /\ b.id = n.id
      BY <1>3, <2>1, <2>2, LessModifier
  <2>4. m = n
      BY <1>3, <1>5, <2>3
  <2> QED
      BY <2>1, <2>2, <2>4
<1>6. ASSUME ModifiersAreTimely, NEW a \in A
      PROVE  ModifierKept(a, p, modified, next)
  <2>1. PICK m \in M : a = IF m \in due THEN Less(m) ELSE m
      BY <1>2
  <2>2. /\ m \in ActiveModifiers /\ a.id = m.id /\ m.id \in DOMAIN Modifiers
        /\ ModifierKept(m, p, modified, turn)
      BY <1>3, <1>6, <2>1, LessModifier DEF ModifiersKept
  <2>3. refreshed = Refreshed(modified, p)
      BY <1>6
  <2>4. CASE <<p, m.id>> \in modified
    <3>1. Modifiers[m.id].stacking_group \in refreshed
      <4>1. <<p, m.id>>[1] = p /\ <<p, m.id>>[2] = m.id
          OBVIOUS
      <4> QED
          BY <2>3, <2>4, <4>1 DEF Refreshed
    <3>2. a = m
        BY <1>1, <2>1, <3>1
    <3> QED
        BY <2>2, <2>4, <3>2 DEF ModifierKept
  <2>5. CASE <<p, m.id>> \notin modified
    <3>1. /\ m \in state.modifiers[p]
          /\ \A n \in DOMAIN Modifiers : <<p, n>> \in modified =>
                Modifiers[n].stacking_group # Modifiers[m.id].stacking_group
        BY <2>2, <2>5 DEF ModifierKept
    <3>2. Modifiers[m.id].stacking_group \notin refreshed
      <4>1. \A x \in modified : /\ x[2] \in DOMAIN Modifiers
                                /\ x[1] = p => x = <<p, x[2]>>
          OBVIOUS
      <4> QED
          BY <2>3, <3>1, <4>1 DEF Refreshed
    <3>3. a = Less(m) /\ More(a) = m
        BY <1>1, <2>1, <2>2, <3>1, <3>2, LessModifier
    <3> QED
        BY <2>2, <2>5, <3>1, <3>3 DEF ModifierKept
  <2> QED
      BY <2>4, <2>5
<1>7. ModifiersKept(A, p, modified, next)
    BY <1>4, <1>5, <1>6 DEF ModifiersKept
<1> QED
    BY <1>7 DEF A, due

-------------------------------------------------------------------------------
(* A transaction. *)

\* Source "e" is the one a candidate names.
Suits(e, c) == e.definition = c.definition /\ e.source = c.source

KeyOf(c) == [boundary |-> c.boundary, cell |-> c.cell, participant |-> c.participant]

\* The source of a candidate has recorded it in this transaction.
Marked(sources, c) ==
    \A e \in sources : Suits(e, c) =>
        /\ e.application_revision < Now
        /\ e.trigger_revision = Now
        /\ KeyOf(c) \in e.trigger_keys

FiredOnce(t) ==
    \A k \in DOMAIN t.fired : t.fired[k][2] = "applied" =>
        /\ \A l \in DOMAIN t.fired : t.fired[l] = t.fired[k] => l = k
        /\ Marked(t.state.sources, t.fired[k][1])

\* A transaction that passes the turn to "next", or has not passed it yet.
Balanced(t, next) ==
    /\ t \in Transactions
    /\ SourcesKept(t.state.sources, next)
    /\ \A p \in Participants : EffectsKept(t.state.effects[p], p, next)
    /\ \A p \in Participants : ModifiersKept(t.state.modifiers[p], p, t.modified, next)
    /\ FiredOnce(t)

\* A modifier that another participant is given.
LEMMA ModifiersOfOthers ==
    ASSUME NEW M, NEW p, NEW q, p # q, NEW modified, NEW next, NEW i,
           ModifiersKept(M, p, modified, next)
    PROVE  ModifiersKept(M, p, modified \cup {<<q, i>>}, next)
<1> DEFINE mod == modified \cup {<<q, i>>}
<1>1. \A n : <<p, n>> \in mod <=> <<p, n>> \in modified
    OBVIOUS
<1> HIDE DEF mod
<1>2. \A m \in M : ModifierKept(m, p, modified, next) => ModifierKept(m, p, mod, next)
    BY <1>1 DEF ModifierKept
<1>3. ModifiersKept(M, p, mod, next)
    BY <1>2 DEF ModifiersKept
<1> QED
    BY <1>3 DEF mod

\* An operation keeps the balance.
LEMMA OperateBalances ==
    ASSUME Len(log) \in Nat, NEW t, NEW next, Balanced(t, next), NEW op \in Operations,
           NEW actor \in Participants, NEW target \in Participants, NEW cell,
           op.kind = "step" => cell \in Cells,
           op.kind = "source" => /\ next = turn /\ t.state.revision = Len(log)
                                 /\ op.definition \in CreatedBy(rules) /\ t.fired = <<>>,
           op.kind = "effect" /\ EffectsAreTimely => t.state.revision = Len(log)
    PROVE  LET r == Operate(t, op, actor, target, cell)
           IN  Balanced(r, next) /\ Operated(t, r, op, actor, target)
<1> DEFINE r == Operate(t, op, actor, target, cell)
<1>1. t \in Transactions
    BY DEF Balanced
<1>2. r \in Transactions /\ Operated(t, r, op, actor, target)
    BY <1>1, OperateFrame
<1> HIDE DEF r
<1>3. /\ t.state \in States
      /\ t.state.effects \in [Participants -> SUBSET ActiveEffects]
      /\ t.state.modifiers \in [Participants -> SUBSET ActiveModifiers]
    BY <1>1 DEF Transactions, States
<1>4. SourcesKept(r.state.sources, next)
  <2>1. CASE r.state.sources = t.state.sources
      BY <2>1 DEF Balanced
  <2>2. CASE r.state.sources # t.state.sources
    <3>1. /\ next = turn /\ t.state.revision = Len(log)
          /\ op.definition \in CreatedBy(rules)
        BY <1>2, <2>2 DEF Operated, SourcesChange
    <3>2. PICK at \in Participants :
             /\ HasRoom(SourceDefinitions, t.state.sources, op.definition, at)
             /\ r.state.sources = Stacked(SourceDefinitions, t.state.sources,
                                          NewSource(t.state, op.definition, actor, at))
        BY <1>2, <2>2 DEF Operated, SourcesChange
    <3>3. SourcesKept(t.state.sources, turn)
        BY <3>1 DEF Balanced
    <3> QED
        BY <1>3, <3>1, <3>2, <3>3, SourcesStacked
  <2> QED
      BY <2>1, <2>2
<1>5. ASSUME NEW p \in Participants
      PROVE  EffectsKept(r.state.effects[p], p, next)
  <2>1. EffectsKept(t.state.effects[p], p, next)
      BY DEF Balanced
  <2>2. CASE p # target \/ r.state.effects = t.state.effects
    <3>1. r.state.effects[p] = t.state.effects[p]
        BY <1>2, <1>3, <2>2 DEF Operated, EffectsChange
    <3> QED
        BY <2>1, <3>1
  <2>3. CASE /\ p = target
             /\ op.kind = "effect"
             /\ HasRoom(EffectDefinitions, t.state.effects[target], op.definition, actor)
             /\ r.state.effects =
                   [t.state.effects EXCEPT ![target] =
                       Stacked(EffectDefinitions, t.state.effects[target],
                               NewEffect(t.state, op.definition, actor))]
    <3>1. r.state.effects[p] = Stacked(EffectDefinitions, t.state.effects[p],
                                       NewEffect(t.state, op.definition, actor))
        BY <1>3, <2>3
    <3>2. op.definition \in DOMAIN EffectDefinitions
        BY <2>3 DEF Operations
    <3> QED
        BY <1>3, <2>1, <2>3, <3>1, <3>2, EffectsStacked
  <2>4. CASE /\ p = target
             /\ r.state.effects =
                   [t.state.effects EXCEPT ![target] =
                       {e \in t.state.effects[target] : e.definition # op.definition}]
    <3>1. r.state.effects[p] \in SUBSET t.state.effects[p]
        BY <1>3, <2>4
    <3> QED
        BY <2>1, <3>1, EffectsRemoved
  <2> QED
      BY <1>2, <2>2, <2>3, <2>4 DEF Operated, EffectsChange
<1>6. ASSUME NEW p \in Participants
      PROVE  ModifiersKept(r.state.modifiers[p], p, r.modified, next)
  <2>1. ModifiersKept(t.state.modifiers[p], p, t.modified, next)
      BY DEF Balanced
  <2>2. CASE r.state.modifiers = t.state.modifiers /\ r.modified = t.modified
      BY <2>1, <2>2
  <2>3. CASE /\ r.state.modifiers =
                   [t.state.modifiers EXCEPT ![target] =
                       WithModifier(t.state.modifiers[target], op.id)]
             /\ r.modified = t.modified \cup {<<target, op.id>>}
    <3>1. CASE p = target
      <4>1. r.state.modifiers[p] = WithModifier(t.state.modifiers[p], op.id)
          BY <1>3, <2>3, <3>1
      <4>2. op.id \in DOMAIN Modifiers
          BY DEF Operations
      <4> QED
          BY <2>1, <2>3, <3>1, <4>1, <4>2, ModifiersApplied
    <3>2. CASE p # target
      <4>1. r.state.modifiers[p] = t.state.modifiers[p]
          BY <1>3, <2>3, <3>2
      <4>2. ModifiersKept(t.state.modifiers[p], p, t.modified \cup {<<target, op.id>>}, next)
          BY <2>1, <3>2, ModifiersOfOthers
      <4> QED
          BY <2>3, <4>1, <4>2
    <3> QED
        BY <3>1, <3>2
  <2> QED
      BY <1>2, <2>2, <2>3 DEF Operated, ModifiersChange
<1>7. FiredOnce(r)
  <2>1. r.fired = t.fired
      BY <1>2 DEF Operated
  <2>2. CASE r.state.sources = t.state.sources
      BY <2>1, <2>2 DEF Balanced, FiredOnce
  <2>3. CASE r.state.sources # t.state.sources
    <3>1. r.fired = <<>>
        BY <1>2, <2>1, <2>3 DEF Operated, SourcesChange
    <3>2. DOMAIN r.fired = {}
        BY <3>1
    <3> QED
        BY <3>2 DEF FiredOnce
  <2> QED
      BY <2>2, <2>3
<1> QED
    BY <1>2, <1>4, <1>5, <1>6, <1>7 DEF Balanced, r

\* A failure keeps the balance.
LEMMA FailBalances ==
    ASSUME NEW t, NEW next, Balanced(t, next)
    PROVE  Balanced(Fail(t), next)
<1>1. /\ Fail(t) \in Transactions
      /\ Fail(t).state = t.state /\ Fail(t).modified = t.modified /\ Fail(t).fired = t.fired
    BY FailKeeps DEF Balanced
<1> QED
    BY <1>1 DEF Balanced, FiredOnce

\* A recorded trigger keeps the balance.
LEMMA StoreBalances ==
    ASSUME Len(log) \in Nat, NEW t, NEW next, Balanced(t, next),
           NEW e \in t.state.sources, NEW c \in TriggerCandidates, Suits(e, c),
           Records(e, KeyOf(c), Now),
           ~(e.trigger_revision = Now /\ Cardinality(e.trigger_keys) >= MaximumKeys)
    PROVE  LET r == [t EXCEPT !.state.sources = (@ \ {e}) \cup {Recorded(e, KeyOf(c), Now)}]
           IN  /\ Balanced(r, next)
               /\ Marked(r.state.sources, c)
               /\ r.state.revision = t.state.revision
               /\ r.state.vitality = t.state.vitality
               /\ r.modified = t.modified
               /\ r.fired = t.fired
               /\ \A d \in TriggerCandidates :
                     (\E f \in t.state.sources : Suits(f, d))
                        => \E f \in r.state.sources : Suits(f, d)
<1> DEFINE n == Recorded(e, KeyOf(c), Now)
           S == t.state.sources
           T == (S \ {e}) \cup {n}
           u == [t.state EXCEPT !.sources = T]
           r == [t EXCEPT !.state = u]
<1>1. t \in Transactions /\ t.state \in States /\ SourcesKept(S, next)
    BY DEF Balanced, Transactions
<1>2. KeyOf(c) \in TriggerKeys
    BY DEF KeyOf, TriggerKeys, TriggerCandidates
<1>3. /\ SourcesKept(T, next)
      /\ n.definition = e.definition /\ n.source = e.source
      /\ n.application_revision = e.application_revision
      /\ n.trigger_revision = Now /\ KeyOf(c) \in n.trigger_keys
      /\ e.trigger_revision = Now => e.trigger_keys \subseteq n.trigger_keys
    BY <1>1, <1>2, SourcesRecorded
<1>4. [t EXCEPT !.state.sources = (@ \ {e}) \cup {Recorded(e, KeyOf(c), Now)}] = r
    OBVIOUS
<1>5. \A f \in T : f = n \/ (f \in S /\ f # e)
    OBVIOUS
<1>6. n \in T /\ \A f \in S : f # e => f \in T
    OBVIOUS
<1> HIDE DEF n, T
<1>7. T \in SUBSET ActiveSources
    BY <1>3 DEF SourcesKept
<1>8. /\ u \in States /\ u.vitality = t.state.vitality /\ u.revision = t.state.revision
      /\ u.effects = t.state.effects /\ u.sources = T /\ u.modifiers = t.state.modifiers
    BY <1>1, <1>7, OtherFields
<1> HIDE DEF u
<1>9. /\ r \in Transactions
      /\ r.state = u /\ r.modified = t.modified /\ r.fired = t.fired
    BY <1>1, <1>8, OtherState
<1> HIDE DEF r
<1>10. e.application_revision < Now
  <2>1. e.application_revision \in 1 .. Now
      BY <1>1 DEF SourcesKept, SourceKept, Timed
  <2>2. e.application_revision # Now
      BY DEF Records
  <2> QED
      BY <2>1, <2>2 DEF Now
<1>11. Marked(T, c)
  <2>1. ASSUME NEW f \in S, Suits(f, c)
        PROVE  f = e
    <3>1. SameStack(SourceDefinitions, f, e)
        BY <2>1 DEF Suits, SameStack
    <3> QED
        BY <1>1, <3>1 DEF SourcesKept, StacksHold
  <2> QED
      BY <1>3, <1>5, <1>10, <2>1 DEF Marked
<1>12. ASSUME NEW d, Marked(S, d)
       PROVE  Marked(T, d)
    BY <1>3, <1>5, <1>12 DEF Marked, Suits
<1>13. FiredOnce(r)
    BY <1>8, <1>9, <1>12 DEF FiredOnce, Balanced
<1>14. Balanced(r, next)
    BY <1>3, <1>8, <1>9, <1>13 DEF Balanced
<1>15. ASSUME NEW d \in TriggerCandidates, \E f \in S : Suits(f, d)
       PROVE  \E f \in T : Suits(f, d)
  <2>1. PICK f \in S : Suits(f, d)
      BY <1>15
  <2>2. CASE f = e
      BY <1>3, <1>6, <2>1, <2>2 DEF Suits
  <2>3. CASE f # e
      BY <1>6, <2>1, <2>3
  <2> QED
      BY <2>2, <2>3
<1> QED
    BY <1>4, <1>8, <1>9, <1>11, <1>14, <1>15

\* A trigger that is noted keeps the balance.
LEMMA NoteBalances ==
    ASSUME NEW t, NEW next, Balanced(t, next), NEW c \in TriggerCandidates,
           NEW how \in {"suppressed", "applied", "inapplicable"},
           how = "applied" => /\ Marked(t.state.sources, c)
                              /\ \A k \in DOMAIN t.fired : t.fired[k] # <<c, "applied">>
    PROVE  LET r == [t EXCEPT !.fired = Append(@, <<c, how>>)]
           IN  /\ Balanced(r, next)
               /\ r.state = t.state /\ r.modified = t.modified
<1> DEFINE x == <<c, how>>
           F == Append(t.fired, x)
           r == [t EXCEPT !.fired = F]
           n == Len(t.fired)
<1>1. t \in Transactions /\ t.fired \in Seq(Firings) /\ x \in Firings
    BY DEF Balanced, Transactions, Firings
<1>2. x[1] = c /\ x[2] = how /\ (how = "applied" => x = <<c, "applied">>)
    OBVIOUS
<1> HIDE DEF x
<1>3. /\ F \in Seq(Firings) /\ n \in Nat /\ DOMAIN F = 1 .. n + 1 /\ DOMAIN t.fired = 1 .. n
      /\ \A k \in 1 .. n : F[k] = t.fired[k]
      /\ F[n + 1] = x
    BY <1>1
<1> HIDE DEF F, n
<1>4. /\ r \in Transactions /\ r.state = t.state /\ r.modified = t.modified
      /\ r.fired = F
    BY <1>1, <1>3 DEF Transactions
<1>5. r = [t EXCEPT !.fired = Append(@, <<c, how>>)]
    BY DEF F, x
<1> HIDE DEF r
<1>6. FiredOnce(t)
    BY DEF Balanced
<1>7. ASSUME NEW k \in DOMAIN F, F[k][2] = "applied"
      PROVE  (\A l \in DOMAIN F : F[l] = F[k] => l = k) /\ Marked(t.state.sources, F[k][1])
  <2>1. CASE k \in 1 .. n
    <3>1. F[k] = t.fired[k]
        BY <1>3, <2>1
    <3>2. /\ \A l \in 1 .. n : t.fired[l] = t.fired[k] => l = k
          /\ Marked(t.state.sources, t.fired[k][1])
        BY <1>3, <1>6, <1>7, <2>1, <3>1 DEF FiredOnce
    <3>3. F[n + 1] # F[k]
        BY <1>2, <1>3, <1>7, <2>1, <3>1
    <3>4. \A l \in DOMAIN F : l \in 1 .. n \/ l = n + 1
        BY <1>3
    <3> QED
        BY <1>3, <3>1, <3>2, <3>3, <3>4
  <2>2. CASE k \notin 1 .. n
    <3>1. k = n + 1
        BY <1>3, <1>7, <2>2
    <3>2. F[k] = x /\ how = "applied"
        BY <1>2, <1>3, <1>7, <3>1
    <3>3. \A l \in 1 .. n : F[l] # x
        BY <1>2, <1>3, <3>2
    <3>4. \A l \in DOMAIN F : l \in 1 .. n \/ l = n + 1
        BY <1>3
    <3> QED
        BY <1>2, <3>1, <3>2, <3>3, <3>4
  <2> QED
      BY <2>1, <2>2
<1>8. FiredOnce(r)
    BY <1>4, <1>7 DEF FiredOnce
<1>9. Balanced(r, next)
    BY <1>4, <1>8 DEF Balanced
<1> QED
    BY <1>4, <1>5, <1>9

-------------------------------------------------------------------------------
(* Triggers. *)

HasSource(t, c) == \E e \in t.state.sources : Suits(e, c)

\* What the triggers "B" of participants "P" leave as it is.
Triggered(t, r, B, P) ==
    /\ r.state.revision = t.state.revision
    /\ \A c \in TriggerCandidates : HasSource(t, c) => HasSource(r, c)
    /\ (\A b \in B : NeverDoes(rules, b, "modifier")) => r.modified = t.modified
    /\ (\A b \in B : NeverDoes(rules, b, "damage")) => r.state.vitality = t.state.vitality
    /\ \A p \in Participants : p \notin P => r.state.vitality[p] = t.state.vitality[p]

\* A candidate that has a source with such a trigger.
Answered(t, c, B) ==
    /\ HasSource(t, c)
    /\ Boundaries[c.boundary] \in B
    /\ Boundaries[c.boundary] \in DOMAIN SourceDefinitions[c.definition].triggers

\* The program of a trigger keeps the balance.
LEMMA TriggerProgramBalances ==
    ASSUME Len(log) \in Nat, NEW t, NEW next, Balanced(t, next), NEW c \in TriggerCandidates,
           c.definition \in CreatedBy(rules), Marked(t.state.sources, c),
           NEW b \in DOMAIN SourceDefinitions[c.definition].triggers,
           EffectsAreTimely =>
              t.state.revision = Len(log) \/ NeverDoes(rules, b, "effect"),
           NEW owner \in Participants
    PROVE  LET body == SourceDefinitions[c.definition].triggers[b].program
               r    == RunProgram(t, body, owner, c.participant, 0)
           IN  /\ Balanced(r, next) /\ Marked(r.state.sources, c) /\ r.fired = t.fired
               /\ Triggered(t, r, {b}, {c.participant})
<1> DEFINE body == SourceDefinitions[c.definition].triggers[b].program
           P    == {c.participant}
           V    == {x \in Transactions :
                      /\ Balanced(x, next)
                      /\ x.state.sources = t.state.sources
                      /\ x.fired = t.fired
                      /\ Triggered(t, x, {b}, P)}
<1>1. t \in V
    BY DEF Balanced, Triggered, HasSource
<1>2. c.definition \in DOMAIN SourceDefinitions
    BY DEF CreatedBy
<1>3. /\ body \in Seq(Operations)
      /\ \A k \in DOMAIN body : body[k].kind \notin {"step", "source"}
    BY <1>2, LedgerAssumption
<1>4. \A kind : NeverDoes(rules, b, kind) => \A k \in DOMAIN body : body[k].kind # kind
    BY DEF NeverDoes
<1>5. c.participant \in Participants
    BY DEF TriggerCandidates
<1>6. \A x \in V : /\ Balanced(x, next)
                   /\ x.state.sources = t.state.sources
                   /\ x.fired = t.fired
                   /\ Triggered(t, x, {b}, P)
    OBVIOUS
<1>7. \A x \in Transactions :
         /\ Balanced(x, next)
         /\ x.state.sources = t.state.sources
         /\ x.fired = t.fired
         /\ Triggered(t, x, {b}, P)
         => x \in V
    OBVIOUS
<1> HIDE DEF body, V
<1>8. ASSUME NEW k \in 1 .. Len(body), NEW x \in V, x.ok
      PROVE  Operate(x, body[k], owner, c.participant, 0) \in V
  <2> DEFINE op == body[k]
             r  == Operate(x, op, owner, c.participant, 0)
  <2>1. /\ op \in Operations /\ op.kind \notin {"step", "source"}
        /\ \A kind : NeverDoes(rules, b, kind) => op.kind # kind
      BY <1>3, <1>4
  <2> HIDE DEF op
  <2>2. Balanced(x, next) /\ Triggered(t, x, {b}, P)
      BY <1>6, <1>8
  <2>3. op.kind = "effect" /\ EffectsAreTimely => x.state.revision = Len(log)
      BY <2>1, <2>2 DEF Triggered
  <2>4. Balanced(r, next) /\ Operated(x, r, op, owner, c.participant)
      BY <1>5, <2>1, <2>2, <2>3, OperateBalances
  <2> HIDE DEF r
  <2>5. r.state.sources = t.state.sources /\ r.fired = t.fired
      BY <1>6, <1>8, <2>1, <2>4 DEF Operated, SourcesChange
  <2>6. Triggered(t, r, {b}, P)
    <3>1. r.state.revision = t.state.revision
        BY <2>2, <2>4 DEF Operated, Triggered
    <3>2. \A d \in TriggerCandidates : HasSource(t, d) => HasSource(r, d)
        BY <2>5 DEF HasSource
    <3>3. NeverDoes(rules, b, "modifier") => r.modified = t.modified
        BY <2>1, <2>2, <2>4 DEF Operated, ModifiersChange, Triggered
    <3>4. NeverDoes(rules, b, "damage") => r.state.vitality = t.state.vitality
        BY <2>1, <2>2, <2>4 DEF Operated, VitalityChange, Triggered
    <3>5. \A p \in Participants : p \notin P => r.state.vitality[p] = t.state.vitality[p]
        BY <2>2, <2>4 DEF Operated, VitalityChange, Triggered
    <3> QED
        BY <3>1, <3>2, <3>3, <3>4, <3>5 DEF Triggered
  <2>7. r \in V
      BY <1>7, <2>4, <2>5, <2>6 DEF Balanced
  <2> QED
      BY <2>7 DEF r, op
<1> DEFINE r == RunProgram(t, body, owner, c.participant, 0)
<1>9. r \in V
    BY <1>1, <1>3, <1>8, ProgramStays
<1> HIDE DEF r
<1>10. /\ Balanced(r, next) /\ Marked(r.state.sources, c) /\ r.fired = t.fired
       /\ Triggered(t, r, {b}, P)
    BY <1>6, <1>9
<1> QED
    BY <1>10 DEF r, body

\* One candidate keeps the balance.
LEMMA DispatchBalances ==
    ASSUME Len(log) \in Nat, NEW t, NEW next, Balanced(t, next), NEW c \in TriggerCandidates,
           NEW B, Answered(t, c, B),
           EffectsAreTimely =>
              t.state.revision = Len(log) \/ \A b \in B : NeverDoes(rules, b, "effect")
    PROVE  LET r == Dispatch(t, c, Now)
           IN  Balanced(r, next) /\ Triggered(t, r, B, {c.participant})
<1> DEFINE e       == CHOOSE f \in t.state.sources : f.definition = c.definition
                                                     /\ f.source = c.source
           b       == Boundaries[c.boundary]
           body    == SourceDefinitions[c.definition].triggers[b]
           key     == [boundary |-> c.boundary, cell |-> c.cell, participant |-> c.participant]
           stored  == [t EXCEPT !.state.sources = (@ \ {e}) \cup {Recorded(e, key, Now)}]
           u       == RunProgram(stored, body.program, e.owner, c.participant, 0)
           noted(x, how) == [x EXCEPT !.fired = Append(@, <<c, how>>)]
           r       == Dispatch(t, c, Now)
           P       == {c.participant}
<1>1. e \in t.state.sources /\ Suits(e, c)
    BY DEF Answered, HasSource, Suits
<1>2. key = KeyOf(c) /\ b \in B /\ b \in DOMAIN SourceDefinitions[c.definition].triggers
    BY DEF KeyOf, Answered
<1>3. /\ ~Records(e, key, Now) => r = noted(t, "suppressed")
      /\ /\ Records(e, key, Now)
         /\ e.trigger_revision = Now
         /\ Cardinality(e.trigger_keys) >= MaximumKeys
         => r = Fail(t)
      /\ /\ Records(e, key, Now)
         /\ ~(e.trigger_revision = Now /\ Cardinality(e.trigger_keys) >= MaximumKeys)
         => r = noted(u, "applied") \/ r = noted(stored, "inapplicable")
    BY DEF Dispatch
<1> HIDE DEF e, b, key, r
<1>4. e \in ActiveSources /\ e.owner \in Participants /\ SourceKept(e, next)
    BY <1>1 DEF Balanced, SourcesKept, ActiveSources
<1>5. c.definition \in CreatedBy(rules)
    BY <1>1, <1>4 DEF SourceKept, Suits
<1>6. CASE ~Records(e, key, Now)
  <2>1. r = [t EXCEPT !.fired = Append(@, <<c, "suppressed">>)]
      BY <1>3, <1>6
  <2>2. Balanced(r, next) /\ r.state = t.state /\ r.modified = t.modified
      BY <2>1, NoteBalances
  <2>3. Triggered(t, r, B, P)
      BY <2>2 DEF Triggered, HasSource
  <2> QED
      BY <2>2, <2>3 DEF r
<1>7. CASE /\ Records(e, key, Now)
           /\ e.trigger_revision = Now
           /\ Cardinality(e.trigger_keys) >= MaximumKeys
  <2>1. r = Fail(t)
      BY <1>3, <1>7
  <2>2. Balanced(r, next)
      BY <2>1, FailBalances
  <2>3. r.state = t.state /\ r.modified = t.modified
      BY <2>1, FailKeeps DEF Balanced
  <2>4. Triggered(t, r, B, P)
      BY <2>3 DEF Triggered, HasSource
  <2> QED
      BY <2>2, <2>4 DEF r
<1>8. CASE /\ Records(e, key, Now)
           /\ ~(e.trigger_revision = Now /\ Cardinality(e.trigger_keys) >= MaximumKeys)
  <2> DEFINE w == [t EXCEPT !.state.sources = (@ \ {e}) \cup {Recorded(e, KeyOf(c), Now)}]
  <2>0. w = stored /\ Records(e, KeyOf(c), Now)
      BY <1>2, <1>8
  <2>1. /\ Balanced(w, next)
        /\ Marked(w.state.sources, c)
        /\ w.state.revision = t.state.revision
        /\ w.state.vitality = t.state.vitality
        /\ w.modified = t.modified
        /\ w.fired = t.fired
        /\ \A d \in TriggerCandidates :
              (\E f \in t.state.sources : Suits(f, d)) => \E f \in w.state.sources : Suits(f, d)
      BY <1>1, <1>8, <2>0, StoreBalances
  <2> HIDE DEF w, stored
  <2>2. /\ Balanced(stored, next)
        /\ Marked(stored.state.sources, c)
        /\ stored.state.revision = t.state.revision
        /\ stored.modified = t.modified
        /\ stored.fired = t.fired
        /\ Triggered(t, stored, B, P)
      BY <2>0, <2>1 DEF Triggered, HasSource
  <2>3. \A k \in DOMAIN t.fired : t.fired[k] # <<c, "applied">>
    <3>1. ASSUME NEW k \in DOMAIN t.fired, t.fired[k] = <<c, "applied">>
          PROVE  FALSE
      <4>1. Marked(t.state.sources, c)
          BY <3>1 DEF Balanced, FiredOnce
      <4>2. e.trigger_revision = Now /\ key \in e.trigger_keys
          BY <1>1, <1>2, <4>1 DEF Marked
      <4> QED
          BY <1>8, <4>2 DEF Records
    <3> QED
        BY <3>1
  <2>4. CASE r = noted(stored, "inapplicable")
    <3>1. Balanced(r, next) /\ r.state = stored.state /\ r.modified = stored.modified
        BY <2>2, <2>4, NoteBalances
    <3>2. Triggered(t, r, B, P)
        BY <2>2, <3>1 DEF Triggered, HasSource
    <3> QED
        BY <3>1, <3>2 DEF r
  <2>5. CASE r = noted(u, "applied")
    <3>1. EffectsAreTimely =>
             stored.state.revision = Len(log) \/ NeverDoes(rules, b, "effect")
        BY <1>2, <2>2
    <3>2. /\ Balanced(u, next) /\ Marked(u.state.sources, c) /\ u.fired = stored.fired
          /\ Triggered(stored, u, {b}, P)
        BY <1>2, <1>4, <1>5, <2>2, <3>1, TriggerProgramBalances
    <3> HIDE DEF u
    <3>3. Triggered(t, u, B, P)
        BY <1>2, <2>2, <3>2 DEF Triggered
    <3>4. \A k \in DOMAIN u.fired : u.fired[k] # <<c, "applied">>
        BY <2>2, <2>3, <3>2
    <3>5. r = [u EXCEPT !.fired = Append(@, <<c, "applied">>)]
        BY <2>5
    <3>6. Balanced(r, next) /\ r.state = u.state /\ r.modified = u.modified
        BY <3>2, <3>4, <3>5, NoteBalances
    <3>7. Triggered(t, r, B, P)
        BY <3>3, <3>6 DEF Triggered, HasSource
    <3> QED
        BY <3>6, <3>7 DEF r
  <2> QED
      BY <1>3, <1>8, <2>4, <2>5
<1> QED
    BY <1>6, <1>7, <1>8

\* All candidates keep the balance.
LEMMA TriggersBalance ==
    ASSUME Len(log) \in Nat, NEW t, NEW next, Balanced(t, next),
           NEW C \in SUBSET TriggerCandidates, IsFiniteSet(C),
           NEW B, \A c \in C : Answered(t, c, B),
           NEW P, \A c \in C : c.participant \in P,
           EffectsAreTimely =>
              t.state.revision = Len(log) \/ \A b \in B : NeverDoes(rules, b, "effect")
    PROVE  LET r == RunTriggers(t, C, Now)
           IN  Balanced(r, next) /\ Triggered(t, r, B, P)
<1> DEFINE U == {x \in Transactions : Balanced(x, next) /\ Triggered(t, x, B, P)}
           V == [done : U, left : SUBSET C]
<1>1. t \in U
    BY DEF Balanced, Triggered
<1>2. [done |-> t, left |-> C] \in V
    BY <1>1
<1>3. \A x \in U : Balanced(x, next) /\ Triggered(t, x, B, P)
    OBVIOUS
<1>4. \A x : Balanced(x, next) /\ Triggered(t, x, B, P) => x \in U
    BY DEF Balanced
<1> HIDE DEF U
<1>5. ASSUME NEW v \in V
      PROVE  DispatchFirst(v, Now) \in V
  <2> DEFINE c == CHOOSE x \in v.left : \A d \in v.left \ {x} : Precedes(x, d)
             r == Dispatch(v.done, c, Now)
  <2>1. v.done \in U /\ v.left \in SUBSET C
      OBVIOUS
  <2>2. CASE v.left = {} \/ ~v.done.ok
      BY <2>2 DEF DispatchFirst
  <2>3. CASE ~(v.left = {} \/ ~v.done.ok)
    <3>1. DispatchFirst(v, Now) = [done |-> r, left |-> v.left \ {c}]
        BY <2>3 DEF DispatchFirst
    <3>2. v.left \in SUBSET TriggerCandidates /\ v.left # {}
        BY <2>1, <2>3
    <3>3. c \in v.left
        BY <3>2, FirstExists
    <3> HIDE DEF c
    <3>4. c \in C /\ c \in TriggerCandidates /\ c.participant \in P
        BY <2>1, <3>3
    <3>5. Balanced(v.done, next) /\ Triggered(t, v.done, B, P)
        BY <1>3, <2>1
    <3>6. Answered(v.done, c, B)
        BY <3>4, <3>5 DEF Answered, Triggered
    <3>7. EffectsAreTimely =>
             v.done.state.revision = Len(log) \/ \A b \in B : NeverDoes(rules, b, "effect")
        BY <3>5 DEF Triggered
    <3>8. Balanced(r, next) /\ Triggered(v.done, r, B, {c.participant})
        BY <3>4, <3>5, <3>6, <3>7, DispatchBalances
    <3> HIDE DEF r
    <3>9. Triggered(t, r, B, P)
        BY <3>4, <3>5, <3>8 DEF Triggered
    <3>10. r \in U
        BY <1>4, <3>8, <3>9
    <3> QED
        BY <2>1, <3>1, <3>10
  <2> QED
      BY <2>2, <2>3
<1>6. \A v \in V : v.done \in U
    OBVIOUS
<1> HIDE DEF V
<1>7. \E v \in V : RunTriggers(t, C, Now) = v.done
    BY <1>2, <1>5, TriggersStay
<1> DEFINE r == RunTriggers(t, C, Now)
<1>8. r \in U
    BY <1>6, <1>7
<1> HIDE DEF r
<1>9. Balanced(r, next) /\ Triggered(t, r, B, P)
    BY <1>3, <1>8
<1> QED
    BY <1>9 DEF r

-------------------------------------------------------------------------------
(* Candidates. *)

\* The boundaries have codes.
LEMMA Codes ==
    ASSUME NEW b \in {"enter", "startTurn", "endTurn", "exit"}
    PROVE  Code(b) \in 1 .. 4 /\ Boundaries[Code(b)] = b
<1>1. /\ Boundaries[1] = "enter" /\ Boundaries[2] = "startTurn"
      /\ Boundaries[3] = "endTurn" /\ Boundaries[4] = "exit"
    BY DEF Boundaries
<1>2. 1 \in 1 .. 4 /\ 2 \in 1 .. 4 /\ 3 \in 1 .. 4 /\ 4 \in 1 .. 4
    OBVIOUS
<1>3. \E k \in 1 .. 4 : Boundaries[k] = b
    BY <1>1, <1>2
<1> QED
    BY <1>3 DEF Code

\* The candidates that one source has are answered by it.
LEMMA CandidatesAnswered ==
    ASSUME NEW t \in Transactions, NEW e \in t.state.sources,
           NEW b \in {"enter", "startTurn", "endTurn", "exit"}, NEW B, b \in B,
           NEW cell \in Cells, NEW p \in Participants
    PROVE  LET C == Candidates(e, b, cell, p)
           IN  /\ IsFiniteSet(C)
               /\ \A c \in C : /\ c \in TriggerCandidates
                               /\ c.participant = p
                               /\ Answered(t, c, B)
<1> DEFINE C == Candidates(e, b, cell, p)
           x == [boundary |-> Code(b), definition |-> e.definition, source |-> e.source,
                 cell |-> cell, participant |-> p]
<1>1. e \in ActiveSources
    BY DEF Transactions, States
<1>2. /\ x \in TriggerCandidates
      /\ x.participant = p /\ x.definition = e.definition /\ x.source = e.source
      /\ Boundaries[x.boundary] = b
    BY <1>1, Codes DEF TriggerCandidates, ActiveSources
<1>3. \/ C = {}
      \/ C = {x} /\ b \in DOMAIN SourceDefinitions[e.definition].triggers
    BY DEF Candidates
<1> HIDE DEF x, C
<1>4. IsFiniteSet(C)
  <2>1. IsFiniteSet({}) /\ IsFiniteSet({x})
      BY FS_EmptySet, FS_Singleton
  <2> QED
      BY <1>3, <2>1
<1>5. ASSUME NEW c \in C
      PROVE  c \in TriggerCandidates /\ c.participant = p /\ Answered(t, c, B)
  <2>1. c = x /\ b \in DOMAIN SourceDefinitions[e.definition].triggers
      BY <1>3
  <2>2. Suits(e, c)
      BY <1>2, <2>1 DEF Suits
  <2> QED
      BY <1>2, <2>1, <2>2 DEF Answered, HasSource
<1> QED
    BY <1>4, <1>5 DEF C

\* The candidates of a turn that ends or starts.
LEMMA TurnCandidatesAnswered ==
    ASSUME NEW t \in Transactions, IsFiniteSet(t.state.sources),
           NEW b \in {"startTurn", "endTurn"}, NEW p \in Participants
    PROVE  LET C == TurnCandidates(t, b, p)
           IN  /\ C \in SUBSET TriggerCandidates
               /\ IsFiniteSet(C)
               /\ \A c \in C : c.participant \in {p} /\ Answered(t, c, {b})
<1> DEFINE cell == t.state.position[p]
           S    == {f \in t.state.sources : cell \in f.cells}
           g    == [e \in S |-> Candidates(e, b, cell, p)]
           G    == {g[e] : e \in S}
           C    == TurnCandidates(t, b, p)
<1>1. cell \in Cells
    BY DEF Transactions, States
<1>2. IsFiniteSet(S) /\ S \subseteq t.state.sources
    BY FS_Subset
<1>3. C = UNION G
    BY DEF TurnCandidates
<1>4. ASSUME NEW e \in S
      PROVE  /\ IsFiniteSet(g[e])
             /\ \A c \in g[e] : /\ c \in TriggerCandidates
                                /\ c.participant = p
                                /\ Answered(t, c, {b})
    BY <1>1, <1>2, CandidatesAnswered
<1> HIDE DEF g, S, C
<1>5. IsFiniteSet(G)
    BY <1>2, ImageFinite
<1>6. IsFiniteSet(UNION G)
    BY <1>4, <1>5, FS_UNION
<1>7. \A c \in UNION G : \E e \in S : c \in g[e]
    OBVIOUS
<1> HIDE DEF G
<1>8. \A c \in C : c \in TriggerCandidates /\ c.participant = p /\ Answered(t, c, {b})
    BY <1>3, <1>4, <1>7
<1>9. C \in SUBSET TriggerCandidates
    BY <1>8
<1> QED
    BY <1>3, <1>6, <1>8, <1>9 DEF C

\* The candidates of the movement of an action.
LEMMA MovementCandidatesAnswered ==
    ASSUME NEW t \in Transactions, IsFiniteSet(t.state.sources)
    PROVE  LET C == MovementCandidates(t)
           IN  /\ C \in SUBSET TriggerCandidates
               /\ IsFiniteSet(C)
               /\ \A c \in C : /\ c.participant \in Participants
                               /\ Answered(t, c, {"enter", "exit"})
<1> DEFINE Good(c) == c \in TriggerCandidates /\ Answered(t, c, {"enter", "exit"})
           Part(k, e, m) ==
              LET way == <<m.start>> \o m.route
              IN  IF way[k] \notin e.cells /\ way[k + 1] \in e.cells
                  THEN Candidates(e, "enter", way[k + 1], m.mover)
                  ELSE IF way[k] \in e.cells /\ way[k + 1] \notin e.cells
                  THEN Candidates(e, "exit", way[k], m.mover)
                  ELSE {}
           Parts(m) == {Part(k, e, m) : k \in DOMAIN m.route, e \in t.state.sources}
           C == MovementCandidates(t)
<1>1. t.moves \in SUBSET Moves /\ IsFiniteSet(t.moves)
    BY DEF Transactions
<1>2. C = UNION {UNION Parts(m) : m \in t.moves}
    BY DEF MovementCandidates
<1>3. ASSUME NEW m \in t.moves, NEW k \in DOMAIN m.route, NEW e \in t.state.sources
      PROVE  IsFiniteSet(Part(k, e, m)) /\ \A c \in Part(k, e, m) : Good(c)
  <2> DEFINE way == <<m.start>> \o m.route
             i   == way[k]
             j   == way[k + 1]
  <2>1. m.mover \in Participants /\ m.start \in Cells /\ m.route \in Seq(Cells)
      BY <1>1 DEF Moves
  <2>2. i \in Cells /\ j \in Cells
    <3>1. <<m.start>> \in Seq(Cells) /\ Len(<<m.start>>) = 1
        BY <2>1
    <3>2. way \in Seq(Cells) /\ Len(way) = 1 + Len(m.route) /\ Len(m.route) \in Nat
        BY <2>1, <3>1
    <3>3. k \in 1 .. Len(way) /\ k + 1 \in 1 .. Len(way)
        BY <2>1, <3>2
    <3> HIDE DEF way
    <3>4. \A l \in 1 .. Len(way) : way[l] \in Cells
        BY <3>2
    <3> QED
        BY <3>3, <3>4
  <2>3. Part(k, e, m) = IF i \notin e.cells /\ j \in e.cells
                        THEN Candidates(e, "enter", j, m.mover)
                        ELSE IF i \in e.cells /\ j \notin e.cells
                        THEN Candidates(e, "exit", i, m.mover)
                        ELSE {}
      OBVIOUS
  <2> HIDE DEF Part, i, j
  <2>4. /\ IsFiniteSet(Candidates(e, "enter", j, m.mover))
        /\ \A c \in Candidates(e, "enter", j, m.mover) : Good(c)
      BY <2>1, <2>2, CandidatesAnswered
  <2>5. /\ IsFiniteSet(Candidates(e, "exit", i, m.mover))
        /\ \A c \in Candidates(e, "exit", i, m.mover) : Good(c)
      BY <2>1, <2>2, CandidatesAnswered
  <2>6. \/ Part(k, e, m) = Candidates(e, "enter", j, m.mover)
        \/ Part(k, e, m) = Candidates(e, "exit", i, m.mover)
        \/ Part(k, e, m) = {}
      BY <2>3
  <2> HIDE DEF Good
  <2> QED
      BY <2>4, <2>5, <2>6, FS_EmptySet
<1> HIDE DEF Part, Good
<1>4. ASSUME NEW m \in t.moves
      PROVE  IsFiniteSet(UNION Parts(m)) /\ \A c \in UNION Parts(m) : Good(c)
  <2> DEFINE X == (DOMAIN m.route) \X t.state.sources
             f == [x \in X |-> Part(x[1], x[2], m)]
             F == {f[x] : x \in X}
  <2>1. IsFiniteSet(X)
    <3>1. m.route \in Seq(Cells)
        BY <1>1 DEF Moves
    <3>2. DOMAIN m.route = 1 .. Len(m.route) /\ Len(m.route) \in Nat
        BY <3>1
    <3>3. IsFiniteSet(DOMAIN m.route)
        BY <3>2, FS_Interval
    <3> QED
        BY <3>3, FS_Product
  <2>2. \A x \in X : x[1] \in DOMAIN m.route /\ x[2] \in t.state.sources
      OBVIOUS
  <2>3. \A x \in X : f[x] = Part(x[1], x[2], m)
      OBVIOUS
  <2>4. \A x \in X : IsFiniteSet(f[x]) /\ \A c \in f[x] : Good(c)
      BY <1>3, <2>2, <2>3
  <2>5. Parts(m) = F
    <3>1. ASSUME NEW k \in DOMAIN m.route, NEW e \in t.state.sources
          PROVE  Part(k, e, m) \in F
      <4>1. <<k, e>> \in X /\ f[<<k, e>>] = Part(k, e, m)
          OBVIOUS
      <4> HIDE DEF f, X
      <4> QED
          BY <4>1
    <3>2. \A x \in X : f[x] \in Parts(m)
        BY <2>2, <2>3
    <3> HIDE DEF f, X
    <3> QED
        BY <3>1, <3>2
  <2> HIDE DEF X, f
  <2>6. IsFiniteSet(F)
      BY <2>1, ImageFinite
  <2>7. IsFiniteSet(UNION F)
      BY <2>4, <2>6, FS_UNION
  <2>8. \A c \in UNION F : Good(c)
      BY <2>4
  <2> HIDE DEF F, Parts
  <2> QED
      BY <2>5, <2>7, <2>8
<1> DEFINE g == [m \in t.moves |-> UNION Parts(m)]
           G == {g[m] : m \in t.moves}
<1>5. \A m \in t.moves : g[m] = UNION Parts(m)
    OBVIOUS
<1>6. C = UNION G
  <2> HIDE DEF Parts, C
  <2>1. G = {UNION Parts(m) : m \in t.moves}
      OBVIOUS
  <2> HIDE DEF G
  <2> QED
      BY <1>2, <2>1
<1> HIDE DEF g, C, Parts
<1>7. IsFiniteSet(G)
    BY <1>1, ImageFinite
<1>8. IsFiniteSet(UNION G)
  <2>1. \A T \in G : IsFiniteSet(T)
      BY <1>4, <1>5
  <2> HIDE DEF G
  <2> QED
      BY <1>7, <2>1, FS_UNION
<1>9. \A c \in UNION G : Good(c)
    BY <1>4, <1>5
<1> HIDE DEF G
<1>10. \A c \in C : Good(c)
    BY <1>6, <1>9
<1>11. \A c \in TriggerCandidates : c.participant \in Participants
    BY DEF TriggerCandidates
<1> QED
    BY <1>6, <1>8, <1>10, <1>11 DEF Good, C

-------------------------------------------------------------------------------
(* The turn. *)

\* Where there is someone to fight, the turn passes to someone else alive.
LEMMA NextIsAnother ==
    ASSUME NEW s, NEW t \in Turns, InProgress(s)
    PROVE  LET next == NextTurn(t, s)
           IN  /\ next \in Turns
               /\ next.actor \in Living(s)
               /\ next.actor # t.actor
               /\ next # t
<1> DEFINE next == NextTurn(t, s)
           i    == Place(t.actor)
<1>1. PICK p \in Living(s), q \in Living(s) : Team[p] # Team[q]
    BY DEF InProgress
<1>2. /\ next \in Turns
      /\ next.actor \in Living(s)
      /\ next.turn = t.turn + 1
      /\ \A k \in PassedOver(i, Place(next.actor)) : Initiative[k] \notin Living(s)
    BY <1>1, NextTurnIsNearestLiving
<1> HIDE DEF next
<1>3. next # t
    BY <1>2 DEF Turns
<1>4. next.actor # t.actor
  <2>1. SUFFICES ASSUME next.actor = t.actor
                 PROVE  FALSE
      OBVIOUS
  <2>2. PICK x \in Living(s) : x # t.actor
      BY <1>1
  <2>3. x \in Participants /\ t.actor \in Participants
      BY DEF Living, Turns
  <2>4. /\ Place(x) \in 1 .. Len(Initiative) /\ Initiative[Place(x)] = x
        /\ i \in 1 .. Len(Initiative) /\ Initiative[i] = t.actor
        /\ Len(Initiative) \in Nat
      BY <2>3, PlaceInOrder
  <2>5. Place(x) # i
      BY <2>2, <2>4
  <2>6. Place(x) \in PassedOver(i, i)
      BY <2>4, <2>5 DEF PassedOver
  <2> QED
      BY <1>2, <2>1, <2>4, <2>6
<1> QED
    BY <1>2, <1>3, <1>4 DEF next

\* Ageing keeps the balance.
LEMMA AgeBalances ==
    ASSUME Len(log) \in Nat, NEW t, Balanced(t, turn), NEW next, next # turn,
           NEW refreshed, ModifiersAreTimely => refreshed = t.modified
    PROVE  LET r == Age(t, state, refreshed, next, Now)
           IN  /\ Balanced(r, next)
               /\ r.state.revision = t.state.revision
               /\ r.state.vitality = t.state.vitality
<1> DEFINE s  == t.state
           E  == [p \in Participants |->
                    Aged(s.effects[p], DueEffects(s.effects[p], p, turn, next, Now))]
           S  == Aged(s.sources, DueSources(s.sources, turn, next, Now))
           M  == [p \in Participants |->
                    Aged(s.modifiers[p], DueModifiers(s.modifiers[p], state.modifiers[p],
                                                      Refreshed(refreshed, p)))]
           u1 == [s EXCEPT !.effects = E]
           u2 == [u1 EXCEPT !.sources = S]
           u3 == [u2 EXCEPT !.modifiers = M]
           r  == Age(t, state, refreshed, next, Now)
<1>1. t \in Transactions /\ s \in States /\ FiredOnce(t)
    BY DEF Balanced, Transactions
<1>2. \A p \in Participants : EffectsKept(E[p], p, next)
    BY EffectsAged DEF Balanced
<1>3. /\ SourcesKept(S, next)
      /\ \A a \in S : \E e \in s.sources :
            /\ a.definition = e.definition /\ a.source = e.source
            /\ a.application_revision = e.application_revision
            /\ a.trigger_revision = e.trigger_revision
            /\ a.trigger_keys = e.trigger_keys
    BY SourcesAged DEF Balanced
<1>4. \A p \in Participants : ModifiersKept(M[p], p, t.modified, next)
  <2>1. ASSUME NEW p \in Participants
        PROVE  ModifiersKept(M[p], p, t.modified, next)
    <3>1. ModifiersKept(s.modifiers[p], p, t.modified, turn)
        BY DEF Balanced
    <3>2. t.modified \in SUBSET (Participants \X DOMAIN Modifiers)
        BY <1>1 DEF Transactions
    <3>3. ModifiersAreTimely => Refreshed(refreshed, p) = Refreshed(t.modified, p)
        OBVIOUS
    <3>4. ModifiersKept(Aged(s.modifiers[p], DueModifiers(s.modifiers[p], state.modifiers[p],
                                                          Refreshed(refreshed, p))),
                        p, t.modified, next)
        BY <3>1, <3>2, <3>3, ModifiersAged
    <3> QED
        BY <3>4
  <2> QED
      BY <2>1
<1>5. r = [t EXCEPT !.state = u3]
  <2>1. r = [t EXCEPT
               !.state.effects = [p \in Participants |->
                   Aged(@[p], DueEffects(@[p], p, turn, next, Now))],
               !.state.sources = Aged(@, DueSources(@, turn, next, Now)),
               !.state.modifiers = [p \in Participants |->
                   Aged(@[p], DueModifiers(@[p], state.modifiers[p], Refreshed(refreshed, p)))]]
      BY DEF Age, Refreshed
  <2>2. /\ u1.sources = s.sources
        /\ u1.modifiers = s.modifiers
        /\ u2.modifiers = s.modifiers
      BY <1>1 DEF States
  <2>3. t.state = s
      OBVIOUS
  <2> QED
      BY <1>1, <2>1, <2>2, <2>3 DEF Transactions
<1> HIDE DEF E, S, M
<1>6. /\ E \in [Participants -> SUBSET ActiveEffects]
      /\ S \in SUBSET ActiveSources
      /\ M \in [Participants -> SUBSET ActiveModifiers]
  <2>1. E \in [Participants -> SUBSET ActiveEffects]
    <3>1. \A p \in Participants : E[p] \in SUBSET ActiveEffects
        BY <1>2 DEF EffectsKept
    <3> QED
        BY <3>1 DEF E
  <2>2. M \in [Participants -> SUBSET ActiveModifiers]
    <3>1. \A p \in Participants : M[p] \in SUBSET ActiveModifiers
        BY <1>4 DEF ModifiersKept
    <3> QED
        BY <3>1 DEF M
  <2> QED
      BY <1>3, <2>1, <2>2 DEF SourcesKept
<1>7. /\ u1 \in States /\ u1.effects = E /\ u1.revision = s.revision /\ u1.vitality = s.vitality
    BY <1>1, <1>6, OtherFields
<1> HIDE DEF u1
<1>8. /\ u2 \in States /\ u2.effects = E /\ u2.revision = s.revision /\ u2.vitality = s.vitality
      /\ u2.sources = S
    BY <1>6, <1>7, OtherFields
<1> HIDE DEF u2
<1>9. /\ u3 \in States /\ u3.effects = E /\ u3.revision = s.revision /\ u3.vitality = s.vitality
      /\ u3.sources = S /\ u3.modifiers = M
    BY <1>6, <1>8, OtherFields
<1> HIDE DEF u3, r
<1>10. /\ r \in Transactions
       /\ r.state = u3 /\ r.modified = t.modified /\ r.fired = t.fired
    BY <1>1, <1>5, <1>9, OtherState
<1>11. ASSUME NEW d, Marked(s.sources, d)
       PROVE  Marked(S, d)
    BY <1>3, <1>11 DEF Marked, Suits
<1>12. FiredOnce(r)
    BY <1>1, <1>9, <1>10, <1>11 DEF FiredOnce
<1>13. Balanced(r, next)
    BY <1>2, <1>3, <1>4, <1>9, <1>10, <1>12 DEF Balanced
<1> QED
    BY <1>9, <1>10, <1>13 DEF r

\* Passing the turn keeps the balance.
LEMMA PassTurnBalances ==
    ASSUME Len(log) \in Nat, turn \in Turns, NEW t, Balanced(t, turn),
           NEW next \in Turns, next # turn, rules \in Rulesets,
           EffectsAreTimely =>
              \/ t.state.revision = Len(log)
              \/ \A b \in {"startTurn", "endTurn"} : NeverDoes(rules, b, "effect")
    PROVE  LET u == PassTurn(t, state, next, Now)
           IN  /\ u.ok => Balanced(u, next)
               /\ u.state.revision = t.state.revision
               /\ u \in Transactions
               /\ next.actor # turn.actor /\ NeverDoes(rules, "startTurn", "damage")
                     => u.state.vitality[next.actor] = t.state.vitality[next.actor]
<1> DEFINE C1    == TurnCandidates(t, "endTurn", turn.actor)
           ended == RunTriggers(t, C1, Now)
           aged  == Age(ended, state, t.modified, next, Now)
           C2    == TurnCandidates(aged, "startTurn", next.actor)
           last  == RunTriggers(aged, C2, Now)
           u     == PassTurn(t, state, next, Now)
<1>1. turn.actor \in Participants /\ next.actor \in Participants
    BY DEF Turns
<1>2. u = IF ended.ok THEN last ELSE ended
    BY DEF PassTurn
<1> HIDE DEF u, last, aged, ended
<1>3. Balanced(ended, turn) /\ Triggered(t, ended, {"endTurn"}, {turn.actor})
  <2>1. t \in Transactions /\ IsFiniteSet(t.state.sources)
      BY DEF Balanced, SourcesKept, StacksHold
  <2>2. /\ C1 \in SUBSET TriggerCandidates /\ IsFiniteSet(C1)
        /\ \A c \in C1 : c.participant \in {turn.actor} /\ Answered(t, c, {"endTurn"})
      BY <1>1, <2>1, TurnCandidatesAnswered
  <2> HIDE DEF C1
  <2>3. EffectsAreTimely =>
           t.state.revision = Len(log) \/ \A b \in {"endTurn"} : NeverDoes(rules, b, "effect")
      OBVIOUS
  <2> QED
      BY <2>2, <2>3, TriggersBalance DEF ended
<1>4. ModifiersAreTimely => t.modified = ended.modified
  <2>1. ModifiersAreTimely => NeverDoes(rules, "endTurn", "modifier")
      BY DEF ModifiersAreTimely
  <2> QED
      BY <1>3, <2>1 DEF Triggered
<1>5. /\ Balanced(aged, next)
      /\ aged.state.revision = ended.state.revision
      /\ aged.state.vitality = ended.state.vitality
    BY <1>3, <1>4, AgeBalances DEF aged
<1>6. Balanced(last, next) /\ Triggered(aged, last, {"startTurn"}, {next.actor})
  <2>1. aged \in Transactions /\ IsFiniteSet(aged.state.sources)
      BY <1>5 DEF Balanced, SourcesKept, StacksHold
  <2>2. /\ C2 \in SUBSET TriggerCandidates /\ IsFiniteSet(C2)
        /\ \A c \in C2 : c.participant \in {next.actor} /\ Answered(aged, c, {"startTurn"})
      BY <1>1, <2>1, TurnCandidatesAnswered
  <2> HIDE DEF C2
  <2>3. EffectsAreTimely =>
           \/ aged.state.revision = Len(log)
           \/ \A b \in {"startTurn"} : NeverDoes(rules, b, "effect")
      BY <1>3, <1>5 DEF Triggered
  <2> QED
      BY <1>5, <2>2, <2>3, TriggersBalance DEF last
<1>7. u.ok => Balanced(u, next)
    BY <1>2, <1>6
<1>8. u.state.revision = t.state.revision /\ u \in Transactions
    BY <1>2, <1>3, <1>5, <1>6 DEF Triggered, Balanced
<1>9. next.actor # turn.actor /\ NeverDoes(rules, "startTurn", "damage")
         => u.state.vitality[next.actor] = t.state.vitality[next.actor]
    BY <1>1, <1>2, <1>3, <1>5, <1>6 DEF Triggered
<1> QED
    BY <1>7, <1>8, <1>9 DEF u

\* An action and the triggers of its movement keep the balance.
LEMMA ActedBalances ==
    ASSUME Len(log) \in Nat, turn \in Turns, rules \in Rulesets,
           state.revision = Len(log), Balanced(Staged(state), turn),
           NEW action \in rules.actions, NEW target \in Participants, NEW cell,
           Steps(Procedures[action]) => cell \in Cells
    PROVE  LET r == Acted(action, target, cell)
           IN  r.ok => Balanced(r, turn) /\ r.state.revision = Now
<1> DEFINE program  == Procedures[action].program
           run      == RunProgram(Staged(state), program, turn.actor, target, cell)
           v        == [run.state EXCEPT !.revision = @ + 1]
           advanced == [run EXCEPT !.state = v]
           C        == MovementCandidates(advanced)
           B        == {"enter", "exit"}
           last     == RunTriggers(advanced, C, Now)
           r        == Acted(action, target, cell)
           V        == {x \in Transactions :
                          /\ Balanced(x, turn)
                          /\ x.state.revision = Len(log)
                          /\ x.fired = <<>>}
<1>1. action \in DOMAIN Procedures /\ turn.actor \in Participants
    BY LedgerAssumption DEF Turns
<1>2. program \in Seq(Operations)
    BY <1>1, LedgerAssumption
<1>3. r = IF run.ok THEN last ELSE run
    BY DEF Acted, Now
<1> HIDE DEF r, last, C
<1>4. /\ \A k \in 1 .. Len(program) : program[k].kind = "step" => cell \in Cells
      /\ \A k \in 1 .. Len(program) :
            program[k].kind = "source" => program[k].definition \in CreatedBy(rules)
      /\ \A k \in 1 .. Len(program) : program[k] \in Operations
  <2>1. \A k \in 1 .. Len(program) : k \in DOMAIN program /\ program[k] \in Operations
      BY <1>2
  <2>2. \A k \in 1 .. Len(program) : program[k].kind = "step" => cell \in Cells
      BY <2>1 DEF Steps
  <2>3. \A k \in 1 .. Len(program) :
           program[k].kind = "source" => program[k].definition \in DOMAIN SourceDefinitions
      BY <2>1 DEF Operations
  <2>4. \A k \in 1 .. Len(program) :
           program[k].kind = "source" => program[k].definition \in CreatedBy(rules)
      BY <2>1, <2>3 DEF CreatedBy
  <2> QED
      BY <2>1, <2>2, <2>4
<1> HIDE DEF program
<1>5. Staged(state) \in V
    BY DEF Staged, Balanced
<1>6. ASSUME NEW k \in 1 .. Len(program), NEW x \in V, x.ok
      PROVE  Operate(x, program[k], turn.actor, target, cell) \in V
  <2> DEFINE o == Operate(x, program[k], turn.actor, target, cell)
  <2>1. Balanced(x, turn) /\ x.state.revision = Len(log) /\ x.fired = <<>>
      BY <1>6
  <2>2. Balanced(o, turn) /\ Operated(x, o, program[k], turn.actor, target)
      BY <1>1, <1>4, <2>1, OperateBalances
  <2> HIDE DEF o
  <2>3. o \in V
      BY <2>1, <2>2 DEF Operated, Balanced
  <2> QED
      BY <2>3 DEF o
<1> HIDE DEF V
<1>7. run \in V
    BY <1>2, <1>5, <1>6, ProgramStays
<1> HIDE DEF run
<1>8. Balanced(run, turn) /\ run.state.revision = Len(log)
    BY <1>7 DEF V
<1>9. /\ run \in Transactions /\ run.state \in States
    BY <1>8 DEF Balanced, Transactions
<1>10. /\ v \in States /\ v.revision = Now
       /\ v.effects = run.state.effects /\ v.sources = run.state.sources
       /\ v.modifiers = run.state.modifiers
  <2>1. run.state.revision + 1 = Now /\ Now \in Nat
      BY <1>8 DEF Now
  <2>2. v = [run.state EXCEPT !.revision = Now]
      BY <2>1
  <2> HIDE DEF v
  <2> QED
      BY <1>9, <2>1, <2>2 DEF States
<1> HIDE DEF v
<1>11. /\ advanced \in Transactions /\ advanced.state = v
       /\ advanced.modified = run.modified /\ advanced.fired = run.fired
    BY <1>9, <1>10, OtherState
<1> HIDE DEF advanced
<1>12. Balanced(advanced, turn)
    BY <1>8, <1>10, <1>11 DEF Balanced, FiredOnce
<1>13. /\ C \in SUBSET TriggerCandidates /\ IsFiniteSet(C)
       /\ \A c \in C : c.participant \in Participants /\ Answered(advanced, c, B)
  <2>1. IsFiniteSet(advanced.state.sources)
      BY <1>12 DEF Balanced, SourcesKept, StacksHold
  <2> QED
      BY <1>11, <2>1, MovementCandidatesAnswered DEF C
<1>14. EffectsAreTimely => \A b \in B : NeverDoes(rules, b, "effect")
    BY DEF EffectsAreTimely
<1>15. Balanced(last, turn) /\ Triggered(advanced, last, B, Participants)
    BY <1>12, <1>13, <1>14, TriggersBalance DEF last
<1>16. last.state.revision = Now
    BY <1>10, <1>11, <1>15 DEF Triggered
<1>17. r.ok => Balanced(r, turn) /\ r.state.revision = Now
    BY <1>3, <1>15, <1>16
<1> QED
    BY <1>17 DEF r

-------------------------------------------------------------------------------
(* Between the commands. *)

Entries ==
    [actor : Participants, action : DOMAIN Procedures \cup {EndTurn}, from : Turns, to : Turns,
     modified : SUBSET (Participants \X DOMAIN Modifiers), fired : Seq(Firings)]

\* Everything active was applied, and has recorded triggers, in the past.
Past ==
    /\ \A e \in state.sources :
          e.application_revision <= Len(log) /\ e.trigger_revision <= Len(log)
    /\ EffectsAreTimely =>
          \A p \in Participants : \A e \in state.effects[p] : e.application_revision <= Len(log)

OneOfEachGroup ==
    \A p \in Participants : \A m, n \in state.modifiers[p] :
        Modifiers[m.id].stacking_group = Modifiers[n.id].stacking_group => m = n

\* The inductive invariant.
IInv ==
    /\ TypeOK
    /\ log \in Seq(Entries)
    /\ SourcesKept(state.sources, turn)
    /\ \A p \in Participants : EffectsKept(state.effects[p], p, turn)
    /\ Past
    /\ OneOfEachGroup
    /\ ModifiersAreTimely => ModifierTenure
    /\ StartsAreHarmless /\ rules.economy = "fixed" => TurnRestores(state)

\* A transaction that has done nothing yet is balanced.
LEMMA StagedBalances ==
    ASSUME IInv
    PROVE  Balanced(Staged(state), turn)
<1> DEFINE t == Staged(state)
           none == {}
           quiet == <<>>
<1>1. state \in States
    BY DEF IInv, TypeOK
<1>2. t = [ok |-> TRUE, state |-> state, moves |-> none, modified |-> none, fired |-> quiet]
    BY DEF Staged
<1>3. /\ none \in SUBSET Moves /\ IsFiniteSet(none)
      /\ none \in SUBSET (Participants \X DOMAIN Modifiers)
      /\ quiet \in Seq(Firings) /\ DOMAIN quiet = {}
      /\ \A x : x \notin none
    BY FS_EmptySet
<1> HIDE DEF t, none, quiet
<1>4. /\ t \in Transactions /\ t.state = state /\ t.modified = none /\ t.fired = quiet
    BY <1>1, <1>2, <1>3 DEF Transactions
<1>5. ASSUME NEW p \in Participants
      PROVE  ModifiersKept(state.modifiers[p], p, none, turn)
  <2>1. state.modifiers[p] \in SUBSET ActiveModifiers
      BY <1>1 DEF States
  <2>2. \A m, n \in state.modifiers[p] :
           Modifiers[m.id].stacking_group = Modifiers[n.id].stacking_group => m = n
      BY DEF IInv, OneOfEachGroup
  <2>3. \A m \in state.modifiers[p] : ModifierKept(m, p, none, turn)
      BY <1>3 DEF ModifierKept
  <2> QED
      BY <2>1, <2>2, <2>3 DEF ModifiersKept
<1>6. FiredOnce(t)
    BY <1>3, <1>4 DEF FiredOnce
<1>7. Balanced(t, turn)
    BY <1>4, <1>5, <1>6 DEF Balanced, IInv
<1> QED
    BY <1>7 DEF t

\* A modifier's count goes on from one entry to the next.
LEMMA ModifierCounts ==
    ASSUME IInv, ModifierTenure, NEW p \in Participants, NEW m \in ActiveModifiers,
           NEW modified, NEW next \in Turns, NEW entry, log' = Append(log, entry),
           entry.modified = modified, entry.from = turn, entry.to = next,
           entry \in Entries,
           ModifierKept(m, p, modified, next)
    PROVE  LET applied == {k \in DOMAIN log' : <<p, m.id>> \in log'[k].modified}
               passed  == {j \in DOMAIN log' : /\ log'[j].from # log'[j].to
                                               /\ \A k \in applied : k < j}
           IN  /\ applied # {}
               /\ m.remaining = Modifiers[m.id].turns - Cardinality(passed)
<1> DEFINE n       == Len(log)
           applied == {k \in DOMAIN log' : <<p, m.id>> \in log'[k].modified}
           passed  == {j \in DOMAIN log' : /\ log'[j].from # log'[j].to
                                           /\ \A k \in applied : k < j}
           before  == {k \in DOMAIN log : <<p, m.id>> \in log[k].modified}
           until   == {j \in DOMAIN log : /\ log[j].from # log[j].to
                                          /\ \A k \in before : k < j}
<1>1. /\ n \in Nat /\ log \in Seq(Entries) /\ DOMAIN log = 1 .. n /\ Now = n + 1
      /\ DOMAIN log' = 1 .. Now
      /\ \A k \in 1 .. n : log'[k] = log[k]
      /\ log'[Now] = entry
    BY DEF IInv, Now
<1>2. m.id \in DOMAIN Modifiers /\ m.remaining \in Nat /\ Modifiers[m.id].turns \in Nat
    BY TenureAssumption DEF ActiveModifiers
<1>3. CASE <<p, m.id>> \in modified
  <2>1. Now \in applied
      BY <1>1, <1>3
  <2>2. passed = {}
    <3>1. \A j \in passed : j \in 1 .. Now /\ Now < j
        BY <1>1, <2>1
    <3> HIDE DEF passed
    <3> QED
        BY <1>1, <3>1
  <2>3. m.remaining = Modifiers[m.id].turns
      BY <1>3 DEF ModifierKept
  <2> HIDE DEF passed, applied
  <2>4. Cardinality(passed) = 0
      BY <2>2, FS_EmptySet
  <2>5. applied # {} /\ m.remaining = Modifiers[m.id].turns - Cardinality(passed)
      BY <1>2, <2>1, <2>3, <2>4
  <2> QED
      BY <2>5 DEF passed, applied
<1>4. CASE <<p, m.id>> \notin modified
  <2> DEFINE old == IF next = turn THEN m ELSE More(m)
  <2>1. old \in state.modifiers[p]
      BY <1>4 DEF ModifierKept
  <2>2. /\ old.id = m.id
        /\ old.remaining = IF next = turn THEN m.remaining ELSE m.remaining + 1
      BY DEF More, ActiveModifiers
  <2>3. before # {} /\ old.remaining = Modifiers[m.id].turns - Cardinality(until)
    <3>1. LET a == {k \in DOMAIN log : <<p, old.id>> \in log[k].modified}
              b == {j \in DOMAIN log : /\ log[j].from # log[j].to
                                       /\ \A k \in a : k < j}
          IN  a # {} /\ old.remaining = Modifiers[old.id].turns - Cardinality(b)
        BY <2>1 DEF ModifierTenure
    <3> QED
        BY <2>2, <3>1
  <2>4. applied = before
      BY <1>1, <1>4
  <2>5. passed = IF next = turn THEN until ELSE until \cup {Now}
    <3>1. \A k \in before : k < Now
        BY <1>1
    <3> HIDE DEF applied, before
    <3>2. \A j \in 1 .. n : j \in passed <=> j \in until
        BY <1>1, <2>4
    <3>3. Now \in passed <=> next # turn
        BY <1>1, <2>4, <3>1
    <3>4. \A j : (j \in passed => j \in 1 .. Now) /\ (j \in until => j \in 1 .. n)
        BY <1>1
    <3>5. \A j \in 1 .. Now : j \in 1 .. n \/ j = Now
        BY <1>1
    <3>6. Now \notin 1 .. n /\ Now \in 1 .. Now /\ 1 .. n \subseteq 1 .. Now
        BY <1>1
    <3> HIDE DEF passed, until, n
    <3>7. next = turn => passed = until
        BY <3>2, <3>3, <3>4, <3>5, <3>6
    <3>8. next # turn => passed = until \cup {Now}
        BY <3>2, <3>3, <3>4, <3>5, <3>6
    <3> QED
        BY <3>7, <3>8
  <2>6. IsFiniteSet(until) /\ Now \notin until
    <3>1. until \subseteq 1 .. n /\ Now \notin 1 .. n
        BY <1>1
    <3>2. IsFiniteSet(1 .. n)
        BY <1>1, FS_Interval
    <3> HIDE DEF until, n
    <3> QED
        BY <3>1, <3>2, FS_Subset
  <2> HIDE DEF until, passed, applied, before, old
  <2>7. /\ Cardinality(until) \in Nat
        /\ Cardinality(until \cup {Now}) = Cardinality(until) + 1
      BY <2>6, FS_AddElement, FS_CardinalityType
  <2>8. applied # {} /\ m.remaining = Modifiers[m.id].turns - Cardinality(passed)
      BY <1>2, <2>2, <2>3, <2>4, <2>5, <2>7
  <2> QED
      BY <2>8 DEF applied, passed
<1> QED
    BY <1>3, <1>4

\* What a transaction may do to the turn of who acts next.
Passes(u, next) ==
    StartsAreHarmless /\ rules.economy = "fixed" /\ InProgress(u.state)
        => next.actor \in Living(u.state)

\* What the triggers of an entry may not do.
OnceStep ==
    \A i \in DOMAIN log' \ DOMAIN log :
        LET fired == log'[i].fired
        IN  \A k \in DOMAIN fired : fired[k][2] = "applied" =>
               /\ \A l \in DOMAIN fired : fired[l] = fired[k] => l = k
               /\ \A e \in state'.sources :
                     /\ e.definition = fired[k][1].definition
                     /\ e.source = fired[k][1].source
                     => e.application_revision < i

\* An accepted transaction keeps the invariant.
LEMMA AcceptKeeps ==
    ASSUME IInv, NEW action \in DOMAIN Procedures \cup {EndTurn},
           NEW u, NEW next \in Turns, Balanced(u, next), u.state.revision = Now,
           Passes(u, next), Accept(action, u, next)
    PROVE  IInv' /\ OnceStep
<1> DEFINE entry == Entry(action, next, u)
<1>1. /\ state' = u.state /\ turn' = next /\ log' = Append(log, entry) /\ rules' = rules
    BY DEF Accept
<1>2. /\ u \in Transactions /\ u.state \in States
      /\ u.modified \in SUBSET (Participants \X DOMAIN Modifiers)
      /\ u.fired \in Seq(Firings)
    BY DEF Balanced, Transactions
<1>3. /\ entry \in Entries
      /\ entry.from = turn /\ entry.to = next
      /\ entry.modified = u.modified /\ entry.fired = u.fired
  <2>1. turn \in Turns /\ turn.actor \in Participants
      BY DEF IInv, TypeOK, Turns
  <2> QED
      BY <1>2, <2>1 DEF Entry, Entries
<1> HIDE DEF entry
<1>4. /\ log \in Seq(Entries) /\ Len(log) \in Nat /\ Now = Len(log) + 1
      /\ DOMAIN log = 1 .. Len(log)
      /\ log' \in Seq(Entries) /\ Len(log') = Now /\ DOMAIN log' = 1 .. Now
      /\ \A k \in 1 .. Len(log) : log'[k] = log[k]
      /\ log'[Now] = entry
    BY <1>1, <1>3 DEF IInv, Now
<1>5. TypeOK'
    BY <1>1, <1>2, <1>4 DEF IInv, TypeOK
<1>6. ASSUME NEW k \in 1 .. Now, NEW anchor, NEW source, NEW target
      PROVE  Passed(k, anchor, source, target, turn)' = Passed(k, anchor, source, target, next)
  <2> DEFINE counts(j) == /\ log'[j].from # log'[j].to
                          /\ Crosses(anchor, source, target, log'[j].from, log'[j].to)
             new == {j \in k + 1 .. Now : counts(j)}
             old == {j \in k + 1 .. Len(log) : /\ log[j].from # log[j].to
                                               /\ Crosses(anchor, source, target,
                                                          log[j].from, log[j].to)}
             last == {j \in {Now} : /\ k < Now /\ turn # next
                                    /\ Crosses(anchor, source, target, turn, next)}
  <2>1. Passed(k, anchor, source, target, turn)' = new
      BY <1>4 DEF Passed, CrossedSince
  <2>2. Passed(k, anchor, source, target, next) = old \cup last
      BY DEF Passed, CrossedSince
  <2>3. \A j \in 1 .. Len(log) : j \in new <=> j \in old
      BY <1>4
  <2>4. Now \in new <=> Now \in last
      BY <1>3, <1>4
  <2>5. /\ new \subseteq 1 .. Now /\ old \subseteq 1 .. Len(log) /\ last \subseteq {Now}
      BY <1>4
  <2>6. \A j \in 1 .. Now : j \in 1 .. Len(log) \/ j = Now
      BY <1>4
  <2>7. Now \notin 1 .. Len(log) /\ \A j \in 1 .. Len(log) : j # Now
      BY <1>4
  <2> HIDE DEF new, old, last
  <2>8. new = old \cup last
      BY <2>3, <2>4, <2>5, <2>6, <2>7
  <2> QED
      BY <2>1, <2>2, <2>8
<1>7. ASSUME NEW definitions, NEW e, NEW target, Timed(definitions, e, target, next)
      PROVE  Timed(definitions, e, target, turn)'
  <2>1. e.application_revision \in 1 .. Now
      BY <1>7 DEF Timed
  <2>2. e.application_revision \in 1 .. Now'
      BY <1>4, <2>1 DEF Now
  <2>3. Passed(e.application_revision, definitions[e.definition].anchor, e.source, target, turn)'
           = Passed(e.application_revision, definitions[e.definition].anchor, e.source,
                    target, next)
      BY <1>6, <2>1
  <2> QED
      BY <1>7, <2>2, <2>3 DEF Timed
<1>8. SourcesKept(state.sources, turn)'
  <2>1. SourcesKept(u.state.sources, next)
      BY DEF Balanced
  <2>2. ASSUME NEW e \in ActiveSources, SourceKept(e, next)
        PROVE  SourceKept(e, turn)'
    <3>1. Timed(SourceDefinitions, e, e.source, turn)'
        BY <1>7, <2>2 DEF SourceKept
    <3>2. e.trigger_revision <= Now'
      <4>1. e.trigger_revision \in Nat /\ e.trigger_revision <= Now
          BY <2>2 DEF SourceKept, ActiveSources
      <4>2. Now' = Now + 1 /\ Now \in Nat
          BY <1>4 DEF Now
      <4> QED
          BY <4>1, <4>2
    <3> QED
        BY <1>1, <2>2, <3>1, <3>2 DEF SourceKept
  <2> QED
      BY <1>1, <2>1, <2>2 DEF SourcesKept
<1>9. \A p \in Participants : EffectsKept(state.effects[p], p, turn)'
  <2>1. ASSUME NEW p \in Participants
        PROVE  EffectsKept(state.effects[p], p, turn)'
    <3>1. EffectsKept(u.state.effects[p], p, next)
        BY DEF Balanced
    <3>2. \A e \in u.state.effects[p] : EffectKept(e, p, next) => EffectKept(e, p, turn)'
        BY <1>7 DEF EffectKept
    <3> QED
        BY <1>1, <3>1, <3>2 DEF EffectsKept
  <2> QED
      BY <2>1
<1>10. Past'
  <2>1. \A e \in u.state.sources : e.application_revision <= Now /\ e.trigger_revision <= Now
      BY <1>4 DEF Balanced, SourcesKept, SourceKept, Timed
  <2>2. EffectsAreTimely =>
           \A p \in Participants : \A e \in u.state.effects[p] : e.application_revision <= Now
      BY <1>4 DEF Balanced, EffectsKept, EffectKept, Timed
  <2> QED
      BY <1>1, <1>4, <2>1, <2>2 DEF Past
<1>11. OneOfEachGroup'
    BY <1>1 DEF Balanced, ModifiersKept, OneOfEachGroup
<1>12. ASSUME ModifiersAreTimely
       PROVE  ModifierTenure'
  <2>1. ModifierTenure
      BY <1>12 DEF IInv
  <2>2. ASSUME NEW p \in Participants, NEW m \in u.state.modifiers[p]
        PROVE  LET applied == {k \in DOMAIN log' : <<p, m.id>> \in log'[k].modified}
                   passed  == {j \in DOMAIN log' : /\ log'[j].from # log'[j].to
                                                   /\ \A k \in applied : k < j}
               IN  /\ applied # {}
                   /\ m.remaining = Modifiers[m.id].turns - Cardinality(passed)
    <3>1. m \in ActiveModifiers /\ ModifierKept(m, p, u.modified, next)
        BY <1>12, <2>2 DEF Balanced, ModifiersKept
    <3> QED
        BY <1>1, <1>3, <2>1, <3>1, ModifierCounts
  <2> QED
      BY <1>1, <2>2 DEF ModifierTenure
<1>13. StartsAreHarmless /\ rules'.economy = "fixed" => TurnRestores(state)'
    BY <1>1 DEF Passes, TurnRestores, InProgress, Living
<1>14. IInv'
    BY <1>4, <1>5, <1>8, <1>9, <1>10, <1>11, <1>12, <1>13 DEF IInv
<1>15. OnceStep
  <2>1. FiredOnce(u)
      BY DEF Balanced
  <2>2. \A i \in DOMAIN log' \ DOMAIN log : i = Now
      BY <1>4
  <2>3. log'[Now].fired = u.fired
      BY <1>3, <1>4
  <2> QED
      BY <1>1, <2>1, <2>2, <2>3 DEF FiredOnce, Marked, Suits, OnceStep
<1> QED
    BY <1>14, <1>15

\* The invariant holds at the start.
LEMMA InitHolds == Init => IInv
<1> SUFFICES ASSUME Init
             PROVE  IInv
    OBVIOUS
<1> DEFINE none == {}
           E    == [p \in Participants |-> none]
<1>1. /\ rules \in Rulesets /\ log = <<>>
      /\ state = [revision |-> 0, vitality |-> Vitality0, position |-> Position0,
                  resource |-> Resource0, effects |-> E, modifiers |-> E, sources |-> none]
    BY DEF Init
<1>2. PICK p \in Participants : /\ Vitality0[p] > 0
                                /\ turn = [round |-> 1, turn |-> 1, actor |-> p]
    BY DEF Init
<1>3. /\ none \in SUBSET ActiveSources
      /\ E \in [Participants -> SUBSET ActiveEffects]
      /\ E \in [Participants -> SUBSET ActiveModifiers]
      /\ \A q \in Participants : E[q] = none
      /\ \A x : x \notin none
    OBVIOUS
<1>4. IsFiniteSet(none) /\ Cardinality(none) <= MaximumActive
    BY FS_EmptySet, TenureAssumption
<1> HIDE DEF none, E
<1>5. /\ state \in States /\ state.vitality = Vitality0 /\ state.revision = 0
      /\ state.effects = E /\ state.modifiers = E /\ state.sources = none
    BY <1>1, <1>3, LedgerAssumption DEF States
<1>6. turn \in Turns /\ turn.actor = p
    BY <1>2 DEF Turns
<1>7. Len(log) = 0 /\ log \in Seq(Entries)
    BY <1>1
<1>8. TypeOK
    BY <1>1, <1>5, <1>6, <1>7 DEF TypeOK
<1>9. /\ StacksHold(SourceDefinitions, none) /\ StacksHold(EffectDefinitions, none)
    BY <1>3, <1>4 DEF StacksHold
<1>10. SourcesKept(state.sources, turn)
    BY <1>3, <1>5, <1>9 DEF SourcesKept
<1>11. \A q \in Participants : EffectsKept(state.effects[q], q, turn)
  <2>1. none \in SUBSET ActiveEffects
      BY <1>3
  <2> QED
      BY <1>3, <1>5, <1>9, <2>1 DEF EffectsKept
<1>12. Past /\ OneOfEachGroup /\ ModifierTenure
    BY <1>3, <1>5 DEF Past, OneOfEachGroup, ModifierTenure
<1>13. TurnRestores(state)
    BY <1>2, <1>5, <1>6 DEF TurnRestores, Living
<1> QED
    BY <1>7, <1>8, <1>10, <1>11, <1>12, <1>13 DEF IInv

\* An action keeps the invariant.
LEMMA ActKeeps ==
    ASSUME IInv, NEW action \in rules.actions, NEW target \in Participants,
           NEW cell \in {0} \cup Cells, Act(action, target, cell)
    PROVE  IInv' /\ OnceStep
<1>1. /\ Len(log) \in Nat /\ state.revision = Len(log) /\ state.revision + 1 = Now
      /\ turn \in Turns /\ rules \in Rulesets
      /\ rules.economy \in {"fixed", "variable"}
      /\ action \in DOMAIN Procedures \cup {EndTurn}
    BY LedgerAssumption DEF IInv, TypeOK, States, Now
<1>2. Steps(Procedures[action]) => cell \in Cells
    BY DEF Act, Reachable
<1> DEFINE t == Acted(action, target, cell)
           next == NextTurn(turn, t.state)
           u == PassTurn(t, state, next, Now)
<1>3. Balanced(Staged(state), turn)
    BY StagedBalances
<1>4. t.ok => Balanced(t, turn) /\ t.state.revision = Now
    BY <1>1, <1>2, <1>3, ActedBalances
<1>5. IF t.ok /\ rules.economy = "fixed" /\ InProgress(t.state)
      THEN Accept(action, u, next)
      ELSE Accept(action, t, turn)
    BY <1>1 DEF Act
<1> HIDE DEF t
<1>6. CASE t.ok /\ rules.economy = "fixed" /\ InProgress(t.state)
  <2>1. /\ next \in Turns /\ next # turn /\ next.actor \in Living(t.state)
        /\ next.actor # turn.actor
      BY <1>1, <1>6, NextIsAnother
  <2> HIDE DEF next
  <2>2. EffectsAreTimely => \A b \in {"startTurn", "endTurn"} : NeverDoes(rules, b, "effect")
      BY <1>1, <1>6 DEF EffectsAreTimely
  <2>3. /\ u.ok => Balanced(u, next)
        /\ u.state.revision = t.state.revision
        /\ next.actor # turn.actor /\ NeverDoes(rules, "startTurn", "damage")
              => u.state.vitality[next.actor] = t.state.vitality[next.actor]
      BY <1>1, <1>4, <1>6, <2>1, <2>2, PassTurnBalances
  <2> HIDE DEF u
  <2>4. Accept(action, u, next) /\ u.ok
      BY <1>5, <1>6 DEF Accept
  <2>5. Passes(u, next)
    <3>1. StartsAreHarmless => NeverDoes(rules, "startTurn", "damage")
        BY <1>1, <1>6 DEF StartsAreHarmless
    <3> QED
        BY <2>1, <2>3, <3>1 DEF Passes, Living
  <2> QED
      BY <1>1, <1>4, <1>6, <2>1, <2>3, <2>4, <2>5, AcceptKeeps
<1>7. CASE ~(t.ok /\ rules.economy = "fixed" /\ InProgress(t.state))
  <2>1. Accept(action, t, turn) /\ t.ok
      BY <1>5, <1>7 DEF Accept
  <2>2. Passes(t, turn)
      BY <1>7, <2>1 DEF Passes
  <2> QED
      BY <1>1, <1>4, <2>1, <2>2, AcceptKeeps
<1> QED
    BY <1>6, <1>7

\* The end of a turn keeps the invariant.
LEMMA ControlKeeps ==
    ASSUME IInv, ControlEndTurn
    PROVE  IInv' /\ OnceStep
<1>1. /\ Len(log) \in Nat /\ state.revision = Len(log) /\ state.revision + 1 = Now
      /\ turn \in Turns /\ rules \in Rulesets /\ state \in States
    BY DEF IInv, TypeOK, States, Now
<1> DEFINE next == NextTurn(turn, state)
           t == Staged(state)
           u == PassTurn(t, state, next, Now)
           v == [u.state EXCEPT !.revision = @ + 1]
           w == [u EXCEPT !.state = v]
<1>2. Accept(EndTurn, w, next) /\ InProgress(state)
    BY <1>1 DEF ControlEndTurn, ActorMayAct
<1>3. Balanced(t, turn) /\ t.state = state
    BY StagedBalances DEF Staged
<1> HIDE DEF t
<1>4. /\ next \in Turns /\ next # turn /\ next.actor \in Living(state)
      /\ next.actor # turn.actor
    BY <1>1, <1>2, NextIsAnother
<1> HIDE DEF next
<1>5. /\ u.ok => Balanced(u, next)
      /\ u.state.revision = state.revision
      /\ u \in Transactions
      /\ next.actor # turn.actor /\ NeverDoes(rules, "startTurn", "damage")
            => u.state.vitality[next.actor] = state.vitality[next.actor]
    BY <1>1, <1>3, <1>4, PassTurnBalances
<1> HIDE DEF u
<1>6. u.state \in States
    BY <1>5 DEF Transactions
<1>7. /\ v \in States /\ v.revision = Now
      /\ v.effects = u.state.effects /\ v.sources = u.state.sources
      /\ v.modifiers = u.state.modifiers /\ v.vitality = u.state.vitality
  <2>1. u.state.revision + 1 = Now /\ Now \in Nat
      BY <1>1, <1>5 DEF Now
  <2>2. v = [u.state EXCEPT !.revision = Now]
      BY <2>1
  <2> HIDE DEF v
  <2> QED
      BY <1>6, <2>1, <2>2 DEF States
<1> HIDE DEF v
<1>8. /\ w \in Transactions /\ w.state = v /\ w.ok = u.ok
      /\ w.modified = u.modified /\ w.fired = u.fired
    BY <1>5, <1>7, OtherState
<1> HIDE DEF w
<1>9. u.ok
    BY <1>2, <1>8 DEF Accept
<1>10. Balanced(w, next)
    BY <1>5, <1>7, <1>8, <1>9 DEF Balanced, FiredOnce
<1>11. Passes(w, next)
  <2>1. StartsAreHarmless /\ rules.economy = "fixed" => NeverDoes(rules, "startTurn", "damage")
      BY <1>1 DEF StartsAreHarmless
  <2> QED
      BY <1>4, <1>5, <1>7, <1>8, <2>1 DEF Passes, Living
<1> QED
    BY <1>2, <1>4, <1>7, <1>8, <1>10, <1>11, AcceptKeeps

\* Every step keeps the invariant.
LEMMA StepKeeps == IInv /\ [Next]_vars => IInv' /\ [OnceStep]_vars
<1> SUFFICES ASSUME IInv, [Next]_vars
             PROVE  IInv' /\ [OnceStep]_vars
    OBVIOUS
<1>1. ASSUME NEW action \in rules.actions, NEW target \in Participants,
             NEW cell \in {0} \cup Cells, Act(action, target, cell)
      PROVE  IInv' /\ OnceStep
    BY <1>1, ActKeeps
<1>2. CASE ControlEndTurn
    BY <1>2, ControlKeeps
<1>3. CASE UNCHANGED vars
  <2>1. rules' = rules /\ state' = state /\ turn' = turn /\ log' = log
      BY <1>3 DEF vars
  <2>2. TypeOK' /\ (log \in Seq(Entries))'
      BY <2>1 DEF IInv, TypeOK
  <2>3. SourcesKept(state.sources, turn)'
      BY <2>1 DEF IInv, SourcesKept, SourceKept, Timed, Now, Passed, CrossedSince
  <2>4. \A p \in Participants : EffectsKept(state.effects[p], p, turn)'
      BY <2>1 DEF IInv, EffectsKept, EffectKept, Timed, Now, Passed, CrossedSince
  <2>5. Past' /\ OneOfEachGroup'
      BY <2>1 DEF IInv, Past, OneOfEachGroup
  <2>6. ModifiersAreTimely => ModifierTenure'
      BY <2>1 DEF IInv, ModifierTenure
  <2>7. StartsAreHarmless /\ rules'.economy = "fixed" => TurnRestores(state)'
      BY <2>1 DEF IInv, TurnRestores, InProgress, Living
  <2>8. IInv'
      BY <2>2, <2>3, <2>4, <2>5, <2>6, <2>7 DEF IInv
  <2> QED
      BY <1>3, <2>8
<1> QED
    BY <1>1, <1>2, <1>3 DEF Next

-------------------------------------------------------------------------------
(* The end of a turn. *)

\* The order names everyone, so they are finitely many.
LEMMA ParticipantsFinite == IsFiniteSet(Participants)
<1> DEFINE n == Len(Initiative)
           T == {Initiative[i] : i \in 1 .. n}
<1>1. n \in Nat /\ DOMAIN Initiative = 1 .. n
    BY InitiativeAssumption
<1>2. Participants \subseteq T
    BY <1>1, InitiativeAssumption
<1>3. IsFiniteSet(1 .. n)
    BY <1>1, FS_Interval
<1>4. IsFiniteSet(T)
    BY <1>3, ImageFinite
<1> HIDE DEF T
<1> QED
    BY <1>2, <1>4, FS_Subset

\* Where effects fit, no application lacks room.
LEMMA EffectsHaveRoom ==
    ASSUME EffectsFit, NEW E, E \in SUBSET ActiveEffects, StacksHold(EffectDefinitions, E),
           NEW d \in DOMAIN EffectDefinitions, NEW source \in Participants
    PROVE  HasRoom(EffectDefinitions, E, d, source)
<1> DEFINE D == Displaced(EffectDefinitions, E, d, source)
           S == DOMAIN EffectDefinitions
           Q == S \X Participants
           x == <<d, source>>
           f == [e \in E |-> <<e.definition, e.source>>]
<1>1. SUFFICES ASSUME D = {}
               PROVE  Cardinality(E) < MaximumActive
    BY DEF HasRoom
<1>2. /\ IsFiniteSet(Q) /\ x \in Q
      /\ Cardinality(Q) <= MaximumActive
  <2>1. IsFiniteSet(S) /\ Cardinality(S) * Cardinality(Participants) <= MaximumActive
      BY DEF EffectsFit
  <2>2. IsFiniteSet(Q) /\ Cardinality(Q) = Cardinality(S) * Cardinality(Participants)
      BY <2>1, ParticipantsFinite, FS_Product
  <2> QED
      BY <2>1, <2>2
<1>3. ASSUME NEW e \in E
      PROVE  f[e] \in Q \ {x}
  <2>1. e.definition \in S /\ e.source \in Participants
      BY DEF ActiveEffects
  <2>2. ~(e.definition = d /\ e.source = source)
      BY <1>1 DEF Displaced
  <2>3. <<e.definition, e.source>> # x
      BY <2>2
  <2> QED
      BY <2>1, <2>3
<1>4. ASSUME NEW e \in E, NEW g \in E, f[e] = f[g]
      PROVE  e = g
  <2>1. e.definition = g.definition /\ e.source = g.source
      BY <1>4
  <2>2. SameStack(EffectDefinitions, e, g)
      BY <2>1 DEF SameStack
  <2> QED
      BY <2>2 DEF StacksHold
<1>5. f \in Injection(E, Q \ {x})
  <2>1. f \in [E -> Q \ {x}]
      BY <1>3
  <2> HIDE DEF f
  <2> QED
      BY <1>4, <2>1 DEF Injection, IsInjective
<1> HIDE DEF f, Q, x, D
<1>6. /\ IsFiniteSet(Q \ {x})
      /\ Cardinality(Q \ {x}) = Cardinality(Q) - 1
    BY <1>2, FS_RemoveElement
<1>7. Cardinality(E) <= Cardinality(Q \ {x}) /\ IsFiniteSet(E)
    BY <1>5, <1>6, FS_Injection
<1>8. Cardinality(Q) \in Nat /\ Cardinality(E) \in Nat /\ MaximumActive \in Nat
    BY <1>2, <1>7, FS_CardinalityType, TenureAssumption
<1> QED
    BY <1>2, <1>6, <1>7, <1>8

\* An operation that takes nothing, and has room for what it applies, succeeds.
LEMMA OperateWorks ==
    ASSUME NEW t \in Transactions, t.ok, NEW op, op.kind \in Kinds,
           op.kind \notin {"drain", "step", "source"},
           NEW actor, NEW target, NEW cell,
           op.kind = "effect" =>
              HasRoom(EffectDefinitions, t.state.effects[target], op.definition, actor)
    PROVE  Operate(t, op, actor, target, cell).ok
<1>1. \A x : [t EXCEPT !.state = x].ok = t.ok
    BY DEF Transactions
<1>2. CASE op.kind = "damage"
    BY <1>1, <1>2 DEF Operate, Transactions
<1>3. CASE op.kind = "effect"
    BY <1>1, <1>3 DEF Operate, Transactions
<1>4. CASE op.kind = "removeEffect"
    BY <1>1, <1>4 DEF Operate, Transactions
<1>5. CASE op.kind = "modifier"
    BY <1>1, <1>5 DEF Operate, Transactions
<1> QED
    BY <1>2, <1>3, <1>4, <1>5 DEF Kinds

\* The triggers at the two ends of a turn.
Ends == {"startTurn", "endTurn"}

\* The program of such a trigger succeeds, and leaves the sources as they are.
LEMMA EndProgramWorks ==
    ASSUME Len(log) \in Nat, NEW t, NEW next, Balanced(t, next), t.ok,
           t.state.revision = Len(log), EndsCannotFail(rules),
           NEW c \in TriggerCandidates, c.definition \in CreatedBy(rules),
           NEW b \in Ends, b \in DOMAIN SourceDefinitions[c.definition].triggers,
           NEW owner \in Participants
    PROVE  LET body == SourceDefinitions[c.definition].triggers[b].program
               r    == RunProgram(t, body, owner, c.participant, 0)
           IN  r.ok /\ r.state.sources = t.state.sources
<1> DEFINE body == SourceDefinitions[c.definition].triggers[b].program
           V    == {x \in Transactions :
                      /\ Balanced(x, next)
                      /\ x.ok
                      /\ x.state.revision = Len(log)
                      /\ x.state.sources = t.state.sources}
<1>1. t \in V
    BY DEF Balanced
<1>2. c.definition \in DOMAIN SourceDefinitions
    BY DEF CreatedBy
<1>3. /\ body \in Seq(Operations)
      /\ \A k \in DOMAIN body : body[k].kind \notin {"step", "source"}
    BY <1>2, LedgerAssumption
<1>4. /\ \A k \in DOMAIN body : body[k].kind # "drain"
      /\ EffectsFit \/ \A k \in DOMAIN body : body[k].kind # "effect"
    BY DEF EndsCannotFail, NeverDoes, Ends
<1>5. c.participant \in Participants
    BY DEF TriggerCandidates
<1>6. \A x \in V : /\ Balanced(x, next) /\ x.ok /\ x \in Transactions
                   /\ x.state.revision = Len(log)
                   /\ x.state.sources = t.state.sources
    OBVIOUS
<1>7. \A x \in Transactions :
         /\ Balanced(x, next) /\ x.ok
         /\ x.state.revision = Len(log)
         /\ x.state.sources = t.state.sources
         => x \in V
    OBVIOUS
<1> HIDE DEF body, V
<1>8. ASSUME NEW k \in 1 .. Len(body), NEW x \in V
      PROVE  Operate(x, body[k], owner, c.participant, 0) \in V
  <2> DEFINE op == body[k]
             r  == Operate(x, op, owner, c.participant, 0)
  <2>1. /\ op \in Operations /\ op.kind \notin {"drain", "step", "source"}
        /\ EffectsFit \/ op.kind # "effect"
      BY <1>3, <1>4
  <2> HIDE DEF op
  <2>2. /\ op.kind \in Kinds
        /\ op.kind = "effect" => op.definition \in DOMAIN EffectDefinitions
      BY <2>1 DEF Operations
  <2>3. /\ Balanced(x, next) /\ x.ok /\ x \in Transactions /\ x.state.revision = Len(log)
        /\ x.state.sources = t.state.sources
      BY <1>6
  <2>4. op.kind = "effect" =>
           HasRoom(EffectDefinitions, x.state.effects[c.participant], op.definition, owner)
    <3>1. EffectsKept(x.state.effects[c.participant], c.participant, next)
        BY <1>5, <2>3 DEF Balanced
    <3> QED
        BY <2>1, <2>2, <3>1, EffectsHaveRoom DEF EffectsKept
  <2>5. r.ok
      BY <2>1, <2>2, <2>3, <2>4, OperateWorks
  <2>6. Balanced(r, next) /\ Operated(x, r, op, owner, c.participant)
      BY <1>5, <2>1, <2>3, OperateBalances
  <2> HIDE DEF r
  <2>7. r \in Transactions /\ r.state.sources = t.state.sources /\ r.state.revision = Len(log)
      BY <2>1, <2>3, <2>6 DEF Balanced, Operated, SourcesChange
  <2>8. r \in V
      BY <1>7, <2>5, <2>6, <2>7
  <2> QED
      BY <2>8 DEF r, op
<1> DEFINE r == RunProgram(t, body, owner, c.participant, 0)
<1>9. r \in V
  <2>1. \A k \in 1 .. Len(body) : \A x \in V :
           x.ok => Operate(x, body[k], owner, c.participant, 0) \in V
      BY <1>8
  <2> QED
      BY <1>1, <1>3, <2>1, ProgramStays
<1> HIDE DEF r
<1>10. r.ok /\ r.state.sources = t.state.sources
    BY <1>6, <1>9
<1> QED
    BY <1>10 DEF r, body

\* A transaction that has not failed and whose sources have recorded in it
\* none but some keys.
Quiet(t, K) ==
    /\ t.ok
    /\ t.state.revision = Len(log)
    /\ \A e \in t.state.sources : e.trigger_revision = Now => e.trigger_keys \subseteq K

\* Two keys, one for each end.
FewKeys(K) == IsFiniteSet(K) /\ Cardinality(K) <= 2

\* A source that has recorded no more than that has room for a key it has not.
LEMMA RoomForKey ==
    ASSUME NEW K, FewKeys(K), NEW R \in SUBSET K, NEW key \in K, key \notin R, MaximumKeys > 1
    PROVE  ~(Cardinality(R) >= MaximumKeys)
<1>1. IsFiniteSet(K \ {key}) /\ Cardinality(K \ {key}) = Cardinality(K) - 1
    BY FS_RemoveElement DEF FewKeys
<1>2. R \subseteq K \ {key}
    OBVIOUS
<1>3. Cardinality(R) <= Cardinality(K \ {key}) /\ IsFiniteSet(R)
    BY <1>1, <1>2, FS_Subset
<1>4. Cardinality(R) \in Nat /\ Cardinality(K) \in Nat /\ MaximumKeys \in Nat
    BY <1>3, FS_CardinalityType, TenureAssumption DEF FewKeys
<1> QED
    BY <1>1, <1>3, <1>4 DEF FewKeys

\* One candidate keeps a transaction quiet.
LEMMA DispatchQuiet ==
    ASSUME Len(log) \in Nat, NEW t, NEW next, Balanced(t, next), EndsCannotFail(rules),
           NEW K, FewKeys(K), Quiet(t, K),
           NEW c \in TriggerCandidates, KeyOf(c) \in K, NEW b \in Ends, Answered(t, c, {b})
    PROVE  Quiet(Dispatch(t, c, Now), K)
<1> DEFINE e       == CHOOSE f \in t.state.sources : f.definition = c.definition
                                                     /\ f.source = c.source
           body    == SourceDefinitions[c.definition].triggers[Boundaries[c.boundary]]
           key     == [boundary |-> c.boundary, cell |-> c.cell, participant |-> c.participant]
           stored  == [t EXCEPT !.state.sources = (@ \ {e}) \cup {Recorded(e, key, Now)}]
           u       == RunProgram(stored, body.program, e.owner, c.participant, 0)
           noted(x, how) == [x EXCEPT !.fired = Append(@, <<c, how>>)]
           r       == Dispatch(t, c, Now)
<1>1. e \in t.state.sources /\ Suits(e, c)
    BY DEF Answered, HasSource, Suits
<1>2. key = KeyOf(c) /\ Boundaries[c.boundary] = b
    BY DEF KeyOf, Answered
<1>3. b \in DOMAIN SourceDefinitions[c.definition].triggers
    BY <1>2 DEF Answered
<1>4. /\ ~Records(e, key, Now) => r = noted(t, "suppressed")
      /\ /\ Records(e, key, Now)
         /\ ~(e.trigger_revision = Now /\ Cardinality(e.trigger_keys) >= MaximumKeys)
         => r = noted(u, "applied") \/ r = noted(stored, "inapplicable")
    BY DEF Dispatch
<1> HIDE DEF e, key, r
<1>5. e \in ActiveSources /\ e.owner \in Participants /\ SourceKept(e, next)
    BY <1>1 DEF Balanced, SourcesKept, ActiveSources
<1>6. c.definition \in CreatedBy(rules)
    BY <1>1, <1>5 DEF SourceKept, Suits
<1>7. t \in Transactions /\ t.state \in States
    BY DEF Balanced, Transactions
<1>8. ASSUME NEW x \in Transactions, NEW how, Quiet(x, K)
      PROVE  Quiet([x EXCEPT !.fired = Append(@, <<c, how>>)], K)
  <2> DEFINE y == [x EXCEPT !.fired = Append(@, <<c, how>>)]
  <2>1. y.ok = x.ok /\ y.state = x.state
      BY DEF Transactions
  <2> HIDE DEF y
  <2>2. Quiet(y, K)
      BY <1>8, <2>1 DEF Quiet
  <2> QED
      BY <2>2 DEF y
<1>9. CASE ~Records(e, key, Now)
    BY <1>4, <1>7, <1>8, <1>9 DEF r
<1>10. CASE Records(e, key, Now)
  <2> DEFINE w == [t EXCEPT !.state.sources = (@ \ {e}) \cup {Recorded(e, KeyOf(c), Now)}]
  <2>1. ~(e.trigger_revision = Now /\ Cardinality(e.trigger_keys) >= MaximumKeys)
    <3>1. SUFFICES ASSUME e.trigger_revision = Now
                   PROVE  ~(Cardinality(e.trigger_keys) >= MaximumKeys)
        OBVIOUS
    <3>2. e.trigger_keys \subseteq K /\ key \notin e.trigger_keys
        BY <1>1, <1>10, <3>1 DEF Quiet, Records
    <3> QED
        BY <1>2, <3>2, RoomForKey DEF EndsCannotFail
  <2>2. w = stored /\ Records(e, KeyOf(c), Now)
      BY <1>2, <1>10
  <2>3. Balanced(w, next) /\ w.state.revision = t.state.revision
      BY <1>1, <2>1, <2>2, StoreBalances
  <2>4. w.ok = t.ok
      BY <1>7 DEF Transactions
  <2>5. w.state.sources = (t.state.sources \ {e}) \cup {Recorded(e, KeyOf(c), Now)}
      BY <1>7 DEF Transactions, States
  <2>6. Recorded(e, KeyOf(c), Now).trigger_keys \subseteq K
      BY <1>1, <1>5 DEF Recorded, ActiveSources, Quiet
  <2>7. Quiet(w, K)
      BY <2>3, <2>4, <2>5, <2>6 DEF Quiet
  <2> HIDE DEF w, stored
  <2>8. Quiet(stored, K) /\ Balanced(stored, next)
      BY <2>2, <2>3, <2>7
  <2>9. CASE r = noted(stored, "inapplicable")
    <3>1. stored \in Transactions
        BY <2>8 DEF Balanced
    <3>2. Quiet([stored EXCEPT !.fired = Append(@, <<c, "inapplicable">>)], K)
        BY <1>8, <2>8, <3>1
    <3> QED
        BY <2>9, <3>2 DEF r
  <2>10. CASE r = noted(u, "applied")
    <3>1. u.ok /\ u.state.sources = stored.state.sources
      <4>1. stored.ok /\ stored.state.revision = Len(log)
          BY <2>8 DEF Quiet
      <4> QED
          BY <1>2, <1>3, <1>5, <1>6, <2>8, <4>1, EndProgramWorks
    <3>2. Marked(stored.state.sources, c)
        BY <1>1, <2>1, <2>2, StoreBalances DEF w
    <3>3. Balanced(u, next) /\ u.state.revision = stored.state.revision
      <4>1. stored.state.revision = Len(log)
          BY <2>8 DEF Quiet
      <4> QED
          BY <1>2, <1>3, <1>5, <1>6, <2>8, <3>2, <4>1, TriggerProgramBalances DEF Triggered
    <3> HIDE DEF u
    <3>4. Quiet(u, K) /\ u \in Transactions
        BY <2>8, <3>1, <3>3 DEF Quiet, Balanced
    <3>5. Quiet([u EXCEPT !.fired = Append(@, <<c, "applied">>)], K)
        BY <1>8, <3>4
    <3> QED
        BY <2>10, <3>5 DEF r
  <2> QED
      BY <1>4, <1>10, <2>1, <2>9, <2>10
<1> QED
    BY <1>9, <1>10

\* All candidates of one end keep it quiet.
LEMMA TriggersQuiet ==
    ASSUME Len(log) \in Nat, NEW t, NEW next, Balanced(t, next), EndsCannotFail(rules),
           NEW K, FewKeys(K), Quiet(t, K), NEW b \in Ends,
           NEW C \in SUBSET TriggerCandidates, IsFiniteSet(C),
           \A c \in C : Answered(t, c, {b}) /\ KeyOf(c) \in K
    PROVE  LET r == RunTriggers(t, C, Now)
           IN  Balanced(r, next) /\ Quiet(r, K) /\ Triggered(t, r, {b}, Participants)
<1> DEFINE B == {b}
           U == {x \in Transactions :
                   Balanced(x, next) /\ Triggered(t, x, B, Participants) /\ Quiet(x, K)}
           V == [done : U, left : SUBSET C]
<1>1. t \in U
    BY DEF Balanced, Triggered
<1>2. [done |-> t, left |-> C] \in V
    BY <1>1
<1>3. \A x \in U : Balanced(x, next) /\ Triggered(t, x, B, Participants) /\ Quiet(x, K)
    OBVIOUS
<1>4. \A x : Balanced(x, next) /\ Triggered(t, x, B, Participants) /\ Quiet(x, K) => x \in U
    BY DEF Balanced
<1> HIDE DEF U
<1>5. ASSUME NEW v \in V
      PROVE  DispatchFirst(v, Now) \in V
  <2> DEFINE c == CHOOSE x \in v.left : \A d \in v.left \ {x} : Precedes(x, d)
             r == Dispatch(v.done, c, Now)
  <2>1. v.done \in U /\ v.left \in SUBSET C
      OBVIOUS
  <2>2. CASE v.left = {} \/ ~v.done.ok
      BY <2>2 DEF DispatchFirst
  <2>3. CASE ~(v.left = {} \/ ~v.done.ok)
    <3>1. DispatchFirst(v, Now) = [done |-> r, left |-> v.left \ {c}]
        BY <2>3 DEF DispatchFirst
    <3>2. v.left \in SUBSET TriggerCandidates /\ v.left # {}
        BY <2>1, <2>3
    <3>3. c \in v.left
        BY <3>2, FirstExists
    <3> HIDE DEF c
    <3>4. c \in C /\ c \in TriggerCandidates /\ c.participant \in Participants /\ KeyOf(c) \in K
        BY <2>1, <3>3 DEF TriggerCandidates
    <3>5. /\ Balanced(v.done, next) /\ Triggered(t, v.done, B, Participants)
          /\ Quiet(v.done, K)
        BY <1>3, <2>1
    <3>6. Answered(v.done, c, B)
        BY <3>4, <3>5 DEF Answered, Triggered
    <3>7. v.done.state.revision = Len(log)
        BY <3>5 DEF Quiet
    <3>8. Balanced(r, next) /\ Triggered(v.done, r, B, {c.participant})
        BY <3>4, <3>5, <3>6, <3>7, DispatchBalances
    <3>9. Quiet(r, K)
        BY <3>4, <3>5, <3>6, DispatchQuiet
    <3> HIDE DEF r
    <3>10. Triggered(t, r, B, Participants)
        BY <3>4, <3>5, <3>8 DEF Triggered
    <3>11. r \in U
        BY <1>4, <3>8, <3>9, <3>10
    <3> QED
        BY <2>1, <3>1, <3>11
  <2> QED
      BY <2>2, <2>3
<1>6. \A v \in V : v.done \in U
    OBVIOUS
<1> HIDE DEF V
<1>7. \E v \in V : RunTriggers(t, C, Now) = v.done
    BY <1>2, <1>5, TriggersStay
<1> DEFINE r == RunTriggers(t, C, Now)
<1>8. r \in U
    BY <1>6, <1>7
<1> HIDE DEF r
<1>9. Balanced(r, next) /\ Quiet(r, K) /\ Triggered(t, r, B, Participants)
    BY <1>3, <1>8
<1> QED
    BY <1>9 DEF r

\* All candidates of one end have the same key.
LEMMA TurnCandidatesKey ==
    ASSUME NEW t, NEW b, NEW p, NEW c \in TurnCandidates(t, b, p)
    PROVE  KeyOf(c) = [boundary |-> Code(b), cell |-> t.state.position[p], participant |-> p]
<1> DEFINE cell == t.state.position[p]
<1>1. PICK e \in t.state.sources : c \in Candidates(e, b, cell, p)
    BY DEF TurnCandidates
<1>2. c = [boundary |-> Code(b), definition |-> e.definition, source |-> e.source,
           cell |-> cell, participant |-> p]
    BY <1>1 DEF Candidates
<1> QED
    BY <1>2 DEF KeyOf

\* Ageing keeps a transaction quiet.
LEMMA AgeQuiet ==
    ASSUME Len(log) \in Nat, NEW t, Balanced(t, turn), NEW next, next # turn,
           NEW K, Quiet(t, K), NEW refreshed
    PROVE  Quiet(Age(t, state, refreshed, next, Now), K)
<1> DEFINE r == Age(t, state, refreshed, next, Now)
           A == Aged(t.state.sources, DueSources(t.state.sources, turn, next, Now))
<1>1. /\ r.ok = t.ok /\ r.state.revision = t.state.revision
      /\ r.state.sources = A
    BY DEF Age, Balanced, Transactions, States
<1>2. \A a \in A : \E e \in t.state.sources :
         a.trigger_revision = e.trigger_revision /\ a.trigger_keys = e.trigger_keys
    BY SourcesAged DEF Balanced
<1> HIDE DEF r, A
<1>3. Quiet(r, K)
    BY <1>1, <1>2 DEF Quiet
<1> QED
    BY <1>3 DEF r

\* Under such a ruleset the transaction that ends the turn does not fail.
LEMMA PassTurnWorks ==
    ASSUME IInv, ActorMayAct, EndsCannotFail(rules)
    PROVE  PassTurn(Staged(state), state, NextTurn(turn, state), state.revision + 1).ok
<1>1. /\ Len(log) \in Nat /\ state.revision = Len(log) /\ state.revision + 1 = Now
      /\ turn \in Turns /\ state \in States
    BY DEF IInv, TypeOK, States, Now
<1> DEFINE next  == NextTurn(turn, state)
           t     == Staged(state)
           C1    == TurnCandidates(t, "endTurn", turn.actor)
           ended == RunTriggers(t, C1, Now)
           aged  == Age(ended, state, t.modified, next, Now)
           C2    == TurnCandidates(aged, "startTurn", next.actor)
           last  == RunTriggers(aged, C2, Now)
           u     == PassTurn(t, state, next, Now)
           k1    == [boundary |-> Code("endTurn"), cell |-> t.state.position[turn.actor],
                     participant |-> turn.actor]
           k2    == [boundary |-> Code("startTurn"), cell |-> aged.state.position[next.actor],
                     participant |-> next.actor]
           K     == {k1} \cup {k2}
<1>2. u = IF ended.ok THEN last ELSE ended
    BY DEF PassTurn
<1>3. /\ next \in Turns /\ next # turn
      /\ turn.actor \in Participants /\ next.actor \in Participants
    BY <1>1, NextIsAnother DEF ActorMayAct, Turns
<1>4. /\ Balanced(t, turn) /\ t.ok /\ t.state = state
    BY StagedBalances DEF Staged
<1>5. FewKeys(K) /\ k1 \in K /\ k2 \in K
  <2> HIDE DEF k1, k2
  <2>1. IsFiniteSet({k1}) /\ Cardinality({k1}) = 1
      BY FS_Singleton
  <2>2. IsFiniteSet(K) /\ (Cardinality(K) = 1 \/ Cardinality(K) = 1 + 1)
      BY <2>1, FS_AddElement
  <2> QED
      BY <2>2 DEF FewKeys
<1>6. \A c \in C1 : KeyOf(c) = k1
    BY TurnCandidatesKey
<1>7. \A c \in C2 : KeyOf(c) = k2
    BY TurnCandidatesKey
<1> HIDE DEF next, t, k1, k2, K, u, last, C1, C2
<1>8. Quiet(t, K)
  <2>1. \A e \in state.sources : e.trigger_revision # Now
    <3>1. \A e \in state.sources : e.trigger_revision <= Len(log)
        BY DEF IInv, Past
    <3> QED
        BY <1>1, <3>1 DEF Now
  <2> QED
      BY <1>1, <1>4, <2>1 DEF Quiet
<1>9. /\ Balanced(ended, turn) /\ Quiet(ended, K)
      /\ Triggered(t, ended, {"endTurn"}, Participants)
  <2>1. t \in Transactions /\ IsFiniteSet(t.state.sources)
      BY <1>4 DEF Balanced, SourcesKept, StacksHold
  <2>2. /\ C1 \in SUBSET TriggerCandidates /\ IsFiniteSet(C1)
        /\ \A c \in C1 : Answered(t, c, {"endTurn"})
      BY <1>3, <2>1, TurnCandidatesAnswered DEF C1
  <2> QED
      BY <1>1, <1>4, <1>5, <1>6, <1>8, <2>2, TriggersQuiet DEF Ends, ended
<1> HIDE DEF ended
<1>10. Balanced(aged, next) /\ Quiet(aged, K)
  <2>1. ModifiersAreTimely => t.modified = ended.modified
    <3>1. ModifiersAreTimely => NeverDoes(rules, "endTurn", "modifier")
        BY DEF ModifiersAreTimely, IInv, TypeOK
    <3> QED
        BY <1>9, <3>1 DEF Triggered
  <2>2. Balanced(aged, next)
      BY <1>1, <1>3, <1>9, <2>1, AgeBalances DEF aged
  <2>3. Quiet(aged, K)
      BY <1>1, <1>3, <1>9, AgeQuiet DEF aged
  <2> QED
      BY <2>2, <2>3
<1> HIDE DEF aged
<1>11. Quiet(last, K)
  <2>1. aged \in Transactions /\ IsFiniteSet(aged.state.sources)
      BY <1>10 DEF Balanced, SourcesKept, StacksHold
  <2>2. /\ C2 \in SUBSET TriggerCandidates /\ IsFiniteSet(C2)
        /\ \A c \in C2 : Answered(aged, c, {"startTurn"})
      BY <1>3, <2>1, TurnCandidatesAnswered DEF C2
  <2> QED
      BY <1>1, <1>5, <1>7, <1>10, <2>2, TriggersQuiet DEF Ends, last
<1>12. u.ok
    BY <1>2, <1>9, <1>11 DEF Quiet
<1> QED
    BY <1>1, <1>12 DEF u, t, next

-------------------------------------------------------------------------------
(* Theorems. *)

\* Whatever commands are accepted, the ledger keeps its invariant.
THEOREM LedgerInvariant == Spec => []IInv
<1>1. IInv /\ [Next]_vars => IInv'
    BY StepKeeps
<1> QED
    BY <1>1, InitHolds, PTL DEF Spec

\* Every command, accepted or refused, keeps the types of the capability state,
\* and the log has one entry for every revision.
THEOREM LedgerIsTyped == Spec => []TypeOK
<1>1. IInv => TypeOK
    BY DEF IInv
<1> QED
    BY <1>1, LedgerInvariant, PTL

\* What the balance of an instance says of its tenure.
LEMMA TimedAtRest ==
    ASSUME Len(log) \in Nat, NEW definitions, NEW e, NEW target,
           Timed(definitions, e, target, turn), e.application_revision <= Len(log)
    PROVE  /\ e.application_revision \in 1 .. Len(log)
           /\ e.remaining = definitions[e.definition].count
                 - Cardinality(CrossedSince(e.application_revision,
                                   definitions[e.definition].anchor, e.source, target))
<1>1. e.application_revision \in 1 .. Len(log)
    BY DEF Timed, Now
<1>2. Passed(e.application_revision, definitions[e.definition].anchor, e.source, target, turn)
         = CrossedSince(e.application_revision, definitions[e.definition].anchor, e.source, target)
    BY DEF Passed
<1> QED
    BY <1>1, <1>2 DEF Timed

\* For every content and all rulesets, a spatial source has what is left of its
\* duration after every boundary since it was created or refreshed.
THEOREM SourcesHoldTenure == Spec => []SourceTenure
<1>1. IInv => SourceTenure
  <2> SUFFICES ASSUME IInv, NEW e \in state.sources
               PROVE  /\ e.application_revision \in 1 .. Len(log)
                      /\ e.trigger_revision \in 0 .. Len(log)
                      /\ e.remaining = SourceDefinitions[e.definition].count
                            - Cardinality(CrossedSince(e.application_revision,
                                              SourceDefinitions[e.definition].anchor,
                                              e.source, e.source))
      BY DEF SourceTenure
  <2>1. Len(log) \in Nat /\ e \in ActiveSources
      BY DEF IInv, TypeOK, States
  <2>2. /\ Timed(SourceDefinitions, e, e.source, turn)
        /\ e.application_revision <= Len(log) /\ e.trigger_revision <= Len(log)
      BY DEF IInv, SourcesKept, SourceKept, Past
  <2>3. e.trigger_revision \in 0 .. Len(log)
      BY <2>1, <2>2 DEF ActiveSources
  <2> QED
      BY <2>1, <2>2, <2>3, TimedAtRest
<1> QED
    BY <1>1, LedgerInvariant, PTL

\* Where no trigger applies an effect once its transaction has advanced the
\* revision, the same holds of every effect.
THEOREM EffectsHoldTenure == EffectsAreTimely => (Spec => []EffectTenure)
<1> SUFFICES ASSUME EffectsAreTimely
             PROVE  Spec => []EffectTenure
    OBVIOUS
<1>1. IInv => EffectTenure
  <2> SUFFICES ASSUME IInv, NEW p \in Participants, NEW e \in state.effects[p]
               PROVE  /\ e.application_revision \in 1 .. Len(log)
                      /\ e.remaining = EffectDefinitions[e.definition].count
                            - Cardinality(CrossedSince(e.application_revision,
                                              EffectDefinitions[e.definition].anchor,
                                              e.source, p))
      BY DEF EffectTenure
  <2>1. Len(log) \in Nat
      BY DEF IInv, TypeOK, States
  <2>2. Timed(EffectDefinitions, e, p, turn) /\ e.application_revision <= Len(log)
      BY DEF IInv, EffectsKept, EffectKept, Past
  <2> QED
      BY <2>1, <2>2, TimedAtRest
<1> QED
    BY <1>1, LedgerInvariant, PTL

\* Where no trigger at the end of a turn applies a modifier, a modifier counts
\* the turns since the transaction that last applied one of its id.
THEOREM ModifiersHoldTenure == ModifiersAreTimely => (Spec => []ModifierTenure)
<1> SUFFICES ASSUME ModifiersAreTimely
             PROVE  Spec => []ModifierTenure
    OBVIOUS
<1>1. IInv => ModifierTenure
    BY DEF IInv
<1> QED
    BY <1>1, LedgerInvariant, PTL

\* In one transaction a source fires at most once for a boundary, cell and
\* participant, and not at all where the transaction created or refreshed it.
THEOREM TriggersFireOnce == Spec => TriggersOncePerTransition
<1>1. IInv /\ [Next]_vars =>
         [\A i \in DOMAIN log' \ DOMAIN log :
            LET fired == log'[i].fired
            IN  \A k \in DOMAIN fired : fired[k][2] = "applied" =>
                   /\ \A l \in DOMAIN fired : fired[l] = fired[k] => l = k
                   /\ \A e \in state'.sources :
                         /\ e.definition = fired[k][1].definition
                         /\ e.source = fired[k][1].source
                         => e.application_revision < i]_vars
    BY StepKeeps DEF OnceStep
<1> QED
    BY <1>1, LedgerInvariant, PTL DEF Spec, TriggersOncePerTransition

\* Instances that a stacking identity admits beside each other are not shared.
LEMMA StacksAreUnshared ==
    ASSUME NEW definitions, NEW S, StacksHold(definitions, S),
           \A e, f \in S :
              definitions[e.definition].stacking_id = definitions[f.definition].stacking_id
                 => definitions[e.definition].stacking = definitions[f.definition].stacking,
           NEW x, NEW y, NEW e \in S, NEW f \in S,
           x.instance = e, x.contract = Contract(definitions[e.definition]),
           y.instance = f, y.contract = Contract(definitions[f.definition]),
           StackKey(x) = StackKey(y)
    PROVE  e = f
<1> DEFINE d == definitions[e.definition]
           c == definitions[f.definition]
           A == IF d.stacking = "independentBySource" THEN {e.source} ELSE {}
           B == IF c.stacking = "independentBySource" THEN {f.source} ELSE {}
<1>1. StackKey(x) = <<d.stacking_id, A>> /\ StackKey(y) = <<c.stacking_id, B>>
    BY DEF StackKey, Contract
<1> HIDE DEF A, B
<1>2. d.stacking_id = c.stacking_id /\ A = B
  <2> DEFINE i == d.stacking_id
             j == c.stacking_id
  <2>1. <<i, A>> = <<j, B>>
      BY <1>1
  <2> HIDE DEF i, j
  <2>2. <<i, A>>[1] = i /\ <<j, B>>[1] = j /\ <<i, A>>[2] = A /\ <<j, B>>[2] = B
      OBVIOUS
  <2>3. i = j /\ A = B
      BY <2>1, <2>2
  <2> QED
      BY <2>3 DEF i, j
<1>3. d.stacking = c.stacking
    BY <1>2
<1>4. d.stacking = "independentBySource" => e.source = f.source
  <2>1. d.stacking = "independentBySource" => A = {e.source} /\ B = {f.source}
      BY <1>3 DEF A, B
  <2>2. {e.source} = {f.source} => e.source = f.source
      OBVIOUS
  <2> QED
      BY <1>2, <2>1, <2>2
<1>5. SameStack(definitions, e, f)
    BY <1>2, <1>4 DEF SameStack
<1> QED
    BY <1>5 DEF StacksHold

\* Where effects are timely and no trigger harms who is about to act, the
\* checkpoint of every state reached is accepted by a restore.
THEOREM LedgerAlwaysRestores ==
    EffectsAreTimely /\ StartsAreHarmless => (Spec => []LedgerRestores)
<1> SUFFICES ASSUME EffectsAreTimely, StartsAreHarmless
             PROVE  Spec => []LedgerRestores
    OBVIOUS
<1>1. IInv => LedgerRestores
  <2> SUFFICES ASSUME IInv
               PROVE  LedgerRestores
      OBVIOUS
  <2>1. /\ TypeOK /\ state \in States /\ state.revision = Len(log) /\ Len(log) \in Nat
        /\ SourcesKept(state.sources, turn)
        /\ \A p \in Participants : EffectsKept(state.effects[p], p, turn)
        /\ Past
      BY DEF IInv, TypeOK, States
  <2>2. ASSUME NEW x \in PortableEffects(state)
        PROVE  /\ x.target \in Participants
               /\ x.instance \in state.effects[x.target]
               /\ x.contract = Contract(EffectDefinitions[x.instance.definition])
               /\ x = [target |-> x.target, instance |-> x.instance, contract |-> x.contract]
    <3>1. PICK p \in Participants : \E e \in state.effects[p] :
             x = [target |-> p, instance |-> e,
                  contract |-> Contract(EffectDefinitions[e.definition])]
        BY DEF PortableEffects
    <3>2. PICK e \in state.effects[p] :
             x = [target |-> p, instance |-> e,
                  contract |-> Contract(EffectDefinitions[e.definition])]
        BY <3>1
    <3> QED
        BY <3>2
  <2>3. ASSUME NEW x \in PortableSources(state)
        PROVE  /\ x.instance \in state.sources
               /\ x.contract = Contract(SourceDefinitions[x.instance.definition])
               /\ x = [instance |-> x.instance, contract |-> x.contract]
      BY DEF PortableSources
  <2>4. ASSUME NEW p \in Participants, NEW e \in state.effects[p]
        PROVE  /\ e \in ActiveEffects
               /\ EffectRestores(state, e)
               /\ e.remaining <= EffectDefinitions[e.definition].count
    <3>1. e \in ActiveEffects /\ EffectKept(e, p, turn)
        BY <2>1 DEF EffectsKept
    <3>2. e.application_revision <= Len(log) /\ e.application_revision \in Nat \ {0}
        BY <2>1, <3>1 DEF Past, ActiveEffects
    <3>3. e.remaining \in Nat \ {0}
        BY <3>1 DEF ActiveEffects
    <3> QED
        BY <2>1, <3>1, <3>2, <3>3 DEF EffectRestores, EffectKept
  <2>5. ASSUME NEW e \in state.sources
        PROVE  /\ e \in ActiveSources
               /\ SourceRestores(state, e)
               /\ e.remaining <= SourceDefinitions[e.definition].count
               /\ e.cells = Diamond(e.origin, e.definition)
    <3>1. e \in ActiveSources /\ SourceKept(e, turn)
        BY <2>1 DEF SourcesKept
    <3>2. /\ e.application_revision <= Len(log) /\ e.application_revision \in Nat \ {0}
          /\ e.trigger_revision <= Len(log) /\ e.trigger_revision \in Nat
          /\ e.remaining \in Nat \ {0} /\ e.origin \in Cells
        BY <2>1, <3>1 DEF Past, ActiveSources
    <3>3. e.origin \in e.cells
      <4>1. SourceDefinitions[e.definition].radius \in Nat
          BY <3>1, SourceDefined
      <4>2. Distance(e.origin, e.origin) = 0
          BY <3>2 DEF Distance, Cells
      <4> QED
          BY <3>1, <3>2, <4>1, <4>2 DEF SourceKept, Diamond
    <3>4. e.remaining <= SourceDefinitions[e.definition].count
      <4>1. SourceDefinitions[e.definition].count \in Nat
          BY <3>1, SourceDefined
      <4>2. /\ e.application_revision \in 1 .. Len(log)
            /\ e.remaining = SourceDefinitions[e.definition].count
                  - Cardinality(CrossedSince(e.application_revision,
                                    SourceDefinitions[e.definition].anchor,
                                    e.source, e.source))
          BY <2>1, <3>1, <3>2, TimedAtRest DEF SourceKept
      <4> DEFINE C == CrossedSince(e.application_revision,
                         SourceDefinitions[e.definition].anchor, e.source, e.source)
      <4>3. IsFiniteSet(C)
        <5>1. C \subseteq e.application_revision + 1 .. Len(log)
            BY DEF CrossedSince
        <5>2. IsFiniteSet(e.application_revision + 1 .. Len(log))
          <6>1. e.application_revision + 1 \in Int /\ Len(log) \in Int
              BY <2>1, <3>2
          <6> QED
              BY <6>1, FS_Interval
        <5> HIDE DEF C
        <5> QED
            BY <5>1, <5>2, FS_Subset
      <4> HIDE DEF C
      <4>4. Cardinality(C) \in Nat
          BY <4>3, FS_CardinalityType
      <4>5. e.remaining = SourceDefinitions[e.definition].count - Cardinality(C)
          BY <4>2 DEF C
      <4> QED
          BY <4>1, <4>4, <4>5
    <3> QED
        BY <2>1, <3>1, <3>2, <3>3, <3>4 DEF SourceRestores, SourceKept
  <2>6. StateRestores(state)
    <3>1. \A p \in Participants :
             /\ Cardinality(state.effects[p]) <= MaximumActive
             /\ \A m \in state.modifiers[p] : m.remaining > 0
             /\ \A m, n \in state.modifiers[p] :
                   Modifiers[m.id].stacking_group = Modifiers[n.id].stacking_group => m = n
      <4>1. \A p \in Participants : \A m \in state.modifiers[p] : m.remaining \in Nat \ {0}
          BY <2>1 DEF States, ActiveModifiers
      <4>2. \A p \in Participants : \A m \in state.modifiers[p] : m.remaining > 0
          BY <4>1
      <4>3. \A p \in Participants : Cardinality(state.effects[p]) <= MaximumActive
          BY <2>1 DEF EffectsKept, StacksHold
      <4> QED
          BY <4>2, <4>3 DEF IInv, OneOfEachGroup
    <3>2. Cardinality(state.sources) <= MaximumActive
        BY <2>1 DEF SourcesKept, StacksHold
    <3> QED
        BY <2>2, <2>3, <2>4, <2>5, <3>1, <3>2 DEF StateRestores
  <2>7. \A target \in Participants :
           Unshared({p \in PortableEffects(state) : p.target = target})
    <3>1. ASSUME NEW target \in Participants,
                 NEW x \in PortableEffects(state), NEW y \in PortableEffects(state),
                 x.target = target, y.target = target, StackKey(x) = StackKey(y)
          PROVE  x = y
      <4>1. x.instance \in state.effects[target] /\ y.instance \in state.effects[target]
          BY <2>2, <3>1
      <4>2. /\ StacksHold(EffectDefinitions, state.effects[target])
            /\ state.effects[target] \in SUBSET ActiveEffects
          BY <2>1 DEF EffectsKept
      <4>3. \A e, f \in state.effects[target] :
               EffectDefinitions[e.definition].stacking_id
                     = EffectDefinitions[f.definition].stacking_id
                  => EffectDefinitions[e.definition].stacking
                        = EffectDefinitions[f.definition].stacking
          BY <4>2, EffectDefined
      <4>4. x.instance = y.instance
          BY <2>2, <3>1, <4>1, <4>2, <4>3, StacksAreUnshared
      <4>5. x.contract = y.contract
          BY <2>2, <4>4
      <4> QED
          BY <2>2, <3>1, <4>4, <4>5
    <3> QED
        BY <3>1 DEF Unshared
  <2>8. Unshared(PortableSources(state))
    <3>1. ASSUME NEW x \in PortableSources(state), NEW y \in PortableSources(state),
                 StackKey(x) = StackKey(y)
          PROVE  x = y
      <4>1. /\ StacksHold(SourceDefinitions, state.sources)
            /\ state.sources \in SUBSET ActiveSources
          BY <2>1 DEF SourcesKept
      <4>2. \A e, f \in state.sources :
               SourceDefinitions[e.definition].stacking_id
                     = SourceDefinitions[f.definition].stacking_id
                  => SourceDefinitions[e.definition].stacking
                        = SourceDefinitions[f.definition].stacking
          BY <4>1, SourceDefined
      <4>3. x.instance = y.instance
          BY <2>3, <3>1, <4>1, <4>2, StacksAreUnshared
      <4>4. x.contract = y.contract
          BY <2>3, <4>3
      <4> QED
          BY <2>3, <4>3, <4>4
    <3> QED
        BY <3>1 DEF Unshared
  <2>9. ContractsHold(state)
      BY <2>2, <2>3, <2>4, <2>5, <2>7, <2>8 DEF ContractsHold
  <2>10. GeometryHolds(state)
      BY <2>5 DEF GeometryHolds, Diamond
  <2>11. rules.economy = "fixed" => TurnRestores(state)
      BY DEF IInv
  <2> QED
      BY <2>1, <2>6, <2>9, <2>10, <2>11 DEF LedgerRestores
<1> QED
    BY <1>1, LedgerInvariant, PTL

\* Where no trigger at an end of a turn takes what may not be there, or applies
\* an effect for which there may be no room, the participant whose turn it is
\* can end it.
THEOREM TurnsCanEnd == Spec => [](EndsCannotFail(rules) => TurnCanEnd)
<1>1. IInv => (EndsCannotFail(rules) => TurnCanEnd)
    BY PassTurnWorks DEF TurnCanEnd
<1> QED
    BY <1>1, LedgerInvariant, PTL
===============================================================================
