------------------------ MODULE ActionResolution_proofs ------------------------
(***************************************************************************)
(* What every stage of a resolution keeps.  A run that started from the    *)
(* state "s" with the die values "evidence" stays Sound: it is well typed, *)
(* no budget is overdrawn, the revision is the one of "s", and the values  *)
(* it used followed by the values it has left are exactly "evidence".      *)
(***************************************************************************)
EXTENDS ActionResolution, TurnEngine_proofs, SequenceTheorems

Sound(r, s, evidence) ==
    /\ r \in Runs
    /\ Solvent(r.state)
    /\ r.state.revision = s.revision
    /\ evidence \in Seq(Values)
    /\ r.used \o r.left = evidence

\* Moving the first of the values left behind the values used.
LEMMA TakeOne ==
    ASSUME NEW S, NEW used \in Seq(S), NEW rest \in Seq(S), rest # <<>>
    PROVE  used \o rest = Append(used, Head(rest)) \o Tail(rest)
<1> DEFINE left  == used \o rest
           right == Append(used, Head(rest)) \o Tail(rest)
<1>1. /\ Head(rest) \in S
      /\ Tail(rest) \in Seq(S)
      /\ Len(Tail(rest)) = Len(rest) - 1
      /\ Head(rest) = rest[1]
      /\ \A i \in 1 .. Len(rest) - 1 : Tail(rest)[i] = rest[i + 1]
    BY HeadTailProperties
<1>2. /\ Append(used, Head(rest)) \in Seq(S)
      /\ Len(Append(used, Head(rest))) = Len(used) + 1
      /\ \A i \in 1 .. Len(used) : Append(used, Head(rest))[i] = used[i]
      /\ Append(used, Head(rest))[Len(used) + 1] = Head(rest)
    BY <1>1, AppendProperties
<1>3. /\ left \in Seq(S)
      /\ Len(left) = Len(used) + Len(rest)
      /\ \A i \in 1 .. Len(used) + Len(rest) :
            left[i] = IF i <= Len(used) THEN used[i] ELSE rest[i - Len(used)]
    BY ConcatProperties
<1>4. /\ right \in Seq(S)
      /\ Len(right) = Len(used) + Len(rest)
      /\ \A i \in 1 .. Len(used) + Len(rest) :
            right[i] = IF i <= Len(used) + 1
                       THEN Append(used, Head(rest))[i]
                       ELSE Tail(rest)[i - Len(used) - 1]
    BY <1>1, <1>2, ConcatProperties
<1>5. Len(used) \in Nat /\ Len(rest) \in Nat
    BY LenProperties
<1>6. ASSUME NEW i \in 1 .. Len(used) + Len(rest)
      PROVE  left[i] = right[i]
  <2>1. CASE i <= Len(used)
      BY <1>2, <1>3, <1>4, <1>5, <2>1
  <2>2. CASE i = Len(used) + 1
      BY <1>1, <1>2, <1>3, <1>4, <1>5, <2>2
  <2>3. CASE i > Len(used) + 1
      BY <1>1, <1>3, <1>4, <1>5, <2>3
  <2> QED
      BY <1>5, <2>1, <2>2, <2>3
<1> HIDE DEF left, right
<1> QED
    BY <1>3, <1>4, <1>6, SeqEqual

\* Stopping a run loses nothing.
LEMMA StopSound ==
    ASSUME NEW r, NEW s, NEW evidence, Sound(r, s, evidence), NEW why \in Stops
    PROVE  Sound(Stop(r, why), s, evidence)
BY DEF Sound, Stop, Runs

\* Taking a die value moves it from the values left to the values used.
LEMMA TakeRandomSound ==
    ASSUME NEW r, NEW s, NEW evidence, Sound(r, s, evidence)
    PROVE  /\ Sound(TakeRandom(r), s, evidence)
           /\ Running(TakeRandom(r)) => /\ TakeRandom(r).state = r.state
                                        /\ Running(r)
                                        /\ TakeRandom(r).used # <<>>
<1>1. CASE r.left = <<>>
  <2>1. TakeRandom(r) = Stop(r, "evidence")
      BY <1>1 DEF TakeRandom
  <2> QED
      BY <2>1, StopSound DEF Stops, Running, Stop, Sound, Runs
<1>2. CASE r.left # <<>> /\ Head(r.left) \notin Rolls
  <2>1. TakeRandom(r) = Stop(r, "illegal")
      BY <1>2 DEF TakeRandom
  <2> QED
      BY <2>1, StopSound DEF Stops, Running, Stop, Sound, Runs
<1>3. CASE r.left # <<>> /\ Head(r.left) \in Rolls
  <2> DEFINE x == Head(r.left)
             q == [r EXCEPT !.left = Tail(r.left), !.used = Append(r.used, x)]
  <2>1. r.left \in Seq(Values) /\ r.used \in Seq(Rolls) /\ r.used \in Seq(Values)
      BY SeqMonotonic DEF Sound, Runs, Values
  <2>2. /\ Tail(r.left) \in Seq(Values)
        /\ Append(r.used, x) \in Seq(Rolls)
        /\ Append(r.used, x) # <<>>
      BY <1>3, <2>1, HeadTailProperties, AppendProperties
  <2>3. r.used \o r.left = Append(r.used, x) \o Tail(r.left)
      BY <1>3, <2>1, <2>2, TakeOne
  <2>4. q \in Runs /\ q.state = r.state
      BY <2>2 DEF Sound, Runs
  <2>5. TakeRandom(r) = q
      BY <1>3 DEF TakeRandom
  <2> QED
      BY <2>2, <2>3, <2>4, <2>5 DEF Sound, Runs, Running
<1> QED
    BY <1>1, <1>2, <1>3

\* Budgets, position, vitality and effects may be replaced by well-typed ones.
LEMMA StateUpdates ==
    ASSUME NEW x \in States
    PROVE  /\ \A b \in [Participants -> [Budgets -> Int]], n \in Nat :
                 /\ [x EXCEPT !.activations = n, !.budget = b] \in States
                 /\ [x EXCEPT !.budget = b] \in States
           /\ \A c \in [Participants -> Cells] : [x EXCEPT !.position = c] \in States
           /\ \A v \in [Participants -> 0 .. MaxVitality] : [x EXCEPT !.vitality = v] \in States
           /\ \A e \in [Participants -> SUBSET Participants] : [x EXCEPT !.effects = e] \in States
BY DEF States

\* The revision may be advanced; the accounts do not depend on it.
LEMMA RevisionUpdate ==
    ASSUME NEW x \in States, Solvent(x), NEW n \in Nat
    PROVE  /\ [x EXCEPT !.revision = n] \in States
           /\ Solvent([x EXCEPT !.revision = n])
           /\ [x EXCEPT !.revision = n].revision = n
<1>1. [x EXCEPT !.revision = n] \in States
    BY DEF States
<1>2. /\ [x EXCEPT !.revision = n].revision = n
      /\ [x EXCEPT !.revision = n].budget = x.budget
      /\ [x EXCEPT !.revision = n].activations = x.activations
    BY DEF States
<1> QED
    BY <1>1, <1>2 DEF Solvent

\* A run may go on with another state of the same revision.
LEMMA SoundUpdate ==
    ASSUME NEW r, NEW s, NEW evidence, Sound(r, s, evidence),
           NEW x \in States, Solvent(x), x.revision = r.state.revision
    PROVE  Sound([r EXCEPT !.state = x], s, evidence)
BY DEF Sound, Runs

\* Paying for an activation overdraws nothing and stops at the ceiling.
LEMMA SpendActivationSound ==
    ASSUME NEW r, NEW s, NEW evidence, Sound(r, s, evidence),
           NEW p \in Participants, NEW costs \in [Budgets -> Nat]
    PROVE  /\ Sound(SpendActivation(r, p, costs), s, evidence)
           /\ SpendActivation(r, p, costs).state.position = r.state.position
<1>1. CASE Economy = "fixed"
    BY <1>1 DEF SpendActivation
<1>2. CASE Economy # "fixed" /\ ~Payable(r.state, p, costs)
  <2>1. SpendActivation(r, p, costs) = Stop(r, "illegal")
      BY <1>2 DEF SpendActivation
  <2> QED
      BY <2>1, StopSound DEF Stops, Stop, Sound, Runs
<1>3. CASE Economy # "fixed" /\ Payable(r.state, p, costs)
  <2> DEFINE paid == [b \in Budgets |-> r.state.budget[p][b] - costs[b]]
             budget == [r.state.budget EXCEPT ![p] = paid]
             x == [r.state EXCEPT !.activations = r.state.activations + 1,
                                  !.budget = budget]
             q == [r EXCEPT !.state = x]
  <2>1. /\ r.state \in States
        /\ r.state.budget \in [Participants -> [Budgets -> Int]]
        /\ r.state.activations \in Nat
        /\ r \in Runs
      BY DEF Sound, Runs, States
  <2>2. \A b \in Budgets : paid[b] \in 0 .. InitialAmount[b]
    <3> SUFFICES ASSUME NEW b \in Budgets
                 PROVE  paid[b] \in 0 .. InitialAmount[b]
        OBVIOUS
    <3>1. costs[b] \in Nat /\ costs[b] <= r.state.budget[p][b]
        BY <1>3 DEF Payable
    <3>2. r.state.budget[p][b] \in 0 .. InitialAmount[b] /\ InitialAmount[b] \in Nat
        BY ResolutionAssumption DEF Sound, Solvent
    <3> QED
        BY <3>1, <3>2
  <2>3. budget \in [Participants -> [Budgets -> Int]]
    <3>1. paid \in [Budgets -> Int]
        BY <2>2
    <3> HIDE DEF paid
    <3> QED
        BY <2>1, <3>1
  <2>4. x \in States
    <3>1. r.state.activations + 1 \in Nat
        BY <2>1
    <3>2. \A b \in [Participants -> [Budgets -> Int]], n \in Nat :
             [r.state EXCEPT !.activations = n, !.budget = b] \in States
        BY <2>1, StateUpdates
    <3> HIDE DEF budget
    <3> QED
        BY <2>3, <3>1, <3>2
  <2>6. Solvent(x)
    <3>1. r.state.activations + 1 <= Ceiling
        BY <1>3, <2>1, ResolutionAssumption DEF Payable
    <3>2. \A o \in Participants, b \in Budgets : budget[o][b] \in 0 .. InitialAmount[b]
        BY <2>1, <2>2 DEF Sound, Solvent
    <3> HIDE DEF budget
    <3> QED
        BY <1>3, <2>1, <3>1, <3>2 DEF Solvent, States
  <2>7. SpendActivation(r, p, costs) = q
      BY <1>3, <2>1 DEF SpendActivation, Runs, States
  <2>8. /\ x.revision = r.state.revision
        /\ x.position = r.state.position
        /\ q.state = x
    <3> HIDE DEF budget
    <3> QED
        BY <2>1 DEF States, Runs
  <2>9. Sound(q, s, evidence)
    <3> HIDE DEF x
    <3> QED
        BY <2>4, <2>6, <2>8, SoundUpdate
  <2> HIDE DEF q
  <2> QED
      BY <2>7, <2>8, <2>9
<1> QED
    BY <1>1, <1>2, <1>3

-------------------------------------------------------------------------------
(* The operations of a program. *)

\* What an intent names exists and is compiled.
LEMMA ActionFields ==
    ASSUME NEW i \in Intents
    PROVE  /\ i.actor \in Participants
           /\ i.target \in Participants
           /\ i.cells \subseteq Cells
           /\ Actions[i.action] \in ActionRecords
           /\ Compiled(Actions[i.action])
BY ResolutionAssumption DEF Intents

\* The check of an action takes at most a die value and moves nobody.
LEMMA ResolveChecksSound ==
    ASSUME NEW r, NEW s, NEW evidence, Sound(r, s, evidence), NEW i \in Intents
    PROVE  Sound(ResolveChecks(r, i), s, evidence)
<1>1. CASE ~Running(r) \/ ~Actions[i.action].check
    BY <1>1 DEF ResolveChecks
<1>2. CASE Running(r) /\ Actions[i.action].check /\ ~Running(TakeRandom(r))
    BY <1>2, TakeRandomSound DEF ResolveChecks
<1>3. CASE Running(r) /\ Actions[i.action].check /\ Running(TakeRandom(r))
  <2> DEFINE rolled == TakeRandom(r)
             hit == Rolled(rolled) = "high"
  <2>1. ResolveChecks(r, i) = [rolled EXCEPT !.hit = hit]
      BY <1>3 DEF ResolveChecks
  <2>2. Sound(rolled, s, evidence) /\ hit \in BOOLEAN
      BY TakeRandomSound
  <2> HIDE DEF rolled, hit
  <2> QED
      BY <2>1, <2>2 DEF Sound, Runs
<1> QED
    BY <1>1, <1>2, <1>3

\* The reaction window stops the run, refuses it, or pays for the guard.
LEMMA OpenReactionSound ==
    ASSUME NEW r, NEW s, NEW evidence, Sound(r, s, evidence), NEW i \in Intents,
           NEW decision
    PROVE  Sound(OpenReaction(r, i, decision), s, evidence)
<1> DEFINE a     == Actions[i.action]
           spent == IF decision = "accept" THEN SpendActivation(r, i.target, a.guard) ELSE r
           n     == IF decision = "accept" THEN a.reduction ELSE 0
<1>1. a.guard \in [Budgets -> Nat] /\ n \in Nat
    BY ActionFields DEF ActionRecords
<1>2. Sound(spent, s, evidence)
    BY <1>1, ActionFields, SpendActivationSound
<1>3. CASE r.decided \/ decision = "none"
  <2>1. OpenReaction(r, i, decision) \in {Stop(r, "illegal"), Stop(r, "reaction")}
      BY <1>3 DEF OpenReaction, Sound, Runs
  <2> QED
      BY <2>1, StopSound DEF Stops
<1>4. CASE ~r.decided /\ decision # "none" /\ ~Running(spent)
    BY <1>2, <1>4 DEF OpenReaction
<1>5. CASE ~r.decided /\ decision # "none" /\ Running(spent)
  <2>1. OpenReaction(r, i, decision) = [spent EXCEPT !.decided = TRUE, !.reduction = n]
      BY <1>5 DEF OpenReaction
  <2> HIDE DEF spent, n
  <2> QED
      BY <1>1, <1>2, <2>1 DEF Sound, Runs
<1> QED
    BY <1>3, <1>4, <1>5

\* Damage keeps vitality between 0 and the maximum.
LEMMA DamageSound ==
    ASSUME NEW r, NEW s, NEW evidence, Sound(r, s, evidence), NEW i \in Intents
    PROVE  Sound(Damage(r, i), s, evidence)
<1> DEFINE a      == Actions[i.action]
           rolled == IF a.dice THEN TakeRandom(r) ELSE r
           amount == Amount(rolled, a)
           before == rolled.state.vitality[i.target]
           after  == IF before <= amount THEN 0 ELSE before - amount
<1>1. Sound(rolled, s, evidence)
    BY TakeRandomSound
<1>2. CASE ~Running(rolled)
    BY <1>1, <1>2 DEF Damage
<1>3. CASE Running(rolled)
  <2> DEFINE v == [rolled.state.vitality EXCEPT ![i.target] = after]
             x == [rolled.state EXCEPT !.vitality = v]
             q == [rolled EXCEPT !.state = x]
  <2>1. /\ i.target \in Participants
        /\ a.damage \in Nat
        /\ rolled.reduction \in Nat
        /\ before \in 0 .. MaxVitality
        /\ MaxVitality \in Nat
        /\ rolled.state \in States
        /\ rolled.state.vitality \in [Participants -> 0 .. MaxVitality]
      BY <1>1, ActionFields, ResolutionAssumption DEF ActionRecords, Sound, Runs, States
  <2>2. after \in 0 .. MaxVitality
    <3>1. amount \in Nat
      <4> HIDE DEF rolled, a
      <4> QED
          BY <2>1 DEF Amount
    <3> HIDE DEF amount, before
    <3> QED
        BY <2>1, <3>1
  <2>3. v \in [Participants -> 0 .. MaxVitality]
    <3> HIDE DEF after, rolled
    <3> QED
        BY <2>1, <2>2
  <2>4. x \in States
    <3>1. \A w \in [Participants -> 0 .. MaxVitality] : [rolled.state EXCEPT !.vitality = w] \in States
        BY <2>1, StateUpdates
    <3> HIDE DEF v
    <3> QED
        BY <2>3, <3>1
  <2>5. Solvent(x) /\ x.revision = rolled.state.revision
    <3> HIDE DEF v, rolled
    <3> QED
        BY <1>1, <2>1 DEF Sound, Solvent, States
  <2>6. Sound(q, s, evidence)
    <3> HIDE DEF x, rolled
    <3> QED
        BY <1>1, <2>4, <2>5, SoundUpdate
  <2>7. Damage(r, i) = [q EXCEPT !.reduction = 0]
    <3>1. Damage(r, i) = [rolled EXCEPT !.reduction = 0, !.state.vitality[i.target] = after]
        BY <1>3 DEF Damage
    <3> HIDE DEF after
    <3> QED
        BY <1>1, <2>1, <3>1 DEF Sound, Runs, States
  <2>8. Sound([q EXCEPT !.reduction = 0], s, evidence)
    <3> HIDE DEF q
    <3> QED
        BY <2>6 DEF Sound, Runs
  <2> QED
      BY <2>7, <2>8
<1> QED
    BY <1>2, <1>3

\* Distances are natural numbers, the same both ways.
LEMMA DistanceType ==
    ASSUME NEW c \in Cells, NEW d \in Cells
    PROVE  Distance(c, d) \in Nat /\ Distance(d, c) = Distance(c, d)
BY ResolutionAssumption DEF Distance, Cells

\* A move changes one position or stops the run.
LEMMA MoveEntitySound ==
    ASSUME NEW r, NEW s, NEW evidence, Sound(r, s, evidence),
           NEW p \in Participants, NEW c \in Cells, NEW maximum
    PROVE  LET moved == MoveEntity(r, p, c, maximum)
           IN  /\ Sound(moved, s, evidence)
               /\ Running(moved) =>
                     /\ Running(r)
                     /\ moved = [r EXCEPT !.state.position[p] = c]
                     /\ moved.state.budget = r.state.budget
<1> DEFINE x == [r.state EXCEPT !.position = [r.state.position EXCEPT ![p] = c]]
           q == [r EXCEPT !.state = x]
<1>1. CASE Distance(r.state.position[p], c) \in 1 .. maximum
  <2>1. r.state \in States /\ r.state.position \in [Participants -> Cells] /\ r \in Runs
      BY DEF Sound, Runs, States
  <2>2. x \in States
    <3>1. [r.state.position EXCEPT ![p] = c] \in [Participants -> Cells]
        BY <2>1
    <3> QED
        BY <2>1, <3>1, StateUpdates
  <2>3. /\ Solvent(x)
        /\ x.revision = r.state.revision
        /\ x.budget = r.state.budget
      BY <2>1 DEF Sound, Solvent, States
  <2>4. MoveEntity(r, p, c, maximum) = [r EXCEPT !.state.position[p] = c]
      BY <1>1 DEF MoveEntity
  <2>5. [r EXCEPT !.state.position[p] = c] = q
      BY <2>1 DEF Runs, States
  <2>6. Sound(q, s, evidence)
    <3> HIDE DEF x
    <3> QED
        BY <2>2, <2>3, SoundUpdate
  <2>7. q.state = x /\ q.stop = r.stop
    <3> HIDE DEF x
    <3> QED
        BY <2>1 DEF Runs
  <2> HIDE DEF q
  <2> QED
      BY <2>3, <2>4, <2>5, <2>6, <2>7 DEF Running
<1>2. CASE Distance(r.state.position[p], c) \notin 1 .. maximum
  <2>1. MoveEntity(r, p, c, maximum) = Stop(r, "illegal")
      BY <1>2 DEF MoveEntity
  <2>2. Sound(Stop(r, "illegal"), s, evidence)
      BY StopSound DEF Stops
  <2>3. ~Running(Stop(r, "illegal"))
      BY DEF Running, Stop, Sound, Runs
  <2> QED
      BY <2>1, <2>2, <2>3
<1> QED
    BY <1>1, <1>2

\* A forced movement moves the target, or asks for a destination.
LEMMA ForcedMovementSound ==
    ASSUME NEW r, NEW s, NEW evidence, Sound(r, s, evidence), NEW i \in Intents
    PROVE  Sound(ForcedMovement(r, i), s, evidence)
<1>1. CASE i.cells = {}
    BY <1>1, StopSound DEF ForcedMovement, Stops
<1>2. CASE i.cells # {}
  <2> DEFINE c == CHOOSE d \in i.cells : TRUE
  <2>1. c \in Cells
      BY <1>2, ActionFields
  <2>2. ForcedMovement(r, i) = MoveEntity(r, i.target, c, Actions[i.action].distance)
      BY <1>2 DEF ForcedMovement
  <2> HIDE DEF c
  <2> QED
      BY <2>1, <2>2, ActionFields, MoveEntitySound
<1> QED
    BY <1>1, <1>2

\* An effect is added to the ones the target has.
LEMMA ApplyEffectSound ==
    ASSUME NEW r, NEW s, NEW evidence, Sound(r, s, evidence), NEW i \in Intents
    PROVE  Sound(ApplyEffect(r, i), s, evidence)
<1> DEFINE old == r.state.effects
           new == [old EXCEPT ![i.target] = old[i.target] \cup {i.actor}]
           x   == [r.state EXCEPT !.effects = new]
<1>1. /\ r \in Runs
      /\ r.state \in States
      /\ old \in [Participants -> SUBSET Participants]
      /\ i.actor \in Participants
      /\ i.target \in Participants
    BY ActionFields DEF Sound, Runs, States
<1>2. new \in [Participants -> SUBSET Participants]
    BY <1>1
<1>3. ApplyEffect(r, i) = [r EXCEPT !.state = x]
    BY <1>1 DEF ApplyEffect, Runs, States
<1>4. x \in States
  <2>1. \A e \in [Participants -> SUBSET Participants] : [r.state EXCEPT !.effects = e] \in States
      BY <1>1, StateUpdates
  <2> HIDE DEF new
  <2> QED
      BY <1>2, <2>1
<1>5. Solvent(x) /\ x.revision = r.state.revision
  <2> HIDE DEF new
  <2> QED
      BY <1>1 DEF Sound, Solvent, States
<1> HIDE DEF x
<1> QED
    BY <1>3, <1>4, <1>5, SoundUpdate

\* A step pays for its route out of the movement allowance, never overdrawing it.
LEMMA MoveToCellSound ==
    ASSUME NEW r, NEW s, NEW evidence, Sound(r, s, evidence), NEW i \in Intents,
           i.cells # {}
    PROVE  Sound(MoveToCell(r, i), s, evidence)
<1> DEFINE c     == CHOOSE d \in i.cells : TRUE
           p     == i.actor
           start == r.state.position[p]
           cost  == Distance(start, c)
           moved == MoveEntity(r, p, c, Actions[i.action].distance)
           poor  == \E b \in Allowance : r.state.budget[p][b] < cost
           old   == moved.state.budget
           paid  == [b \in Budgets |-> IF b \in Allowance THEN old[p][b] - cost ELSE old[p][b]]
           new   == [old EXCEPT ![p] = paid]
           x     == [moved.state EXCEPT !.budget = new]
           q     == [moved EXCEPT !.state = x]
           steps == {[mover |-> p, start |-> start, end |-> c]}
<1>1. /\ c \in Cells
      /\ p \in Participants
      /\ start \in Cells
      /\ cost \in Nat
    BY ActionFields, DistanceType DEF Sound, Runs, States
<1>2. /\ Sound(moved, s, evidence)
      /\ Running(moved) => Running(r) /\ old = r.state.budget
  <2> HIDE DEF c
  <2> QED
      BY <1>1, MoveEntitySound
<1> HIDE DEF c, start, cost, moved
<1>3. CASE ~Running(moved)
    BY <1>2, <1>3 DEF MoveToCell, c, start, cost, moved
<1>4. CASE Running(moved) /\ poor
  <2>1. MoveToCell(r, i) = Stop(r, "illegal")
      BY <1>4 DEF MoveToCell, c, start, cost, moved
  <2> QED
      BY <2>1, StopSound DEF Stops
<1>5. CASE Running(moved) /\ ~poor
  <2>1. /\ moved \in Runs
        /\ moved.state \in States
        /\ old \in [Participants -> [Budgets -> Int]]
        /\ old = r.state.budget
      BY <1>2, <1>5 DEF Sound, Runs, States
  <2>2. \A b \in Budgets : paid[b] \in 0 .. InitialAmount[b]
    <3> SUFFICES ASSUME NEW b \in Budgets
                 PROVE  paid[b] \in 0 .. InitialAmount[b]
        OBVIOUS
    <3>1. old[p][b] \in 0 .. InitialAmount[b] /\ InitialAmount[b] \in Nat
        BY <1>1, <1>2, ResolutionAssumption DEF Sound, Solvent
    <3>2. b \in Allowance => cost <= old[p][b]
        BY <1>1, <1>5, <2>1, <3>1
    <3> HIDE DEF old
    <3> QED
        BY <1>1, <3>1, <3>2
  <2>3. paid \in [Budgets -> Int]
      BY <2>2
  <2>4. new \in [Participants -> [Budgets -> Int]]
    <3> HIDE DEF paid, old
    <3> QED
        BY <1>1, <2>1, <2>3
  <2>5. x \in States
    <3>1. \A n \in Nat, b \in [Participants -> [Budgets -> Int]] :
             [moved.state EXCEPT !.budget = b] \in States
        BY <2>1, StateUpdates
    <3> HIDE DEF new
    <3> QED
        BY <2>4, <3>1
  <2>6. Solvent(x) /\ x.revision = moved.state.revision
    <3>1. \A o \in Participants, b \in Budgets : new[o][b] \in 0 .. InitialAmount[b]
      <4> HIDE DEF paid
      <4> QED
          BY <1>1, <1>2, <2>1, <2>2 DEF Sound, Solvent
    <3> HIDE DEF new
    <3> QED
        BY <1>2, <2>1, <3>1 DEF Sound, Solvent, States
  <2>7. Sound(q, s, evidence)
    <3> HIDE DEF x
    <3> QED
        BY <1>2, <2>5, <2>6, SoundUpdate
  <2>8. steps \in SUBSET Transitions
      BY <1>1 DEF Transitions
  <2>9. Sound([q EXCEPT !.voluntary = steps], s, evidence)
    <3> HIDE DEF q, steps
    <3> QED
        BY <2>7, <2>8 DEF Sound, Runs
  <2>10. MoveToCell(r, i) = [q EXCEPT !.voluntary = steps]
    <3>1. MoveToCell(r, i) =
             [moved EXCEPT
                !.state.budget[p] =
                    [b \in Budgets |-> IF b \in Allowance THEN @[b] - cost ELSE @[b]],
                !.voluntary = steps]
        BY <1>5 DEF MoveToCell, c, start, cost, moved
    <3> HIDE DEF steps
    <3> QED
        BY <1>1, <2>1, <3>1 DEF Runs, States
  <2> QED
      BY <2>9, <2>10
<1> QED
    BY <1>3, <1>4, <1>5

\* The cell an operation may need is there.
Bound(i) == Actions[i.action].targets = "cell" => i.cells # {}

\* One operation of the program.
LEMMA OperateSound ==
    ASSUME NEW r, NEW s, NEW evidence, Sound(r, s, evidence),
           NEW i \in Intents, Bound(i), NEW decision, NEW k \in 1 .. 3
    PROVE  Sound(Operate(r, i, decision, k), s, evidence)
<1> DEFINE op == Actions[i.action].program[k]
<1>1. op \in Operations
    BY ActionFields DEF ActionRecords
<1>2. CASE op = "none" \/ ~Running(r) \/ ~r.hit
    BY <1>2 DEF Operate
<1>3. CASE op = "window" /\ Running(r) /\ r.hit
    BY <1>3, OpenReactionSound DEF Operate
<1>4. CASE op = "strike" /\ Running(r) /\ r.hit
    BY <1>4, DamageSound DEF Operate
<1>5. CASE op = "shift" /\ Running(r) /\ r.hit
    BY <1>5, ForcedMovementSound DEF Operate
<1>6. CASE op = "step" /\ Running(r) /\ r.hit
  <2>1. i.cells # {}
      BY <1>6, ActionFields DEF Compiled, Bound
  <2> QED
      BY <1>6, <2>1, MoveToCellSound DEF Operate
<1>7. CASE op = "afflict" /\ Running(r) /\ r.hit
    BY <1>7, ApplyEffectSound DEF Operate
<1> QED
    BY <1>1, <1>2, <1>3, <1>4, <1>5, <1>6, <1>7 DEF Operations

\* A program is sound when each of its operations is.
LEMMA ExecuteProgramSound ==
    ASSUME NEW r, NEW s, NEW evidence, Sound(r, s, evidence),
           NEW i \in Intents, Bound(i), NEW decision
    PROVE  Sound(ExecuteProgram(r, i, decision), s, evidence)
<1>1. Sound(Operate(r, i, decision, 1), s, evidence)
    BY OperateSound
<1>2. Sound(Operate(Operate(r, i, decision, 1), i, decision, 2), s, evidence)
    BY <1>1, OperateSound
<1> QED
    BY <1>2, OperateSound DEF ExecuteProgram

-------------------------------------------------------------------------------
(* The whole resolution. *)

\* A command starts with its actor's state and all its evidence.
LEMMA StagedSound ==
    ASSUME NEW s \in States, Solvent(s), NEW evidence \in Seq(Values)
    PROVE  Sound(Staged(s, evidence), s, evidence)
<1>1. <<>> \in Seq(Rolls) /\ <<>> \o evidence = evidence
    BY EmptySeq, ConcatEmptySeq
<1> QED
    BY <1>1 DEF Sound, Staged, Runs, Stops

\* A resolution never overdraws a budget, never loses a die value and leaves
\* the revision alone; if it did not refuse the intent outright, an intent of
\* a cell action has a cell.
THEOREM ResolveEmbeddedSound ==
    ASSUME NEW s \in States, Solvent(s), NEW evidence \in Seq(Values),
           NEW i \in Intents, NEW decision
    PROVE  Sound(ResolveEmbedded(s, evidence, i, decision), s, evidence)
<1> DEFINE staged   == Staged(s, evidence)
           legal    == Begin(staged, i)
           checked  == ResolveChecks(legal, i)
           executed == ExecuteProgram(checked, i, decision)
<1>1. Sound(staged, s, evidence)
    BY StagedSound
<1>2. Sound(legal, s, evidence)
  <2>1. Actions[i.action].costs \in [Budgets -> Nat]
      BY ActionFields DEF ActionRecords
  <2> HIDE DEF staged
  <2> QED
      BY <1>1, <2>1, ActionFields, SpendActivationSound, StopSound DEF Begin, Stops
<1>3. Sound(checked, s, evidence)
  <2> HIDE DEF legal
  <2> QED
      BY <1>2, ResolveChecksSound
<1>4. Sound(executed, s, evidence)
  <2>1. CASE Bound(i)
    <3> HIDE DEF checked
    <3> QED
        BY <1>3, <2>1, ExecuteProgramSound
  <2>2. CASE ~Bound(i)
    <3>1. ~LegalIntent(staged.state, i)
        BY <2>2 DEF Bound, LegalIntent
    <3>2. ~Running(legal)
        BY <3>1 DEF Begin, Running, Stop, Staged
    <3>3. checked = legal
        BY <3>2 DEF ResolveChecks
    <3>4. executed = legal
        BY <3>2, <3>3 DEF ExecuteProgram, Operate
    <3> QED
        BY <1>2, <3>4
  <2> QED
      BY <2>1, <2>2
<1>5. ResolveEmbedded(s, evidence, i, decision) \in {executed, Stop(executed, "illegal")}
    BY DEF ResolveEmbedded, DecisionUsed
<1> HIDE DEF executed
<1> QED
    BY <1>4, <1>5, StopSound DEF Stops

\* A completed command advances the revision by one.
THEOREM ResolveAdvances ==
    ASSUME NEW s \in States, Solvent(s), NEW evidence \in Seq(Values),
           NEW i \in Intents, NEW decision
    PROVE  LET r == Resolve(s, evidence, i, decision)
           IN  /\ r \in Runs
               /\ Solvent(r.state)
               /\ r.used \o r.left = evidence
               /\ Running(r) => r.state.revision = s.revision + 1
<1> DEFINE e == ResolveEmbedded(s, evidence, i, decision)
           x == [e.state EXCEPT !.revision = e.state.revision + 1]
<1>1. Sound(e, s, evidence)
    BY ResolveEmbeddedSound
<1> HIDE DEF e
<1>2. CASE ~Running(e)
    BY <1>1, <1>2 DEF Resolve, AdvanceRevision, Sound, e
<1>3. CASE Running(e)
  <2>1. e.state \in States /\ e \in Runs /\ e.state.revision = s.revision /\ s.revision \in Nat
      BY <1>1 DEF Sound, Runs, States
  <2>2. x \in States /\ Solvent(x) /\ x.revision = s.revision + 1
    <3>1. e.state.revision + 1 \in Nat /\ e.state.revision + 1 = s.revision + 1
        BY <2>1
    <3>2. Solvent(e.state)
        BY <1>1 DEF Sound
    <3> QED
        BY <2>1, <3>1, <3>2, RevisionUpdate
  <2>3. Resolve(s, evidence, i, decision) = [e EXCEPT !.state = x]
      BY <1>3, <2>1 DEF Resolve, AdvanceRevision, Runs, States, e
  <2> HIDE DEF x
  <2> QED
      BY <1>1, <2>1, <2>2, <2>3 DEF Sound, Runs
<1> QED
    BY <1>2, <1>3

-------------------------------------------------------------------------------
(* Who is moved by a resolution. *)

\* The run "q" has moved nobody whom the run "r" has not.
Unmoved(q, r) == q.voluntary = r.voluntary /\ q.state.position = r.state.position

\* What a run of the intent "i" from the state "s" may have moved: a step its
\* actor, to the cell it names; another command nobody by itself, and only a
\* bound forced movement anybody at all.
Moved(r, s, i) ==
    LET c == CHOOSE d \in i.cells : TRUE
    IN  IF Actions[i.action].targets = "cell"
        THEN \/ r.voluntary = {} /\ r.state.position = s.position
             \/ /\ r.voluntary = {[mover |-> i.actor, start |-> s.position[i.actor], end |-> c]}
                /\ r.state.position = [s.position EXCEPT ![i.actor] = c]
        ELSE /\ r.voluntary = {}
             /\ i.cells = {} => r.state.position = s.position

\* Stopping a run moves nobody.
LEMMA StopUnmoved ==
    ASSUME NEW r \in Runs, NEW why
    PROVE  Unmoved(Stop(r, why), r)
BY DEF Unmoved, Stop, Runs

\* Taking a die value moves nobody.
LEMMA TakeRandomUnmoved ==
    ASSUME NEW r \in Runs
    PROVE  Unmoved(TakeRandom(r), r)
<1>1. CASE r.left = <<>>
    BY <1>1, StopUnmoved DEF TakeRandom
<1>2. CASE r.left # <<>> /\ Head(r.left) \notin Rolls
    BY <1>2, StopUnmoved DEF TakeRandom
<1>3. CASE r.left # <<>> /\ Head(r.left) \in Rolls
    BY <1>3 DEF TakeRandom, Unmoved, Runs
<1> QED
    BY <1>1, <1>2, <1>3

\* Paying for an activation moves nobody.
LEMMA SpendActivationUnmoved ==
    ASSUME NEW r \in Runs, NEW p, NEW costs
    PROVE  Unmoved(SpendActivation(r, p, costs), r)
<1>1. CASE Economy = "fixed"
    BY <1>1 DEF SpendActivation, Unmoved
<1>2. CASE Economy # "fixed" /\ ~Payable(r.state, p, costs)
    BY <1>2, StopUnmoved DEF SpendActivation
<1>3. CASE Economy # "fixed" /\ Payable(r.state, p, costs)
  <2> DEFINE left(before) == [b \in Budgets |-> before[b] - costs[b]]
  <2>1. SpendActivation(r, p, costs) =
           [r EXCEPT !.state.activations = @ + 1, !.state.budget[p] = left(@)]
      BY <1>3 DEF SpendActivation
  <2> HIDE DEF left
  <2> QED
      BY <2>1 DEF Unmoved, Runs, States
<1> QED
    BY <1>1, <1>2, <1>3

\* The check of an action moves nobody.
LEMMA ResolveChecksUnmoved ==
    ASSUME NEW r \in Runs, NEW i
    PROVE  Unmoved(ResolveChecks(r, i), r)
<1> DEFINE rolled == TakeRandom(r)
           hit    == Rolled(rolled) = "high"
<1>1. CASE ~Running(r) \/ ~Actions[i.action].check
    BY <1>1 DEF ResolveChecks, Unmoved
<1>2. CASE Running(r) /\ Actions[i.action].check /\ ~Running(rolled)
    BY <1>2, TakeRandomUnmoved DEF ResolveChecks
<1>3. CASE Running(r) /\ Actions[i.action].check /\ Running(rolled)
  <2>1. ResolveChecks(r, i) = [rolled EXCEPT !.hit = hit]
      BY <1>3 DEF ResolveChecks
  <2>2. Unmoved(rolled, r)
      BY TakeRandomUnmoved
  <2>3. rolled.voluntary = [rolled EXCEPT !.hit = hit].voluntary
        /\ rolled.state = [rolled EXCEPT !.hit = hit].state
    <3> HIDE DEF rolled, hit
    <3> QED
        OBVIOUS
  <2> HIDE DEF rolled, hit
  <2> QED
      BY <2>1, <2>2, <2>3 DEF Unmoved
<1> QED
    BY <1>1, <1>2, <1>3

\* A reaction window moves nobody.
LEMMA OpenReactionUnmoved ==
    ASSUME NEW r \in Runs, NEW i, NEW decision
    PROVE  Unmoved(OpenReaction(r, i, decision), r)
<1> DEFINE a     == Actions[i.action]
           spent == IF decision = "accept" THEN SpendActivation(r, i.target, a.guard) ELSE r
           n     == IF decision = "accept" THEN a.reduction ELSE 0
<1>1. Unmoved(spent, r)
    BY SpendActivationUnmoved DEF Unmoved
<1>2. CASE r.decided \/ decision = "none"
  <2>1. OpenReaction(r, i, decision) \in {Stop(r, "illegal"), Stop(r, "reaction")}
      BY <1>2 DEF OpenReaction, Runs
  <2> QED
      BY <2>1, StopUnmoved
<1>3. CASE ~r.decided /\ decision # "none" /\ ~Running(spent)
    BY <1>1, <1>3 DEF OpenReaction
<1>4. CASE ~r.decided /\ decision # "none" /\ Running(spent)
  <2>1. OpenReaction(r, i, decision) = [spent EXCEPT !.decided = TRUE, !.reduction = n]
      BY <1>4 DEF OpenReaction
  <2> HIDE DEF spent, n
  <2> QED
      BY <1>1, <2>1 DEF Unmoved
<1> QED
    BY <1>2, <1>3, <1>4

\* Damage moves nobody.
LEMMA DamageUnmoved ==
    ASSUME NEW r, NEW s, NEW evidence, Sound(r, s, evidence), NEW i
    PROVE  Unmoved(Damage(r, i), r)
<1> DEFINE a      == Actions[i.action]
           rolled == IF a.dice THEN TakeRandom(r) ELSE r
           amount == Amount(rolled, a)
           after(before) == IF before <= amount THEN 0 ELSE before - amount
<1>1. Unmoved(rolled, r) /\ rolled \in Runs
    BY TakeRandomUnmoved, TakeRandomSound DEF Unmoved, Sound
<1>2. CASE ~Running(rolled)
    BY <1>1, <1>2 DEF Damage
<1>3. CASE Running(rolled)
  <2>1. Damage(r, i) =
           [rolled EXCEPT !.reduction = 0, !.state.vitality[i.target] = after(@)]
      BY <1>3 DEF Damage
  <2> HIDE DEF after, rolled
  <2> QED
      BY <1>1, <2>1 DEF Unmoved, Runs, States
<1> QED
    BY <1>2, <1>3

\* Applying an effect moves nobody.
LEMMA ApplyEffectUnmoved ==
    ASSUME NEW r \in Runs, NEW i
    PROVE  Unmoved(ApplyEffect(r, i), r)
BY DEF ApplyEffect, Unmoved, Runs, States

\* A run that moved nobody since has moved whom it had moved.
LEMMA UnmovedMoved ==
    ASSUME NEW q, NEW r, NEW s, NEW i, Unmoved(q, r), Moved(r, s, i)
    PROVE  Moved(q, s, i)
BY DEF Unmoved, Moved

\* A step moves its actor to the cell it names, once.
LEMMA MoveToCellMoves ==
    ASSUME NEW r, NEW s \in States, NEW evidence, Sound(r, s, evidence), Running(r),
           NEW i \in Intents, i.cells # {}, Actions[i.action].targets = "cell",
           Moved(r, s, i)
    PROVE  Moved(MoveToCell(r, i), s, i)
<1> DEFINE c       == CHOOSE d \in i.cells : TRUE
           p       == i.actor
           start   == r.state.position[p]
           maximum == Actions[i.action].distance
           cost    == Distance(start, c)
           moved   == MoveEntity(r, p, c, maximum)
           poor    == \E b \in Allowance : r.state.budget[p][b] < cost
           left(before) == [b \in Budgets |-> IF b \in Allowance
                                              THEN before[b] - cost ELSE before[b]]
           steps   == {[mover |-> p, start |-> start, end |-> c]}
<1>1. /\ c \in Cells
      /\ p \in Participants
      /\ start \in Cells
      /\ r \in Runs
      /\ r.state.position \in [Participants -> Cells]
      /\ s.position \in [Participants -> Cells]
      /\ maximum \in Nat
    BY ActionFields DEF Sound, Runs, States, ActionRecords
<1>2. CASE cost \notin 1 .. maximum
  <2>1. moved = Stop(r, "illegal") /\ ~Running(moved)
      BY <1>1, <1>2 DEF MoveEntity, Running, Stop, Runs
  <2>2. MoveToCell(r, i) = Stop(r, "illegal")
      BY <2>1 DEF MoveToCell
  <2> QED
      BY <1>1, <2>2, StopUnmoved, UnmovedMoved
<1>3. CASE cost \in 1 .. maximum
  <2>1. start # c
    <3>1. Distance(c, c) = 0
        BY <1>1, BoardAssumption DEF Distance, Cells
    <3>2. start = c => cost = 0
        BY <3>1
    <3>3. cost # 0
      <4> HIDE DEF cost, maximum
      <4> QED
          BY <1>1, <1>3
    <3> QED
        BY <3>2, <3>3
  <2>2. start = s.position[p] /\ r.state.position = s.position
    <3>1. [s.position EXCEPT ![p] = c][p] = c
        BY <1>1
    <3> QED
        BY <2>1, <3>1 DEF Moved
  <2>3. moved = [r EXCEPT !.state.position[p] = c] /\ Running(moved)
      BY <1>1, <1>3 DEF MoveEntity, Running, Runs
  <2>4. moved \in Runs
      BY <1>1, MoveEntitySound DEF Sound
  <2>5. moved.state.position = [s.position EXCEPT ![p] = c]
    <3> HIDE DEF c, moved
    <3>1. moved.state.position = [r.state.position EXCEPT ![p] = c]
        BY <1>1, <2>3 DEF Runs, States
    <3> QED
        BY <2>2, <3>1
  <2>6. CASE poor
    <3>1. MoveToCell(r, i) = Stop(r, "illegal")
        BY <2>3, <2>6 DEF MoveToCell
    <3> QED
        BY <1>1, <3>1, StopUnmoved, UnmovedMoved
  <2>7. CASE ~poor
    <3>1. MoveToCell(r, i) =
             [moved EXCEPT !.state.budget[p] = left(@), !.voluntary = steps]
        BY <2>3, <2>7 DEF MoveToCell
    <3>2. steps = {[mover |-> p, start |-> s.position[p], end |-> c]}
        BY <2>2
    <3> HIDE DEF moved, left, steps
    <3>3. MoveToCell(r, i).state.position = moved.state.position
          /\ MoveToCell(r, i).voluntary = steps
        BY <2>4, <3>1 DEF Runs, States
    <3> QED
        BY <2>5, <3>2, <3>3 DEF Moved
  <2> QED
      BY <2>6, <2>7
<1> QED
    BY <1>2, <1>3

\* A forced movement moves nobody before the host has bound it.
LEMMA ForcedMovementMoves ==
    ASSUME NEW r \in Runs, NEW s, NEW i \in Intents,
           Actions[i.action].targets # "cell", Moved(r, s, i)
    PROVE  Moved(ForcedMovement(r, i), s, i)
<1>1. CASE i.cells = {}
    BY <1>1, StopUnmoved, UnmovedMoved DEF ForcedMovement
<1>2. CASE i.cells # {}
  <2> DEFINE c == CHOOSE d \in i.cells : TRUE
             p == i.target
  <2>1. ForcedMovement(r, i) \in {[r EXCEPT !.state.position[p] = c], Stop(r, "illegal")}
      BY <1>2 DEF ForcedMovement, MoveEntity
  <2> HIDE DEF c
  <2>2. ForcedMovement(r, i).voluntary = r.voluntary
      BY <2>1 DEF Stop, Runs
  <2> QED
      BY <1>2, <2>2 DEF Moved
<1> QED
    BY <1>1, <1>2

\* An operation moves no more than its intent allows.
LEMMA OperateMoves ==
    ASSUME NEW r, NEW s \in States, NEW evidence, Sound(r, s, evidence),
           NEW i \in Intents, Bound(i), NEW decision, NEW k \in 1 .. 3, Moved(r, s, i)
    PROVE  Moved(Operate(r, i, decision, k), s, i)
<1> DEFINE op == Actions[i.action].program[k]
<1>1. op \in Operations /\ r \in Runs
    BY ActionFields DEF ActionRecords, Sound
<1>2. CASE op = "none" \/ ~Running(r) \/ ~r.hit
    BY <1>2 DEF Operate
<1>3. CASE op = "window" /\ Running(r) /\ r.hit
    BY <1>1, <1>3, OpenReactionUnmoved, UnmovedMoved DEF Operate
<1>4. CASE op = "strike" /\ Running(r) /\ r.hit
    BY <1>4, DamageUnmoved, UnmovedMoved DEF Operate
<1>5. CASE op = "shift" /\ Running(r) /\ r.hit
  <2>1. Actions[i.action].targets # "cell"
      BY <1>5, ActionFields DEF Compiled
  <2> QED
      BY <1>1, <1>5, <2>1, ForcedMovementMoves DEF Operate
<1>6. CASE op = "step" /\ Running(r) /\ r.hit
  <2>1. Actions[i.action].targets = "cell" /\ i.cells # {}
      BY <1>6, ActionFields DEF Compiled, Bound
  <2> QED
      BY <1>6, <2>1, MoveToCellMoves DEF Operate
<1>7. CASE op = "afflict" /\ Running(r) /\ r.hit
    BY <1>1, <1>7, ApplyEffectUnmoved, UnmovedMoved DEF Operate
<1> QED
    BY <1>1, <1>2, <1>3, <1>4, <1>5, <1>6, <1>7 DEF Operations

\* The whole program of a command moves no more than its intent allows.
LEMMA ResolveEmbeddedMoves ==
    ASSUME NEW s \in States, Solvent(s), NEW evidence \in Seq(Values),
           NEW i \in Intents, NEW decision
    PROVE  Moved(ResolveEmbedded(s, evidence, i, decision), s, i)
<1> DEFINE staged   == Staged(s, evidence)
           legal    == Begin(staged, i)
           checked  == ResolveChecks(legal, i)
           first    == Operate(checked, i, decision, 1)
           second   == Operate(first, i, decision, 2)
           executed == ExecuteProgram(checked, i, decision)
<1>1. Sound(staged, s, evidence) /\ Moved(staged, s, i)
    BY StagedSound DEF Moved, Staged
<1>2. Actions[i.action].costs \in [Budgets -> Nat]
    BY ActionFields DEF ActionRecords
<1>3. Sound(legal, s, evidence) /\ Moved(legal, s, i)
  <2> HIDE DEF staged
  <2>1. Unmoved(legal, staged)
      BY <1>1, SpendActivationUnmoved, StopUnmoved DEF Begin, Sound
  <2>2. Sound(legal, s, evidence)
      BY <1>1, <1>2, ActionFields, SpendActivationSound, StopSound DEF Begin, Stops
  <2> QED
      BY <1>1, <2>1, <2>2, UnmovedMoved
<1>4. Sound(checked, s, evidence) /\ Moved(checked, s, i)
  <2> HIDE DEF legal
  <2>1. Unmoved(checked, legal)
      BY <1>3, ResolveChecksUnmoved DEF Sound
  <2> QED
      BY <1>3, <2>1, ResolveChecksSound, UnmovedMoved
<1>5. Sound(executed, s, evidence) /\ Moved(executed, s, i)
  <2>1. CASE Bound(i)
    <3> HIDE DEF checked
    <3>1. Sound(first, s, evidence) /\ Moved(first, s, i)
        BY <1>4, <2>1, OperateSound, OperateMoves
    <3> HIDE DEF first
    <3>2. Sound(second, s, evidence) /\ Moved(second, s, i)
        BY <2>1, <3>1, OperateSound, OperateMoves
    <3>3. executed = Operate(second, i, decision, 3)
        BY DEF ExecuteProgram, first
    <3> HIDE DEF second, executed
    <3> QED
        BY <2>1, <3>2, <3>3, OperateSound, OperateMoves
  <2>2. CASE ~Bound(i)
    <3>1. ~LegalIntent(staged.state, i)
        BY <2>2 DEF Bound, LegalIntent
    <3>2. ~Running(legal)
        BY <3>1 DEF Begin, Running, Stop, Staged
    <3>3. checked = legal
        BY <3>2 DEF ResolveChecks
    <3>4. executed = legal
        BY <3>2, <3>3 DEF ExecuteProgram, Operate
    <3> QED
        BY <1>3, <3>4
  <2> QED
      BY <2>1, <2>2
<1>6. ResolveEmbedded(s, evidence, i, decision) \in {executed, Stop(executed, "illegal")}
    BY DEF ResolveEmbedded, DecisionUsed
<1> HIDE DEF executed
<1> QED
    BY <1>5, <1>6, StopUnmoved, UnmovedMoved DEF Sound

\* A resolution moves no more than its intent allows.
THEOREM ResolveMoves ==
    ASSUME NEW s \in States, Solvent(s), NEW evidence \in Seq(Values),
           NEW i \in Intents, NEW decision
    PROVE  Moved(Resolve(s, evidence, i, decision), s, i)
<1> DEFINE e == ResolveEmbedded(s, evidence, i, decision)
           r == Resolve(s, evidence, i, decision)
           x == [e.state EXCEPT !.revision = e.state.revision + 1]
<1>1. Moved(e, s, i) /\ e \in Runs /\ e.state \in States
    BY ResolveEmbeddedMoves, ResolveEmbeddedSound DEF Sound, Runs
<1>2. r = IF Running(e) THEN [e EXCEPT !.state = x] ELSE e
  <2> HIDE DEF e
  <2> QED
      BY <1>1 DEF Resolve, AdvanceRevision, Runs, States, e
<1>3. Unmoved(r, e)
  <2> HIDE DEF e, r
  <2> QED
      BY <1>1, <1>2 DEF Unmoved, Runs, States
<1> QED
    BY <1>1, <1>3, UnmovedMoved

-------------------------------------------------------------------------------
(* A resolution that is given more die values than it was given before takes *)
(* the same way, as far as it went: what a suspended command relies on when  *)
(* it is resolved again with its answer.                                     *)

\* The run "r" with the die values "values" left.
Supplied(r, values) == [r EXCEPT !.left = values]

\* The run "r" with the die values "values" after those it has left.
Extended(r, values) == Supplied(r, r.left \o values)

\* What is left is one field of a run, apart from the others.
LEMMA SuppliedFields ==
    ASSUME NEW r \in Runs, NEW v \in Seq(Values)
    PROVE  /\ Supplied(r, v) \in Runs
           /\ Supplied(r, v).left = v
           /\ Supplied(r, v).stop = r.stop
           /\ Supplied(r, v).state = r.state
           /\ Supplied(r, v).used = r.used
           /\ Supplied(r, v).hit = r.hit
           /\ Supplied(r, v).reduction = r.reduction
           /\ Supplied(r, v).decided = r.decided
           /\ Supplied(r, v).voluntary = r.voluntary
           /\ Supplied(r, r.left) = r
           /\ \A w : Supplied(Supplied(r, w), v) = Supplied(r, v)
<1>1. /\ Supplied(r, v) \in Runs
      /\ Supplied(r, v).left = v
      /\ Supplied(r, v).stop = r.stop
      /\ Supplied(r, v).state = r.state
      /\ Supplied(r, v).used = r.used
      /\ Supplied(r, v).hit = r.hit
      /\ Supplied(r, v).reduction = r.reduction
      /\ Supplied(r, v).decided = r.decided
      /\ Supplied(r, v).voluntary = r.voluntary
    BY DEF Supplied, Runs
<1>2. Supplied(r, r.left) = r
    BY DEF Supplied, Runs
<1>3. \A w : Supplied(Supplied(r, w), v) = Supplied(r, v)
    BY DEF Supplied, Runs
<1> QED
    BY <1>1, <1>2, <1>3

\* More values can be promised in two parts.
LEMMA ExtendedTwice ==
    ASSUME NEW r \in Runs, NEW u \in Seq(Values), NEW v \in Seq(Values)
    PROVE  /\ Extended(r, u) \in Runs
           /\ Extended(Extended(r, u), v) = Extended(r, u \o v)
           /\ r.left = <<>> => Extended(r, v) = Supplied(r, v)
           /\ r.left \in Seq(Values)
           /\ r.left \o v \in Seq(Values)
<1>1. r.left \in Seq(Values)
    BY DEF Runs
<1>2. r.left \o u \in Seq(Values) /\ r.left \o v \in Seq(Values) /\ u \o v \in Seq(Values)
    BY <1>1, ConcatProperties
<1>3. (r.left \o u) \o v = r.left \o (u \o v)
  <2>1. \A x, y, z \in Seq(Values) : (x \o y) \o z = x \o (y \o z)
      BY ConcatAssociative
  <2> QED
      BY <1>1, <2>1
<1>4. r.left = <<>> => r.left \o v = v
    BY ConcatEmptySeq
<1> DEFINE a == r.left \o u
           b == r.left \o (u \o v)
<1>5. a \in Seq(Values) /\ b \in Seq(Values) /\ a \o v = b
    BY <1>1, <1>2, <1>3, ConcatProperties
<1>6. Extended(r, u) = Supplied(r, a) /\ Extended(r, u \o v) = Supplied(r, b)
    BY DEF Extended
<1> HIDE DEF a, b
<1>7. Supplied(r, a) \in Runs /\ Supplied(r, a).left = a
    BY <1>5, SuppliedFields
<1>8. Extended(Supplied(r, a), v) = Supplied(Supplied(r, a), b)
    BY <1>5, <1>7 DEF Extended
<1>9. Supplied(Supplied(r, a), b) = Supplied(r, b)
    BY <1>5, SuppliedFields
<1>10. r.left = <<>> => Extended(r, v) = Supplied(r, v)
    BY <1>4 DEF Extended
<1> QED
    BY <1>1, <1>2, <1>6, <1>7, <1>8, <1>9, <1>10

\* An extended run differs in what is left only.
LEMMA ExtendedFields ==
    ASSUME NEW r \in Runs, NEW v \in Seq(Values)
    PROVE  /\ Extended(r, v) \in Runs
           /\ Extended(r, v).left = r.left \o v
           /\ Extended(r, v).stop = r.stop
           /\ Extended(r, v).state = r.state
           /\ Extended(r, v).used = r.used
           /\ Extended(r, v).hit = r.hit
           /\ Extended(r, v).reduction = r.reduction
           /\ Extended(r, v).decided = r.decided
           /\ Extended(r, v).voluntary = r.voluntary
<1> DEFINE w == r.left \o v
<1>1. w \in Seq(Values) /\ Extended(r, v) = Supplied(r, w)
    BY ExtendedTwice DEF Extended
<1> HIDE DEF w
<1>2. /\ Supplied(r, w) \in Runs
      /\ Supplied(r, w).left = w
      /\ Supplied(r, w).stop = r.stop
      /\ Supplied(r, w).state = r.state
      /\ Supplied(r, w).used = r.used
      /\ Supplied(r, w).hit = r.hit
      /\ Supplied(r, w).reduction = r.reduction
      /\ Supplied(r, w).decided = r.decided
      /\ Supplied(r, w).voluntary = r.voluntary
    BY <1>1, SuppliedFields
<1> QED
    BY <1>1, <1>2 DEF w

\* The first value of two parts is the first of the first part.
LEMMA HeadTailConcat ==
    ASSUME NEW S, NEW u \in Seq(S), NEW v \in Seq(S), u # <<>>
    PROVE  /\ u \o v \in Seq(S)
           /\ u \o v # <<>>
           /\ Head(u \o v) = Head(u)
           /\ Tail(u \o v) = Tail(u) \o v
<1> DEFINE w     == u \o v
           right == Tail(u) \o v
<1>1. /\ Tail(u) \in Seq(S)
      /\ Len(Tail(u)) = Len(u) - 1
      /\ Head(u) = u[1]
      /\ \A i \in 1 .. Len(u) - 1 : Tail(u)[i] = u[i + 1]
    BY HeadTailProperties
<1>2. Len(u) \in Nat /\ Len(v) \in Nat /\ Len(u) > 0
    BY LenProperties, EmptySeq
<1>3. /\ w \in Seq(S)
      /\ Len(w) = Len(u) + Len(v)
      /\ \A i \in 1 .. Len(u) + Len(v) : w[i] = IF i <= Len(u) THEN u[i] ELSE v[i - Len(u)]
    BY ConcatProperties
<1>4. /\ right \in Seq(S)
      /\ Len(right) = Len(u) - 1 + Len(v)
      /\ \A i \in 1 .. Len(u) - 1 + Len(v) :
            right[i] = IF i <= Len(u) - 1 THEN Tail(u)[i] ELSE v[i - (Len(u) - 1)]
    BY <1>1, ConcatProperties
<1> HIDE DEF w, right
<1>5. w # <<>>
    BY <1>2, <1>3, EmptySeq
<1>6. /\ Head(w) = w[1]
      /\ Tail(w) \in Seq(S)
      /\ Len(Tail(w)) = Len(w) - 1
      /\ \A i \in 1 .. Len(w) - 1 : Tail(w)[i] = w[i + 1]
    BY <1>3, <1>5, HeadTailProperties
<1>7. Head(w) = Head(u)
    BY <1>1, <1>2, <1>3, <1>6
<1>8. ASSUME NEW i \in 1 .. Len(u) - 1 + Len(v)
      PROVE  Tail(w)[i] = right[i]
  <2>1. Tail(w)[i] = w[i + 1] /\ i + 1 \in 1 .. Len(u) + Len(v)
      BY <1>2, <1>3, <1>6
  <2>2. CASE i <= Len(u) - 1
      BY <1>1, <1>2, <1>3, <1>4, <2>1, <2>2
  <2>3. CASE i > Len(u) - 1
      BY <1>1, <1>2, <1>3, <1>4, <2>1, <2>3
  <2>4. i <= Len(u) - 1 \/ i > Len(u) - 1
      BY <1>2
  <2> QED
      BY <2>2, <2>3, <2>4
<1>9. Tail(w) = right
    BY <1>2, <1>3, <1>4, <1>6, <1>8, SeqEqual
<1> QED
    BY <1>3, <1>5, <1>7, <1>9 DEF w, right

\* A die value that was there is there when more of them follow.
LEMMA TakeRandomExtended ==
    ASSUME NEW r \in Runs, NEW v \in Seq(Values), Running(TakeRandom(r))
    PROVE  /\ TakeRandom(r) \in Runs
           /\ TakeRandom(Extended(r, v)) = Extended(TakeRandom(r), v)
<1>1. r.left \in Seq(Values) /\ r.used \in Seq(Rolls)
    BY DEF Runs
<1>2. r.left # <<>> /\ Head(r.left) \in Rolls
  <2>1. r.left = <<>> => TakeRandom(r) = Stop(r, "evidence")
      BY DEF TakeRandom
  <2>2. r.left # <<>> /\ Head(r.left) \notin Rolls => TakeRandom(r) = Stop(r, "illegal")
      BY DEF TakeRandom
  <2>3. ~Running(Stop(r, "evidence")) /\ ~Running(Stop(r, "illegal"))
      BY DEF Running, Stop, Runs
  <2> QED
      BY <2>1, <2>2, <2>3
<1> DEFINE h == Head(r.left)
           t == Tail(r.left)
           used == Append(r.used, h)
<1>3. /\ TakeRandom(r) = [r EXCEPT !.left = t, !.used = used]
      /\ t \in Seq(Values)
      /\ used \in Seq(Rolls)
    BY <1>1, <1>2, HeadTailProperties, AppendProperties DEF TakeRandom
<1> DEFINE w == r.left \o v
<1>4. w \in Seq(Values) /\ w # <<>> /\ Head(w) = h /\ Tail(w) = t \o v
    BY <1>1, <1>2, HeadTailConcat
<1>5. Extended(r, v) = Supplied(r, w) /\ Extended(r, v).left = w /\ Extended(r, v).used = r.used
    BY <1>4, SuppliedFields DEF Extended
<1>6. TakeRandom(Extended(r, v)) = [Supplied(r, w) EXCEPT !.left = t \o v, !.used = used]
  <2> HIDE DEF w
  <2> QED
      BY <1>2, <1>4, <1>5 DEF TakeRandom
<1> HIDE DEF h, t, used, w
<1>7. TakeRandom(r) \in Runs /\ TakeRandom(r).left = t
    BY <1>3 DEF Runs
<1>8. [Supplied(r, w) EXCEPT !.left = t \o v, !.used = used]
         = Supplied([r EXCEPT !.left = t, !.used = used], t \o v)
    BY DEF Supplied, Runs
<1> QED
    BY <1>3, <1>6, <1>7, <1>8 DEF Extended

\* Payment does not look at the die values.
LEMMA SpendActivationExtended ==
    ASSUME NEW r \in Runs, NEW v \in Seq(Values), NEW p, NEW costs
    PROVE  /\ SpendActivation(r, p, costs).left = r.left
           /\ SpendActivation(r, p, costs).stop \in {r.stop, "illegal"}
           /\ SpendActivation(Supplied(r, v), p, costs)
                 = Supplied(SpendActivation(r, p, costs), v)
<1>1. Supplied(r, v).state = r.state
    BY SuppliedFields
<1>2. CASE Economy = "fixed"
    BY <1>2 DEF SpendActivation
<1>3. CASE Economy # "fixed" /\ ~Payable(r.state, p, costs)
  <2>1. /\ SpendActivation(r, p, costs) = [r EXCEPT !.stop = "illegal"]
        /\ SpendActivation(Supplied(r, v), p, costs) = [Supplied(r, v) EXCEPT !.stop = "illegal"]
      BY <1>1, <1>3 DEF SpendActivation, Stop
  <2>2. /\ [r EXCEPT !.stop = "illegal"].left = r.left
        /\ [r EXCEPT !.stop = "illegal"].stop = "illegal"
        /\ [Supplied(r, v) EXCEPT !.stop = "illegal"] = Supplied([r EXCEPT !.stop = "illegal"], v)
      BY DEF Supplied, Runs
  <2> QED
      BY <2>1, <2>2
<1>4. CASE Economy # "fixed" /\ Payable(r.state, p, costs)
  <2> DEFINE left(before) == [b \in Budgets |-> before[b] - costs[b]]
             budget == [r.state.budget EXCEPT ![p] = left(r.state.budget[p])]
             x == [r.state EXCEPT !.activations = r.state.activations + 1,
                                  !.budget = budget]
  <2>1. /\ SpendActivation(r, p, costs) =
              [r EXCEPT !.state.activations = @ + 1, !.state.budget[p] = left(@)]
        /\ SpendActivation(Supplied(r, v), p, costs) =
              [Supplied(r, v) EXCEPT !.state.activations = @ + 1, !.state.budget[p] = left(@)]
      BY <1>1, <1>4 DEF SpendActivation
  <2> HIDE DEF left
  <2>2. /\ [r EXCEPT !.state.activations = @ + 1, !.state.budget[p] = left(@)]
              = [r EXCEPT !.state = x]
        /\ [Supplied(r, v) EXCEPT !.state.activations = @ + 1, !.state.budget[p] = left(@)]
              = [Supplied(r, v) EXCEPT !.state = x]
      BY <1>1, SuppliedFields DEF Runs, States
  <2> HIDE DEF x
  <2>3. /\ [r EXCEPT !.state = x].left = r.left
        /\ [r EXCEPT !.state = x].stop = r.stop
        /\ [Supplied(r, v) EXCEPT !.state = x] = Supplied([r EXCEPT !.state = x], v)
      BY DEF Supplied, Runs
  <2> QED
      BY <2>1, <2>2, <2>3
<1> QED
    BY <1>2, <1>3, <1>4

\* A check that was rolled is rolled the same when more values follow.
LEMMA ResolveChecksExtended ==
    ASSUME NEW r \in Runs, NEW v \in Seq(Values), NEW i, Running(ResolveChecks(r, i))
    PROVE  /\ Running(r)
           /\ ResolveChecks(r, i) \in Runs
           /\ ResolveChecks(Extended(r, v), i) = Extended(ResolveChecks(r, i), v)
<1>1. Running(Extended(r, v)) <=> Running(r)
    BY ExtendedFields DEF Running
<1>3. CASE ~Running(r) \/ ~Actions[i.action].check
    BY <1>1, <1>3 DEF ResolveChecks
<1>4. CASE Running(r) /\ Actions[i.action].check
  <2> DEFINE rolled == TakeRandom(r)
             longer == TakeRandom(Extended(r, v))
             hit    == Rolled(rolled) = "high"
  <2>1. Running(rolled)
      BY <1>4 DEF ResolveChecks
  <2>2. rolled \in Runs /\ longer = Extended(rolled, v)
      BY <2>1, TakeRandomExtended
  <2>3. ResolveChecks(r, i) = [rolled EXCEPT !.hit = hit] /\ hit \in BOOLEAN
      BY <1>4, <2>1 DEF ResolveChecks
  <2>4. ResolveChecks(Extended(r, v), i) = IF Running(longer)
                                           THEN [longer EXCEPT !.hit = (Rolled(longer) = "high")]
                                           ELSE longer
      BY <1>1, <1>4 DEF ResolveChecks
  <2> HIDE DEF rolled, longer
  <2>5. Running(longer) /\ Rolled(longer) = Rolled(rolled)
      BY <2>1, <2>2, ExtendedFields DEF Running, Rolled
  <2>6. ResolveChecks(Extended(r, v), i) = [Extended(rolled, v) EXCEPT !.hit = hit]
      BY <2>2, <2>4, <2>5
  <2> HIDE DEF hit
  <2>7. /\ [rolled EXCEPT !.hit = hit] \in Runs
        /\ [Extended(rolled, v) EXCEPT !.hit = hit] = Extended([rolled EXCEPT !.hit = hit], v)
      BY <2>2, <2>3 DEF Extended, Supplied, Runs
  <2> QED
      BY <1>4, <2>2, <2>3, <2>6, <2>7
<1>5. r \in Runs /\ (Running(ResolveChecks(r, i)) => Running(r))
    BY DEF ResolveChecks
<1> QED
    BY <1>3, <1>4, <1>5

\* Damage that was rolled is rolled the same when more values follow.
LEMMA DamageExtended ==
    ASSUME NEW r \in Runs, NEW v \in Seq(Values), NEW i, Running(Damage(r, i))
    PROVE  Damage(Extended(r, v), i) = Extended(Damage(r, i), v)
<1> DEFINE a      == Actions[i.action]
           rolled == IF a.dice THEN TakeRandom(r) ELSE r
           longer == IF a.dice THEN TakeRandom(Extended(r, v)) ELSE Extended(r, v)
           amount(q) == Amount(q, a)
           after(q, before) == IF before <= amount(q) THEN 0 ELSE before - amount(q)
<1>1. Running(rolled)
    BY DEF Damage
<1>2. rolled \in Runs /\ longer = Extended(rolled, v)
    BY <1>1, TakeRandomExtended
<1>4. /\ longer \in Runs
      /\ longer.state = rolled.state
      /\ Running(longer)
      /\ longer.used = rolled.used
      /\ longer.reduction = rolled.reduction
  <2> HIDE DEF rolled, longer
  <2> QED
      BY <1>1, <1>2, ExtendedFields DEF Running
<1>5. amount(longer) = amount(rolled)
  <2> HIDE DEF rolled, longer
  <2> QED
      BY <1>4 DEF Amount, Rolled
<1>6. /\ Damage(r, i) = [rolled EXCEPT !.reduction = 0,
                                       !.state.vitality[i.target] = after(rolled, @)]
      /\ Damage(Extended(r, v), i) = [longer EXCEPT !.reduction = 0,
                                       !.state.vitality[i.target] = after(longer, @)]
    BY <1>1, <1>4 DEF Damage
<1> HIDE DEF amount
<1>7. \A before : after(longer, before) = after(rolled, before)
    BY <1>5
<1> DEFINE n == after(rolled, rolled.state.vitality[i.target])
           x == [rolled.state EXCEPT !.vitality = [@ EXCEPT ![i.target] = n]]
<1> HIDE DEF rolled, longer, after
<1>8. Damage(r, i) = [rolled EXCEPT !.reduction = 0, !.state = x]
    BY <1>2, <1>6 DEF Runs, States
<1>9. Damage(Extended(r, v), i) = [longer EXCEPT !.reduction = 0, !.state = x]
  <2>1. after(longer, longer.state.vitality[i.target]) = n
      BY <1>4, <1>7
  <2> QED
      BY <1>4, <1>6, <2>1 DEF Runs, States
<1> HIDE DEF x
<1>10. [Extended(rolled, v) EXCEPT !.reduction = 0, !.state = x]
          = Extended([rolled EXCEPT !.reduction = 0, !.state = x], v)
    BY <1>2 DEF Extended, Supplied, Runs
<1> QED
    BY <1>2, <1>8, <1>9, <1>10

\* A move does not look at the die values.
LEMMA MoveEntityExtended ==
    ASSUME NEW r \in Runs, NEW v \in Seq(Values), NEW p, NEW c, NEW maximum
    PROVE  /\ MoveEntity(r, p, c, maximum).left = r.left
           /\ MoveEntity(Supplied(r, v), p, c, maximum)
                 = Supplied(MoveEntity(r, p, c, maximum), v)
<1>1. Supplied(r, v).state = r.state
    BY SuppliedFields
<1>2. CASE Distance(r.state.position[p], c) \in 1 .. maximum
  <2> DEFINE x == [r.state EXCEPT !.position = [@ EXCEPT ![p] = c]]
  <2>1. /\ MoveEntity(r, p, c, maximum) = [r EXCEPT !.state.position[p] = c]
        /\ MoveEntity(Supplied(r, v), p, c, maximum) = [Supplied(r, v) EXCEPT !.state.position[p] = c]
      BY <1>1, <1>2 DEF MoveEntity
  <2>2. /\ [r EXCEPT !.state.position[p] = c] = [r EXCEPT !.state = x]
        /\ [Supplied(r, v) EXCEPT !.state.position[p] = c] = [Supplied(r, v) EXCEPT !.state = x]
      BY <1>1, SuppliedFields DEF Runs, States
  <2> HIDE DEF x
  <2>3. /\ [r EXCEPT !.state = x].left = r.left
        /\ [Supplied(r, v) EXCEPT !.state = x] = Supplied([r EXCEPT !.state = x], v)
      BY DEF Supplied, Runs
  <2> QED
      BY <2>1, <2>2, <2>3
<1>3. CASE Distance(r.state.position[p], c) \notin 1 .. maximum
  <2>1. /\ MoveEntity(r, p, c, maximum) = [r EXCEPT !.stop = "illegal"]
        /\ MoveEntity(Supplied(r, v), p, c, maximum) = [Supplied(r, v) EXCEPT !.stop = "illegal"]
      BY <1>1, <1>3 DEF MoveEntity, Stop
  <2>2. /\ [r EXCEPT !.stop = "illegal"].left = r.left
        /\ [Supplied(r, v) EXCEPT !.stop = "illegal"] = Supplied([r EXCEPT !.stop = "illegal"], v)
      BY DEF Supplied, Runs
  <2> QED
      BY <2>1, <2>2
<1> QED
    BY <1>2, <1>3

\* The cell of a step, its movement cost, and the run it leaves.
StepCell(i)     == CHOOSE d \in i.cells : TRUE
StepCost(r, i)  == Distance(r.state.position[i.actor], StepCell(i))
StepPaid(r, i)  == [b \in Budgets |->
                       IF b \in Allowance
                       THEN r.state.budget[i.actor][b] - StepCost(r, i)
                       ELSE r.state.budget[i.actor][b]]
StepState(r, i) == [r.state EXCEPT
                       !.position = [@ EXCEPT ![i.actor] = StepCell(i)],
                       !.budget   = [@ EXCEPT ![i.actor] = StepPaid(r, i)]]
StepTaken(r, i) == [mover |-> i.actor, start |-> r.state.position[i.actor], end |-> StepCell(i)]

\* A step within reach: refused when the allowance is short, else moved and paid.
LEMMA MoveToCellCases ==
    ASSUME NEW r \in Runs, NEW i \in Intents, Running(r)
    PROVE  LET within == StepCost(r, i) \in 1 .. Actions[i.action].distance
               poor   == \E b \in Allowance : r.state.budget[i.actor][b] < StepCost(r, i)
           IN  /\ ~within \/ poor => MoveToCell(r, i) = Stop(r, "illegal")
               /\ within /\ ~poor =>
                     MoveToCell(r, i) = [r EXCEPT !.state = StepState(r, i),
                                                  !.voluntary = {StepTaken(r, i)}]
<1> DEFINE c       == CHOOSE d \in i.cells : TRUE
           p       == i.actor
           start   == r.state.position[p]
           maximum == Actions[i.action].distance
           cost    == Distance(start, c)
           moved   == MoveEntity(r, p, c, maximum)
           poor    == \E b \in Allowance : r.state.budget[p][b] < cost
           left(before) == [b \in Budgets |-> IF b \in Allowance
                                              THEN before[b] - cost ELSE before[b]]
           steps   == {[mover |-> p, start |-> start, end |-> c]}
<1>1. /\ c = StepCell(i)
      /\ cost = StepCost(r, i)
      /\ steps = {StepTaken(r, i)}
      /\ left(r.state.budget[p]) = StepPaid(r, i)
    BY DEF StepCell, StepCost, StepTaken, StepPaid
<1>2. ASSUME cost \notin 1 .. maximum PROVE MoveToCell(r, i) = Stop(r, "illegal")
  <2>1. moved = Stop(r, "illegal") /\ ~Running(moved)
      BY <1>2 DEF MoveEntity, Running, Stop, Runs
  <2> QED
      BY <2>1 DEF MoveToCell
<1>3. ASSUME cost \in 1 .. maximum
      PROVE  moved = [r EXCEPT !.state.position[p] = c] /\ Running(moved)
    BY <1>3 DEF MoveEntity, Running, Runs
<1>4. ASSUME cost \in 1 .. maximum, poor PROVE MoveToCell(r, i) = Stop(r, "illegal")
  <2>1. moved = [r EXCEPT !.state.position[p] = c] /\ Running(moved)
      BY <1>3, <1>4
  <2> QED
      BY <1>4, <2>1 DEF MoveToCell
<1>5. ASSUME cost \in 1 .. maximum, ~poor
      PROVE  MoveToCell(r, i) = [r EXCEPT !.state = StepState(r, i), !.voluntary = steps]
  <2>1. moved = [r EXCEPT !.state.position[p] = c] /\ Running(moved)
      BY <1>3, <1>5
  <2>2. MoveToCell(r, i) = [moved EXCEPT !.state.budget[p] = left(@), !.voluntary = steps]
      BY <1>5, <2>1 DEF MoveToCell
  <2> DEFINE paid == left(r.state.budget[p])
             position == [r.state.position EXCEPT ![p] = c]
             budget   == [r.state.budget EXCEPT ![p] = paid]
             x == [r.state EXCEPT !.position = position]
             y == [r.state EXCEPT !.position = position, !.budget = budget]
  <2>3. y = StepState(r, i)
    <3> HIDE DEF left, c
    <3> QED
        BY <1>1 DEF StepState
  <2> HIDE DEF moved, steps, c
  <2>4. moved = [r EXCEPT !.state = x]
      BY <2>1 DEF Runs, States
  <2>5. [moved EXCEPT !.state.budget[p] = left(@), !.voluntary = steps]
           = [r EXCEPT !.state = y, !.voluntary = steps]
    <3>1. moved.state = x /\ x.budget = r.state.budget /\ moved \in [DOMAIN r -> {moved[f] : f \in DOMAIN r}]
      <4> HIDE DEF position
      <4> QED
        BY <2>4 DEF Runs, States
    <3>2. [moved.state EXCEPT !.budget[p] = left(@)] = y
      <4> HIDE DEF position, left
      <4> QED
        BY <3>1 DEF Runs, States
    <3> HIDE DEF y, x, left
    <3> QED
        BY <2>4, <3>1, <3>2 DEF Runs, States
  <2>6. MoveToCell(r, i) = [r EXCEPT !.state = y, !.voluntary = steps]
      BY <2>2, <2>5
  <2> QED
      BY <2>3, <2>6
<1> HIDE DEF c, cost, poor, steps, left, moved
<1>6. poor <=> \E b \in Allowance : r.state.budget[i.actor][b] < StepCost(r, i)
    BY <1>1 DEF poor
<1> QED
    BY <1>1, <1>2, <1>4, <1>5, <1>6

\* A step that was taken is taken the same when more values follow.
LEMMA MoveToCellExtended ==
    ASSUME NEW r \in Runs, NEW v \in Seq(Values), NEW i \in Intents, Running(r),
           Running(MoveToCell(r, i))
    PROVE  MoveToCell(Extended(r, v), i) = Extended(MoveToCell(r, i), v)
<1>1. /\ Extended(r, v).state = r.state
      /\ Extended(r, v) \in Runs
      /\ Running(Extended(r, v))
    BY ExtendedFields DEF Running
<1>2. /\ StepCost(Extended(r, v), i) = StepCost(r, i)
      /\ StepState(Extended(r, v), i) = StepState(r, i)
      /\ StepTaken(Extended(r, v), i) = StepTaken(r, i)
    BY <1>1 DEF StepCost, StepState, StepTaken, StepPaid
<1>3. ~Running(Stop(r, "illegal"))
    BY DEF Running, Stop, Runs
<1> DEFINE x == StepState(r, i)
           steps == {StepTaken(r, i)}
<1>4. /\ StepCost(r, i) \in 1 .. Actions[i.action].distance
      /\ ~\E b \in Allowance : r.state.budget[i.actor][b] < StepCost(r, i)
      /\ MoveToCell(r, i) = [r EXCEPT !.state = x, !.voluntary = steps]
    BY <1>3, MoveToCellCases
<1>5. MoveToCell(Extended(r, v), i) = [Extended(r, v) EXCEPT !.state = x, !.voluntary = steps]
  <2> DEFINE e == Extended(r, v)
  <2>1. /\ e \in Runs
        /\ Running(e)
        /\ StepCost(e, i) \in 1 .. Actions[i.action].distance
        /\ ~\E b \in Allowance : e.state.budget[i.actor][b] < StepCost(e, i)
        /\ StepState(e, i) = x
        /\ {StepTaken(e, i)} = steps
      BY <1>1, <1>2, <1>4
  <2> HIDE DEF e, x, steps
  <2>2. MoveToCell(e, i) = [e EXCEPT !.state = x, !.voluntary = steps]
      BY <2>1, MoveToCellCases
  <2> QED
      BY <2>2 DEF e
<1> HIDE DEF x, steps
<1>6. [Extended(r, v) EXCEPT !.state = x, !.voluntary = steps]
          = Extended([r EXCEPT !.state = x, !.voluntary = steps], v)
    BY DEF Extended, Supplied, Runs
<1> QED
    BY <1>4, <1>5, <1>6

\* A bound forced movement is carried out the same when more values follow.
LEMMA ForcedMovementExtended ==
    ASSUME NEW r \in Runs, NEW v \in Seq(Values), NEW i, Running(ForcedMovement(r, i))
    PROVE  ForcedMovement(Extended(r, v), i) = Extended(ForcedMovement(r, i), v)
<1> DEFINE c == CHOOSE d \in i.cells : TRUE
           n == Actions[i.action].distance
           w == r.left \o v
<1>1. i.cells # {}
  <2>1. ~Running(Stop(r, "route"))
      BY DEF Running, Stop, Runs
  <2> QED
      BY <2>1 DEF ForcedMovement
<1>2. /\ ForcedMovement(r, i) = MoveEntity(r, i.target, c, n)
      /\ ForcedMovement(Extended(r, v), i) = MoveEntity(Extended(r, v), i.target, c, n)
    BY <1>1 DEF ForcedMovement
<1>3. w \in Seq(Values) /\ Extended(r, v) = Supplied(r, w)
    BY ExtendedTwice DEF Extended
<1> HIDE DEF c, n
<1>4. Extended(MoveEntity(r, i.target, c, n), v) = Supplied(MoveEntity(r, i.target, c, n), w)
    BY <1>3, MoveEntityExtended DEF Extended
<1> HIDE DEF w
<1> QED
    BY <1>2, <1>3, <1>4, MoveEntityExtended

\* An effect does not look at the die values.
LEMMA ApplyEffectExtended ==
    ASSUME NEW r \in Runs, NEW v \in Seq(Values), NEW i
    PROVE  ApplyEffect(Extended(r, v), i) = Extended(ApplyEffect(r, i), v)
<1> DEFINE x == [r.state EXCEPT !.effects[i.target] = @ \cup {i.actor}]
<1>1. Extended(r, v).state = r.state /\ Extended(r, v) \in Runs
    BY ExtendedFields
<1>2. ApplyEffect(r, i) = [r EXCEPT !.state = x]
    BY DEF ApplyEffect, Runs
<1>3. ApplyEffect(Extended(r, v), i) = [Extended(r, v) EXCEPT !.state = x]
    BY <1>1 DEF ApplyEffect, Runs
<1> HIDE DEF x
<1>4. [Extended(r, v) EXCEPT !.state = x] = Extended([r EXCEPT !.state = x], v)
    BY DEF Extended, Supplied, Runs
<1> QED
    BY <1>2, <1>3, <1>4

\* An operation that went through without opening a window goes through the
\* same with more values and another decision.
LEMMA OperateExtended ==
    ASSUME NEW r \in Runs, NEW v \in Seq(Values), NEW i \in Intents, NEW k \in 1 .. 3,
           NEW before, NEW decision, Running(Operate(r, i, before, k)),
           before = "none" \/ Actions[i.action].program[k] # "window"
    PROVE  /\ Running(r)
           /\ Operate(Extended(r, v), i, decision, k) = Extended(Operate(r, i, before, k), v)
<1> DEFINE op == Actions[i.action].program[k]
<1>1. op \in Operations
    BY ActionFields DEF ActionRecords
<1>2. /\ Extended(r, v).hit = r.hit
      /\ Running(Extended(r, v)) <=> Running(r)
    BY ExtendedFields DEF Running
<1>3. Running(r)
    BY DEF Operate
<1>4. CASE op = "none" \/ ~r.hit
    BY <1>2, <1>3, <1>4 DEF Operate
<1>5. CASE op = "window" /\ r.hit
  <2>1. Operate(r, i, before, k) = OpenReaction(r, i, "none")
      BY <1>3, <1>5 DEF Operate
  <2>2. OpenReaction(r, i, "none") \in {Stop(r, "illegal"), Stop(r, "reaction")}
      BY DEF OpenReaction, Runs
  <2>3. ~Running(Stop(r, "illegal")) /\ ~Running(Stop(r, "reaction"))
      BY DEF Running, Stop, Runs
  <2> QED
      BY <2>1, <2>2, <2>3
<1>6. CASE op = "strike" /\ r.hit
  <2>1. /\ Operate(r, i, before, k) = Damage(r, i)
        /\ Operate(Extended(r, v), i, decision, k) = Damage(Extended(r, v), i)
      BY <1>2, <1>3, <1>6 DEF Operate
  <2> QED
      BY <1>3, <2>1, DamageExtended
<1>7. CASE op = "shift" /\ r.hit
  <2>1. /\ Operate(r, i, before, k) = ForcedMovement(r, i)
        /\ Operate(Extended(r, v), i, decision, k) = ForcedMovement(Extended(r, v), i)
      BY <1>2, <1>3, <1>7 DEF Operate
  <2> QED
      BY <1>3, <2>1, ForcedMovementExtended
<1>8. CASE op = "step" /\ r.hit
  <2>1. /\ Operate(r, i, before, k) = MoveToCell(r, i)
        /\ Operate(Extended(r, v), i, decision, k) = MoveToCell(Extended(r, v), i)
      BY <1>2, <1>3, <1>8 DEF Operate
  <2> QED
      BY <1>3, <2>1, MoveToCellExtended
<1>9. CASE op = "afflict" /\ r.hit
  <2>1. /\ Operate(r, i, before, k) = ApplyEffect(r, i)
        /\ Operate(Extended(r, v), i, decision, k) = ApplyEffect(Extended(r, v), i)
      BY <1>2, <1>3, <1>9 DEF Operate
  <2> QED
      BY <1>3, <2>1, ApplyEffectExtended
<1> QED
    BY <1>1, <1>4, <1>5, <1>6, <1>7, <1>8, <1>9 DEF Operations

\* Before its program a run looks at the die values for its check only.
LEMMA BeginExtended ==
    ASSUME NEW s \in States, NEW e \in Seq(Values), NEW v \in Seq(Values), NEW i
    PROVE  /\ Begin(Staged(s, e), i).left = e
           /\ Begin(Staged(s, e), i).stop \in {"run", "illegal"}
           /\ Begin(Staged(s, e \o v), i) = Extended(Begin(Staged(s, e), i), v)
<1> DEFINE w     == e \o v
           r     == Staged(s, e)
           costs == Actions[i.action].costs
           paid  == SpendActivation(r, i.actor, costs)
<1>1. w \in Seq(Values)
    BY ConcatProperties
<1>2. r \in Runs
  <2>1. <<>> \in Seq(Rolls) /\ {} \in SUBSET Transitions /\ 0 \in Nat /\ "run" \in Stops
      BY EmptySeq DEF Stops
  <2> QED
      BY <2>1 DEF Staged, Runs
<1> HIDE DEF w
<1>3. r.left = e /\ r.stop = "run" /\ r.state = s /\ Supplied(r, w) = Staged(s, w)
  <2>1. r.left = e /\ r.stop = "run" /\ r.state = s
      BY DEF Staged
  <2>2. /\ r.used = <<>>
        /\ r.hit = TRUE
        /\ r.reduction = 0
        /\ r.decided = FALSE
        /\ r.voluntary = {}
      BY DEF Staged
  <2> DEFINE x == Supplied(r, w)
             y == Staged(s, w)
  <2>3. /\ x \in Runs
        /\ x.left = w
        /\ x.stop = r.stop
        /\ x.state = r.state
        /\ x.used = r.used
        /\ x.hit = r.hit
        /\ x.reduction = r.reduction
        /\ x.decided = r.decided
        /\ x.voluntary = r.voluntary
    <3> HIDE DEF r
    <3> QED
        BY <1>1, <1>2, SuppliedFields
  <2>4. /\ y.left = w
        /\ y.stop = "run"
        /\ y.state = s
        /\ y.used = <<>>
        /\ y.hit = TRUE
        /\ y.reduction = 0
        /\ y.decided = FALSE
        /\ y.voluntary = {}
        /\ y = [stop |-> y.stop, state |-> y.state, left |-> y.left, used |-> y.used,
                hit |-> y.hit, reduction |-> y.reduction, decided |-> y.decided,
                voluntary |-> y.voluntary]
      BY DEF Staged
  <2> HIDE DEF r, x, y
  <2>5. x = [stop |-> x.stop, state |-> x.state, left |-> x.left, used |-> x.used,
             hit |-> x.hit, reduction |-> x.reduction, decided |-> x.decided,
             voluntary |-> x.voluntary]
      BY <2>3 DEF Runs
  <2>6. x = y
      BY <2>1, <2>2, <2>3, <2>4, <2>5
  <2> QED
      BY <2>1, <2>6 DEF x, y
<1>4. Supplied(r, w).state = s
    BY <1>1, <1>2, <1>3, SuppliedFields
<1> HIDE DEF r, costs
<1>5. CASE LegalIntent(s, i)
  <2>1. Begin(r, i) = paid /\ Begin(Supplied(r, w), i) = SpendActivation(Supplied(r, w), i.actor, costs)
      BY <1>3, <1>4, <1>5 DEF Begin, costs
  <2>2. /\ paid.left = r.left
        /\ paid.stop \in {r.stop, "illegal"}
        /\ SpendActivation(Supplied(r, w), i.actor, costs) = Supplied(paid, w)
      BY <1>1, <1>2, SpendActivationExtended
  <2> HIDE DEF paid
  <2>3. Extended(paid, v) = Supplied(paid, w)
      BY <1>3, <2>2 DEF Extended, w
  <2> QED
      BY <1>3, <2>1, <2>2, <2>3 DEF r, w
<1>6. CASE ~LegalIntent(s, i)
  <2>1. Begin(r, i) = Stop(r, "illegal") /\ Begin(Supplied(r, w), i) = Stop(Supplied(r, w), "illegal")
      BY <1>3, <1>4, <1>6 DEF Begin
  <2>2. /\ Stop(r, "illegal").left = r.left
        /\ Stop(r, "illegal").stop = "illegal"
        /\ Stop(Supplied(r, w), "illegal") = Supplied(Stop(r, "illegal"), w)
      BY <1>2 DEF Stop, Supplied, Runs
  <2>3. Extended(Stop(r, "illegal"), v) = Supplied(Stop(r, "illegal"), w)
      BY <1>3, <2>2 DEF Extended, w
  <2> QED
      BY <1>3, <2>1, <2>2, <2>3 DEF r, w
<1> QED
    BY <1>5, <1>6

-------------------------------------------------------------------------------
(* What a command does that stopped at its reaction window, once it is       *)
(* resolved again with its decision.                                         *)

\* A die value is there, or the run is out of die values.
LEMMA TakeRandomStops ==
    ASSUME NEW r \in Runs, Running(r)
    PROVE  TakeRandom(r).stop # "reaction"
<1>1. Stop(r, "evidence").stop = "evidence" /\ Stop(r, "illegal").stop = "illegal"
    BY DEF Stop, Runs
<1>2. CASE r.left = <<>> \/ Head(r.left) \notin Rolls
    BY <1>1, <1>2 DEF TakeRandom
<1>3. CASE r.left # <<>> /\ Head(r.left) \in Rolls
  <2> DEFINE t == Tail(r.left)
             u == Append(r.used, Head(r.left))
  <2>1. TakeRandom(r) = [r EXCEPT !.left = t, !.used = u]
      BY <1>3 DEF TakeRandom
  <2> HIDE DEF t, u
  <2>2. TakeRandom(r).stop = "run"
      BY <2>1 DEF Runs, Running
  <2> QED
      BY <2>2
<1> QED
    BY <1>2, <1>3

\* Only a window asks for a decision, when none was used yet.
LEMMA WindowOpens ==
    ASSUME NEW r \in Runs, Running(r), NEW i \in Intents, NEW k \in 1 .. 3,
           Operate(r, i, "none", k).stop = "reaction"
    PROVE  /\ Actions[i.action].program[k] = "window"
           /\ r.hit
           /\ ~r.decided
           /\ Operate(r, i, "none", k) = Stop(r, "reaction")
<1> DEFINE op == Actions[i.action].program[k]
<1>1. op \in Operations
    BY ActionFields DEF ActionRecords
<1>2. /\ Stop(r, "illegal").stop = "illegal"
      /\ Stop(r, "route").stop = "route"
      /\ r.stop = "run"
    BY DEF Stop, Runs, Running
<1>3. op # "none" /\ r.hit
    BY <1>2 DEF Operate
<1>4. ASSUME op = "strike" PROVE FALSE
  <2> DEFINE rolled == IF Actions[i.action].dice THEN TakeRandom(r) ELSE r
  <2>1. Operate(r, i, "none", k) = Damage(r, i)
      BY <1>3, <1>4 DEF Operate
  <2>2. rolled.stop # "reaction"
      BY <1>2, TakeRandomStops
  <2>3. ~Running(rolled) => Damage(r, i) = rolled
      BY DEF Damage
  <2>4. ASSUME Running(rolled) PROVE Damage(r, i).stop = "run"
    <3> DEFINE n == IF rolled.state.vitality[i.target] <= Amount(rolled, Actions[i.action])
                    THEN 0
                    ELSE rolled.state.vitality[i.target] - Amount(rolled, Actions[i.action])
    <3>1. rolled \in Runs
      <4>1. <<>> \in Seq(Values)
          BY EmptySeq
      <4> QED
          BY <2>4, <4>1, TakeRandomExtended
    <3>2. Damage(r, i) = [rolled EXCEPT !.reduction = 0, !.state.vitality[i.target] = n]
        BY <2>4 DEF Damage
    <3> HIDE DEF rolled, n
    <3> QED
        BY <2>4, <3>1, <3>2 DEF Runs, Running
  <2> HIDE DEF rolled
  <2> QED
      BY <2>1, <2>2, <2>3, <2>4
<1>5. ASSUME NEW p, NEW c, NEW n PROVE MoveEntity(r, p, c, n).stop \in {"run", "illegal"}
  <2>1. [r EXCEPT !.state.position[p] = c].stop = "run"
      BY <1>2 DEF Runs
  <2> QED
      BY <1>2, <2>1 DEF MoveEntity
<1>6. ASSUME op = "shift" PROVE FALSE
  <2> DEFINE c == CHOOSE d \in i.cells : TRUE
             n == Actions[i.action].distance
  <2>1. Operate(r, i, "none", k) \in {Stop(r, "route"), MoveEntity(r, i.target, c, n)}
      BY <1>3, <1>6 DEF Operate, ForcedMovement
  <2> HIDE DEF c, n
  <2> QED
      BY <1>2, <1>5, <2>1
<1>7. ASSUME op = "step" PROVE FALSE
  <2> DEFINE x == StepState(r, i)
             steps == {StepTaken(r, i)}
  <2>1. Operate(r, i, "none", k) = MoveToCell(r, i)
      BY <1>3, <1>7 DEF Operate
  <2>2. MoveToCell(r, i) \in {Stop(r, "illegal"), [r EXCEPT !.state = x, !.voluntary = steps]}
      BY MoveToCellCases
  <2> HIDE DEF x, steps
  <2>3. [r EXCEPT !.state = x, !.voluntary = steps].stop = "run"
      BY <1>2 DEF Runs
  <2> QED
      BY <1>2, <2>1, <2>2, <2>3
<1>8. ASSUME op = "afflict" PROVE FALSE
  <2>1. Operate(r, i, "none", k) = ApplyEffect(r, i)
      BY <1>3, <1>8 DEF Operate
  <2>2. ApplyEffect(r, i).stop = "run"
      BY <1>2 DEF ApplyEffect, Runs
  <2> QED
      BY <2>1, <2>2
<1>9. op = "window"
    BY <1>1, <1>3, <1>4, <1>6, <1>7, <1>8 DEF Operations
<1>10. Operate(r, i, "none", k) = OpenReaction(r, i, "none")
    BY <1>3, <1>9 DEF Operate
<1>11. ~r.decided
  <2>1. r.decided => OpenReaction(r, i, "none") = Stop(r, "illegal")
      BY DEF OpenReaction
  <2> QED
      BY <1>2, <1>10, <2>1
<1>12. OpenReaction(r, i, "none") = Stop(r, "reaction")
    BY <1>11 DEF OpenReaction
<1> QED
    BY <1>3, <1>9, <1>10, <1>11, <1>12

\* A run that used its decision and every die value it was given.
Decided(q) ==
    /\ q \in Runs
    /\ Solvent(q.state)
    /\ Running(q)
    /\ q.left = <<>>
    /\ q.decided

\* A window that asked is closed by a refusal, whatever die values follow.
LEMMA WindowDeclined ==
    ASSUME NEW r, NEW s, NEW e, Sound(r, s, e), Running(r), NEW i \in Intents,
           NEW k \in 1 .. 3,
           Operate(r, i, "none", k).stop = "reaction",
           Operate(r, i, "none", k).left = <<>>
    PROVE  \E x : /\ Decided(x)
                  /\ \A v \in Seq(Values) :
                        Operate(Extended(r, v), i, "decline", k) = Supplied(x, v)
<1> DEFINE x == [r EXCEPT !.decided = TRUE, !.reduction = 0]
<1>1. r \in Runs /\ Solvent(r.state)
    BY DEF Sound
<1>2. /\ Actions[i.action].program[k] = "window"
      /\ r.hit
      /\ ~r.decided
      /\ Operate(r, i, "none", k) = Stop(r, "reaction")
    BY <1>1, WindowOpens
<1>3. r.left = <<>>
    BY <1>1, <1>2 DEF Stop, Runs
<1>4. Decided(x)
    BY <1>1, <1>3 DEF Decided, Running, Runs
<1>5. ASSUME NEW v \in Seq(Values)
      PROVE  Operate(Extended(r, v), i, "decline", k) = Supplied(x, v)
  <2> DEFINE y == Supplied(r, v)
  <2>1. Extended(r, v) = y
      BY <1>1, <1>3, ExtendedTwice
  <2>2. y \in Runs /\ Running(y) /\ y.hit = r.hit /\ y.decided = r.decided
      BY <1>1, SuppliedFields DEF Running
  <2>3. [y EXCEPT !.decided = TRUE, !.reduction = 0] = Supplied(x, v)
      BY <1>1 DEF Supplied, Runs
  <2> HIDE DEF y, x
  <2>4. Operate(y, i, "decline", k) = OpenReaction(y, i, "decline")
      BY <1>2, <2>2 DEF Operate
  <2>5. OpenReaction(y, i, "decline") = [y EXCEPT !.decided = TRUE, !.reduction = 0]
      BY <1>2, <2>2 DEF OpenReaction
  <2> QED
      BY <2>1, <2>3, <2>4, <2>5
<1> HIDE DEF x
<1> QED
    BY <1>4, <1>5

\* The k-th operation goes through, with a low die value if it rolls.
GoesOn(q, i, decision, k) ==
    \E u \in Seq({"low"}) : \E x :
        /\ Len(u) <= IF Actions[i.action].dice THEN 1 ELSE 0
        /\ Decided(x)
        /\ \A v \in Seq(Values) :
              Operate(Supplied(q, u \o v), i, decision, k) = Supplied(x, v)

\* A strike or an effect goes through with at most one more die value.
LEMMA OperationGoesOn ==
    ASSUME NEW q, Decided(q), NEW i \in Intents, Bound(i), NEW decision, NEW k \in 1 .. 3,
           Actions[i.action].program[k] \in {"none", "strike", "afflict"}
    PROVE  GoesOn(q, i, decision, k)
<1> DEFINE a == Actions[i.action]
           most == IF a.dice THEN 1 ELSE 0
           done == \E w \in Seq({"low"}) : \E z :
                      /\ Len(w) <= most
                      /\ Decided(z)
                      /\ \A v \in Seq(Values) :
                            Operate(Supplied(q, w \o v), i, decision, k) = Supplied(z, v)
<1> SUFFICES done
    BY DEF GoesOn
<1>1. q \in Runs /\ Solvent(q.state) /\ Running(q) /\ q.left = <<>> /\ q.decided
    BY DEF Decided
<1>2. {"low"} \subseteq Values /\ Seq({"low"}) \subseteq Seq(Values)
  <2>1. {"low"} \subseteq Values
      BY DEF Values, Rolls
  <2> QED
      BY <2>1, SeqMonotonic
<1> DEFINE after(u) == Operate(Supplied(q, u), i, decision, k)
<1>3. \A u \in Seq({"low"}) :
         /\ Len(u) <= most
         /\ Running(after(u))
         /\ after(u).left = <<>>
         /\ after(u).decided
         => done
  <2> SUFFICES ASSUME NEW u \in Seq({"low"}), Len(u) <= most, Running(after(u)),
                      after(u).left = <<>>, after(u).decided
               PROVE  done
      OBVIOUS
  <2> DEFINE x == after(u)
  <2>0. Running(x) /\ x.left = <<>> /\ x.decided
      OBVIOUS
  <2> HIDE DEF x
  <2> DEFINE y == Supplied(q, u)
  <2>1. u \in Seq(Values)
      BY <1>2
  <2>2. y \in Runs /\ y.left = u /\ y.state = q.state /\ y.used = q.used /\ y.stop = q.stop
      BY <1>1, <2>1, SuppliedFields
  <2>3. Sound(y, y.state, y.used \o y.left)
    <3>1. y.used \in Seq(Values)
      <4>1. Rolls \subseteq Values
          BY DEF Values
      <4> QED
          BY <2>2, <4>1, SeqMonotonic DEF Runs
    <3>2. y.used \o y.left \in Seq(Values)
        BY <2>1, <2>2, <3>1, ConcatProperties
    <3> HIDE DEF y
    <3> QED
        BY <1>1, <2>2, <3>2 DEF Sound
  <2>4. Decided(x)
    <3> HIDE DEF y
    <3>1. Sound(Operate(y, i, decision, k), y.state, y.used \o y.left)
        BY <2>3, OperateSound
    <3> QED
        BY <2>0, <3>1 DEF Sound, Decided, x, y
  <2>5. ASSUME NEW v \in Seq(Values)
        PROVE  Operate(Supplied(q, u \o v), i, decision, k) = Supplied(x, v)
    <3>1. u \o v \in Seq(Values)
        BY <2>1, ConcatProperties
    <3>2. Extended(y, v) = Supplied(q, u \o v)
      <4> DEFINE w == u \o v
      <4> HIDE DEF w
      <4>1. Extended(y, v) = Supplied(y, w)
        <5> HIDE DEF y
        <5> QED
            BY <2>2 DEF Extended, w
      <4>2. w \in Seq(Values)
          BY <3>1 DEF w
      <4>3. Supplied(y, w) = Supplied(q, w)
          BY <1>1, <4>2, SuppliedFields
      <4> QED
          BY <4>1, <4>3 DEF w
    <3>3. x \in Runs /\ Extended(x, v) = Supplied(x, v)
        BY <2>0, <2>4, ExtendedTwice DEF Decided
    <3> HIDE DEF y
    <3>4. Operate(Extended(y, v), i, decision, k) = Extended(x, v)
      <4>1. x = Operate(y, i, decision, k) /\ Running(Operate(y, i, decision, k))
          BY <2>0 DEF x, y
      <4>2. a.program[k] # "window"
          OBVIOUS
      <4> QED
          BY <2>2, <4>1, <4>2, OperateExtended
    <3> QED
        BY <3>2, <3>3, <3>4
  <2> QED
      BY <2>4, <2>5
<1>4. /\ <<>> \in Seq({"low"})
      /\ Len(<<>>) <= most
      /\ Supplied(q, <<>>) = q
  <2>1. <<>> \in Seq({"low"}) /\ <<>> \in Seq(Values) /\ Len(<<>>) = 0
      BY EmptySeq
  <2>2. Supplied(q, q.left) = q
      BY <1>1, <2>1, SuppliedFields
  <2> QED
      BY <1>1, <2>1, <2>2
<1>5. CASE a.program[k] = "none" \/ ~q.hit
  <2>1. Operate(q, i, decision, k) = q
      BY <1>5 DEF Operate
  <2>2. after(<<>>) = q
      BY <1>4, <2>1
  <2> HIDE DEF most, a, done, after
  <2> QED
      BY <1>1, <1>3, <1>4, <2>2
<1>6. CASE a.program[k] = "afflict" /\ q.hit
  <2>1. Operate(q, i, decision, k) = ApplyEffect(q, i)
      BY <1>1, <1>6 DEF Operate
  <2> DEFINE x == ApplyEffect(q, i)
  <2>2. Running(x) /\ x.left = <<>> /\ x.decided
      BY <1>1 DEF ApplyEffect, Running, Runs
  <2>3. after(<<>>) = x
      BY <1>4, <2>1
  <2> HIDE DEF x, most, a, done, after
  <2> QED
      BY <1>3, <1>4, <2>2, <2>3
<1>7. CASE a.program[k] = "strike" /\ q.hit
  <2> DEFINE u == IF a.dice THEN <<"low">> ELSE <<>>
             y == Supplied(q, u)
             x == Damage(y, i)
             rolled == IF a.dice THEN TakeRandom(y) ELSE y
  <2>1. u \in Seq({"low"}) /\ Len(u) <= most
    <3>1. CASE a.dice
        BY <3>1
    <3>2. CASE ~a.dice
        BY <1>4, <3>2
    <3> QED
        BY <3>1, <3>2
  <2>2. u \in Seq(Values)
      BY <1>2, <2>1
  <2>3. y \in Runs /\ y.left = u /\ Running(y) /\ y.decided = q.decided /\ y.hit = q.hit
    <3> HIDE DEF u
    <3> QED
        BY <1>1, <2>2, SuppliedFields DEF Running
  <2>4. rolled \in Runs /\ Running(rolled) /\ rolled.left = <<>> /\ rolled.decided
    <3>1. CASE a.dice
      <4> DEFINE used == Append(y.used, "low")
      <4>1. u = <<"low">> /\ Head(u) = "low" /\ Tail(u) = <<>> /\ u # <<>> /\ "low" \in Rolls
          BY <3>1 DEF Rolls
      <4> HIDE DEF u, y
      <4>2. TakeRandom(y) = [y EXCEPT !.left = <<>>, !.used = used]
          BY <2>3, <4>1 DEF TakeRandom
      <4>3. used \in Seq(Rolls) /\ <<>> \in Seq(Values)
          BY <2>3, <4>1, AppendProperties, EmptySeq DEF Runs
      <4> HIDE DEF used
      <4>4. /\ [y EXCEPT !.left = <<>>, !.used = used] \in Runs
            /\ [y EXCEPT !.left = <<>>, !.used = used].left = <<>>
            /\ [y EXCEPT !.left = <<>>, !.used = used].stop = y.stop
            /\ [y EXCEPT !.left = <<>>, !.used = used].decided = y.decided
          BY <2>3, <4>3 DEF Runs
      <4> QED
          BY <1>1, <2>3, <3>1, <4>2, <4>4 DEF Running
    <3>2. CASE ~a.dice
        BY <1>1, <2>3, <3>2
    <3> QED
        BY <3>1, <3>2
  <2>5. Running(x) /\ x.left = <<>> /\ x.decided
    <3> DEFINE n == IF rolled.state.vitality[i.target] <= Amount(rolled, a)
                    THEN 0
                    ELSE rolled.state.vitality[i.target] - Amount(rolled, a)
    <3>1. x = [rolled EXCEPT !.reduction = 0, !.state.vitality[i.target] = n]
      <4> HIDE DEF y
      <4> QED
        BY <2>4 DEF Damage
    <3> HIDE DEF rolled, n, x
    <3> QED
        BY <2>4, <3>1 DEF Running, Runs
  <2>6. Operate(y, i, decision, k) = x
    <3> HIDE DEF y
    <3> QED
        BY <1>1, <1>7, <2>3 DEF Operate
  <2>7. after(u) = x
      BY <2>6
  <2> HIDE DEF x, u, y, most, a, rolled, done, after
  <2> QED
      BY <1>3, <2>1, <2>5, <2>7
<1> QED
    BY <1>5, <1>6, <1>7

\* Completing a decided run looks at its state only.
LEMMA DecidedCompletes ==
    ASSUME NEW x, Decided(x)
    PROVE  /\ AdvanceRevision(x) \in Runs
           /\ Running(AdvanceRevision(x))
           /\ AdvanceRevision(x).left = <<>>
           /\ \A v \in Seq(Values) :
                 AdvanceRevision(DecisionUsed(Supplied(x, v), "decline"))
                    = Supplied(AdvanceRevision(x), v)
<1> DEFINE y == [x.state EXCEPT !.revision = @ + 1]
<1>1. /\ x \in Runs
      /\ x.state \in States
      /\ Solvent(x.state)
      /\ Running(x)
      /\ x.left = <<>>
      /\ x.decided
    BY DEF Decided, Runs
<1>2. x.state.revision + 1 \in Nat
    BY <1>1 DEF States
<1>3. y \in States
    BY <1>1, <1>2, RevisionUpdate
<1>4. AdvanceRevision(x) = [x EXCEPT !.state = y]
    BY <1>1 DEF AdvanceRevision, Runs, States
<1>5. ASSUME NEW v \in Seq(Values)
      PROVE  AdvanceRevision(DecisionUsed(Supplied(x, v), "decline"))
                = Supplied(AdvanceRevision(x), v)
  <2> DEFINE z == Supplied(x, v)
  <2>1. z \in Runs /\ Running(z) /\ z.decided /\ z.state = x.state
      BY <1>1, SuppliedFields DEF Running
  <2>2. [z EXCEPT !.state = y] = Supplied([x EXCEPT !.state = y], v)
    <3> HIDE DEF y
    <3> QED
        BY <1>1 DEF Supplied, Runs
  <2> HIDE DEF z
  <2>3. DecisionUsed(z, "decline") = z
      BY <2>1 DEF DecisionUsed
  <2>4. AdvanceRevision(z) = [z EXCEPT !.state = y]
      BY <2>1 DEF AdvanceRevision, Runs, States
  <2> HIDE DEF y
  <2> QED
      BY <1>4, <2>2, <2>3, <2>4 DEF z
<1> HIDE DEF y
<1>6. /\ [x EXCEPT !.state = y] \in Runs
      /\ [x EXCEPT !.state = y].stop = x.stop
      /\ [x EXCEPT !.state = y].left = x.left
    BY <1>1, <1>3 DEF Runs
<1> QED
    BY <1>1, <1>4, <1>5, <1>6 DEF Running

\* Die values that follow in three parts.
LEMMA ValuesAssociate == \A x, y, z \in Seq(Values) : (x \o y) \o z = x \o (y \o z)
BY ConcatAssociative

\* A command that stopped at its window with every die value used resolves once
\* it is declined, with at most one low value for each strike that is left; the
\* values after those are left over.
THEOREM DeclineResolves ==
    ASSUME NEW s \in States, Solvent(s), NEW e \in Seq(Values),
           NEW i \in Intents, Bound(i), Declinable(Actions[i.action]),
           Resolve(s, e, i, "none").stop = "reaction",
           Resolve(s, e, i, "none").left = <<>>
    PROVE  /\ \E k \in 1 .. 3 : Actions[i.action].program[k] = "window"
           /\ \E u \in Seq({"low"}) : \E x :
                 /\ Len(u) <= IF Actions[i.action].dice THEN 2 ELSE 0
                 /\ x \in Runs
                 /\ Running(x)
                 /\ x.left = <<>>
                 /\ \A v \in Seq(Values) :
                       Resolve(s, e \o (u \o v), i, "decline") = Supplied(x, v)
<1> DEFINE a    == Actions[i.action]
           each == IF a.dice THEN 1 ELSE 0
           most == IF a.dice THEN 2 ELSE 0
           checked(w) == ResolveChecks(Begin(Staged(s, w), i), i)
           r0 == checked(e)
           r1 == Operate(r0, i, "none", 1)
           r2 == Operate(r1, i, "none", 2)
           r3 == Operate(r2, i, "none", 3)
           first(w)  == Operate(checked(w), i, "decline", 1)
           second(w) == Operate(first(w), i, "decline", 2)
           third(w)  == Operate(second(w), i, "decline", 3)
           opens == \E k \in 1 .. 3 : a.program[k] = "window"
           resolved(u, q) ==
               /\ Len(u) <= most
               /\ Decided(q)
               /\ \A v \in Seq(Values) : third(e \o (u \o v)) = Supplied(q, v)
<1>1. /\ Sound(Begin(Staged(s, e), i), s, e)
      /\ Sound(r0, s, e)
      /\ Sound(r1, s, e)
      /\ Sound(r2, s, e)
  <2>1. a.costs \in [Budgets -> Nat] /\ i.actor \in Participants
      BY ActionFields DEF ActionRecords
  <2>2. Sound(Staged(s, e), s, e)
      BY StagedSound
  <2>3. Sound(Begin(Staged(s, e), i), s, e)
      BY <2>1, <2>2, SpendActivationSound, StopSound DEF Begin, Stops
  <2> QED
      BY <2>3, ResolveChecksSound, OperateSound
<1>2. r0 \in Runs /\ r1 \in Runs /\ r2 \in Runs
    BY <1>1 DEF Sound
<1>3. /\ r3.stop = "reaction"
      /\ r3.left = <<>>
  <2>1. Resolve(s, e, i, "none") = AdvanceRevision(r3)
      BY DEF Resolve, ResolveEmbedded, ExecuteProgram, DecisionUsed
  <2>2. Sound(r3, s, e)
      BY <1>1, OperateSound
  <2> HIDE DEF r3
  <2>3. ~Running(r3)
    <3> SUFFICES ASSUME Running(r3) PROVE FALSE
        OBVIOUS
    <3>1. AdvanceRevision(r3) = [r3 EXCEPT !.state.revision = @ + 1]
        BY DEF AdvanceRevision
    <3>2. AdvanceRevision(r3).stop = "run"
        BY <2>2, <3>1 DEF Sound, Runs, Running
    <3> QED
        BY <2>1, <3>2
  <2> QED
      BY <2>1, <2>3 DEF AdvanceRevision
<1>4. /\ ~Running(r0) => r1 = r0
      /\ ~Running(r1) => r2 = r1
      /\ ~Running(r2) => r3 = r2
    BY DEF Operate
<1>5. /\ Running(r0)
      /\ \A v \in Seq(Values) : checked(e \o v) = Extended(r0, v)
  <2> DEFINE b == Begin(Staged(s, e), i)
  <2>1. b \in Runs /\ b.stop \in {"run", "illegal"}
    <3>1. <<>> \in Seq(Values)
        BY EmptySeq
    <3> QED
        BY <1>1, <3>1, BeginExtended DEF Sound
  <2>2. r0.stop # "reaction"
    <3> HIDE DEF b
    <3>1. ResolveChecks(b, i).stop # "reaction"
      <4> DEFINE t == TakeRandom(b)
                 hit == Rolled(t) = "high"
      <4>1. CASE ~Running(b) \/ ~a.check
          BY <2>1, <4>1 DEF ResolveChecks
      <4>2. CASE Running(b) /\ a.check
        <5>1. t.stop # "reaction"
            BY <2>1, <4>2, TakeRandomStops
        <5>2. Running(t) => t \in Runs
          <6>1. <<>> \in Seq(Values)
              BY EmptySeq
          <6> QED
              BY <2>1, <6>1, TakeRandomExtended
        <5>3. ResolveChecks(b, i) = IF Running(t) THEN [t EXCEPT !.hit = hit] ELSE t
            BY <4>2 DEF ResolveChecks
        <5> HIDE DEF t, hit
        <5>4. Running(t) => [t EXCEPT !.hit = hit].stop = "run"
            BY <5>2 DEF Runs, Running
        <5> QED
            BY <5>1, <5>3, <5>4
      <4> QED
          BY <4>1, <4>2
    <3> QED
        BY <3>1 DEF b
  <2>3. Running(r0)
    <3> HIDE DEF r0, r1, r2, r3
    <3> QED
        BY <1>3, <1>4, <2>2
  <2>4. ASSUME NEW v \in Seq(Values) PROVE checked(e \o v) = Extended(r0, v)
    <3>1. Begin(Staged(s, e \o v), i) = Extended(b, v)
        BY BeginExtended
    <3> HIDE DEF b
    <3>2. Running(ResolveChecks(b, i))
        BY <2>3 DEF b
    <3>3. ResolveChecks(Extended(b, v), i) = Extended(ResolveChecks(b, i), v)
        BY <2>1, <3>2, ResolveChecksExtended
    <3> QED
        BY <3>1, <3>3 DEF b
  <2> QED
      BY <2>3, <2>4
<1> SUFFICES opens /\ \E u \in Seq({"low"}) : \E q : resolved(u, q)
  <2> SUFFICES ASSUME NEW u \in Seq({"low"}), NEW q, resolved(u, q)
               PROVE  \E x : /\ Len(u) <= most
                             /\ x \in Runs
                             /\ Running(x)
                             /\ x.left = <<>>
                             /\ \A v \in Seq(Values) :
                                   Resolve(s, e \o (u \o v), i, "decline") = Supplied(x, v)
      OBVIOUS
  <2> DEFINE x == AdvanceRevision(q)
  <2>1. \A v \in Seq(Values) : Resolve(s, e \o (u \o v), i, "decline") = Supplied(x, v)
    <3> SUFFICES ASSUME NEW v \in Seq(Values)
                 PROVE  Resolve(s, e \o (u \o v), i, "decline") = Supplied(x, v)
        OBVIOUS
    <3>1. Resolve(s, e \o (u \o v), i, "decline")
             = AdvanceRevision(DecisionUsed(third(e \o (u \o v)), "decline"))
        BY DEF Resolve, ResolveEmbedded, ExecuteProgram
    <3> HIDE DEF third
    <3>2. third(e \o (u \o v)) = Supplied(q, v) /\ Decided(q)
        OBVIOUS
    <3> QED
        BY <3>1, <3>2, DecidedCompletes
  <2>2. x \in Runs /\ Running(x) /\ x.left = <<>> /\ Len(u) <= most
    <3> HIDE DEF third
    <3> QED
        BY DecidedCompletes
  <2> HIDE DEF x, most
  <2> QED
      BY <2>1, <2>2
<1> HIDE DEF checked, r0, r1, r2, r3
<1>6. ASSUME Running(r1), NEW v \in Seq(Values) PROVE first(e \o v) = Extended(r1, v)
  <2>1. Operate(Extended(r0, v), i, "decline", 1) = Extended(Operate(r0, i, "none", 1), v)
    <3>1. Running(Operate(r0, i, "none", 1))
        BY <1>6 DEF r1
    <3> QED
        BY <1>2, <3>1, OperateExtended
  <2> QED
      BY <1>5, <2>1 DEF r1
<1> HIDE DEF first
<1>7. ASSUME Running(r2), NEW v \in Seq(Values) PROVE second(e \o v) = Extended(r2, v)
  <2>1. Running(r1)
      BY <1>7 DEF r2, Operate
  <2>2. Operate(Extended(r1, v), i, "decline", 2) = Extended(Operate(r1, i, "none", 2), v)
    <3>1. Running(Operate(r1, i, "none", 2))
        BY <1>7 DEF r2
    <3> QED
        BY <1>2, <3>1, OperateExtended
  <2>3. first(e \o v) = Extended(r1, v)
      BY <1>6, <2>1
  <2> QED
      BY <2>2, <2>3 DEF r2
<1> HIDE DEF second
<1>8. ASSUME NEW q, Decided(q), NEW k \in 2 .. 3, NEW l \in 1 .. 3, l < k, a.program[l] = "window"
      PROVE  \E u \in Seq({"low"}) : \E x :
                /\ Len(u) <= each
                /\ Decided(x)
                /\ \A v \in Seq(Values) :
                      Operate(Supplied(q, u \o v), i, "decline", k) = Supplied(x, v)
  <2>1. a.program[k] \in {"none", "strike", "afflict"} /\ k \in 1 .. 3
      BY <1>8 DEF Declinable
  <2>2. GoesOn(q, i, "decline", k)
      BY <1>8, <2>1, OperationGoesOn
  <2> QED
      BY <2>2 DEF GoesOn
<1>9. Seq({"low"}) \subseteq Seq(Values)
  <2>1. {"low"} \subseteq Values
      BY DEF Values, Rolls
  <2> QED
      BY <2>1, SeqMonotonic
<1>10. ASSUME NEW u \in Seq({"low"}), NEW v \in Seq(Values)
       PROVE  /\ u \in Seq(Values)
              /\ u \o v \in Seq(Values)
              /\ \A w \in Seq({"low"}) : /\ u \o w \in Seq({"low"})
                                         /\ Len(u \o w) = Len(u) + Len(w)
                                         /\ (u \o w) \o v = u \o (w \o v)
    BY <1>9, ValuesAssociate, ConcatProperties
<1> HIDE DEF most, each
<1>11. each \in Nat /\ each <= most /\ most = each + each
    BY DEF each, most
<1>12. CASE Running(r2)
  <2>1. PICK x : /\ Decided(x)
                 /\ \A v \in Seq(Values) :
                       Operate(Extended(r2, v), i, "decline", 3) = Supplied(x, v)
    <3>1. Operate(r2, i, "none", 3).stop = "reaction" /\ Operate(r2, i, "none", 3).left = <<>>
        BY <1>3 DEF r3
    <3> QED
        BY <1>1, <1>12, <3>1, WindowDeclined
  <2>2. <<>> \in Seq({"low"}) /\ Len(<<>>) <= most
      BY <1>11, EmptySeq
  <2>3. opens
    <3>1. Operate(r2, i, "none", 3).stop = "reaction"
        BY <1>3 DEF r3
    <3>2. a.program[3] = "window"
        BY <1>2, <1>12, <3>1, WindowOpens
    <3> QED
        BY <3>2
  <2>4. ASSUME NEW v \in Seq(Values) PROVE third(e \o (<<>> \o v)) = Supplied(x, v)
    <3>1. <<>> \o v = v
        BY ConcatEmptySeq
    <3>2. second(e \o v) = Extended(r2, v)
        BY <1>7, <1>12
    <3> QED
        BY <2>1, <3>1, <3>2
  <2> HIDE DEF third
  <2>5. resolved(<<>>, x)
      BY <2>1, <2>2, <2>4
  <2> HIDE DEF resolved, opens
  <2> QED
      BY <2>2, <2>3, <2>5
<1>13. CASE Running(r1) /\ ~Running(r2)
  <2>1. r2.stop = "reaction" /\ r2.left = <<>>
      BY <1>3, <1>4, <1>13
  <2>2. PICK x : /\ Decided(x)
                 /\ \A v \in Seq(Values) :
                       Operate(Extended(r1, v), i, "decline", 2) = Supplied(x, v)
    <3>1. Operate(r1, i, "none", 2).stop = "reaction" /\ Operate(r1, i, "none", 2).left = <<>>
        BY <2>1 DEF r2
    <3> QED
        BY <1>1, <1>13, <3>1, WindowDeclined
  <2>3. a.program[2] = "window"
    <3>1. Operate(r1, i, "none", 2).stop = "reaction"
        BY <2>1 DEF r2
    <3> QED
        BY <1>2, <1>13, <3>1, WindowOpens
  <2>4. PICK u \in Seq({"low"}), z \in Runs :
           /\ Len(u) <= each
           /\ Decided(z)
           /\ \A v \in Seq(Values) :
                 Operate(Supplied(x, u \o v), i, "decline", 3) = Supplied(z, v)
      BY <1>8, <2>2, <2>3 DEF Decided
  <2>5. ASSUME NEW v \in Seq(Values) PROVE third(e \o (u \o v)) = Supplied(z, v)
    <3>1. u \o v \in Seq(Values)
        BY <1>10
    <3>2. second(e \o (u \o v)) = Supplied(x, u \o v)
      <4>1. first(e \o (u \o v)) = Extended(r1, u \o v)
          BY <1>6, <1>13, <3>1
      <4> QED
          BY <2>2, <3>1, <4>1 DEF second
    <3> QED
        BY <2>4, <3>2
  <2>6. Len(u) \in Nat /\ Len(u) <= most
    <3>1. Len(u) \in Nat
        BY LenProperties
    <3>2. most \in Nat
        BY <1>11
    <3> QED
        BY <1>11, <2>4, <3>1, <3>2
  <2> HIDE DEF third
  <2>7. resolved(u, z)
      BY <2>4, <2>5, <2>6
  <2> HIDE DEF resolved
  <2> QED
      BY <2>3, <2>7
<1>14. CASE ~Running(r1)
  <2>1. r1.stop = "reaction" /\ r1.left = <<>>
    <3>1. r2 = r1
        BY <1>4, <1>14
    <3> QED
        BY <1>3, <1>4, <1>14, <3>1
  <2>2. PICK x : /\ Decided(x)
                 /\ \A v \in Seq(Values) :
                       Operate(Extended(r0, v), i, "decline", 1) = Supplied(x, v)
    <3>1. Operate(r0, i, "none", 1).stop = "reaction" /\ Operate(r0, i, "none", 1).left = <<>>
        BY <2>1 DEF r1
    <3> QED
        BY <1>1, <1>5, <3>1, WindowDeclined
  <2>3. a.program[1] = "window"
    <3>1. Operate(r0, i, "none", 1).stop = "reaction"
        BY <2>1 DEF r1
    <3> QED
        BY <1>2, <1>5, <3>1, WindowOpens
  <2>4. PICK u \in Seq({"low"}), y \in Runs :
           /\ Len(u) <= each
           /\ Decided(y)
           /\ \A v \in Seq(Values) :
                 Operate(Supplied(x, u \o v), i, "decline", 2) = Supplied(y, v)
      BY <1>8, <2>2, <2>3 DEF Decided
  <2>5. PICK w \in Seq({"low"}), z \in Runs :
           /\ Len(w) <= each
           /\ Decided(z)
           /\ \A v \in Seq(Values) :
                 Operate(Supplied(y, w \o v), i, "decline", 3) = Supplied(z, v)
      BY <1>8, <2>3, <2>4 DEF Decided
  <2>6. ASSUME NEW v \in Seq(Values) PROVE third(e \o ((u \o w) \o v)) = Supplied(z, v)
    <3> DEFINE x1 == w \o v
               x2 == u \o x1
    <3>1. x1 \in Seq(Values) /\ x2 \in Seq(Values) /\ (u \o w) \o v = x2
      <4>1. x1 \in Seq(Values)
          BY <1>10
      <4>2. x2 \in Seq(Values)
        <5> HIDE DEF x1
        <5> QED
            BY <1>10, <4>1
      <4> QED
          BY <1>10, <4>1, <4>2
    <3> HIDE DEF x1
    <3>2. Operate(Supplied(x, x2), i, "decline", 2) = Supplied(y, x1)
        BY <2>4, <3>1
    <3> HIDE DEF x2
    <3>3. first(e \o x2) = Supplied(x, x2)
        BY <1>5, <2>2, <3>1 DEF first
    <3>4. second(e \o x2) = Supplied(y, x1)
        BY <3>2, <3>3 DEF second
    <3>5. Operate(Supplied(y, x1), i, "decline", 3) = Supplied(z, v)
        BY <2>5 DEF x1
    <3> QED
        BY <3>1, <3>4, <3>5
  <2>7. u \o w \in Seq({"low"}) /\ Len(u \o w) <= most
    <3>1. Len(u) \in Nat /\ Len(w) \in Nat
        BY LenProperties
    <3>2. u \o w \in Seq({"low"}) /\ Len(u \o w) = Len(u) + Len(w)
        BY ConcatProperties
    <3>3. Len(u) + Len(w) <= most
        BY <1>11, <2>4, <2>5, <3>1
    <3> QED
        BY <3>2, <3>3
  <2> DEFINE both == u \o w
  <2> HIDE DEF third
  <2>8. resolved(both, z)
    <3>1. \A v \in Seq(Values) : third(e \o (both \o v)) = Supplied(z, v)
        BY <2>6
    <3> HIDE DEF both
    <3>2. Len(both) <= most
        BY <2>7 DEF both
    <3> QED
        BY <2>5, <3>1, <3>2
  <2>9. both \in Seq({"low"})
      BY <2>7
  <2> HIDE DEF both, resolved
  <2> QED
      BY <2>3, <2>8, <2>9
<1> QED
    BY <1>12, <1>13, <1>14
===============================================================================
