-------------------------- MODULE AuthoritySteps_proofs --------------------------
(***************************************************************************)
(* Theorems about the steps of the authority session: the order in which   *)
(* turns pass, what a turn has paid for, what becomes of a step or a slide *)
(* that had to wait, and that the session implements the log of            *)
(* transactions it promises its host.                                      *)
(***************************************************************************)
EXTENDS AuthoritySession_proofs, Checkpoint, WellFoundedInduction

-------------------------------------------------------------------------------
(* The two kinds of steps that accept something. *)

\* A resolved command is committed, with all the die values it was given.
Commits ==
    \E r : \E i \in Intents : \E evidence :
        Complete(r, state.revision, evidence) /\ Commit(r, i)

\* A turn ends, on the word of the one whose turn it is or after its saves.
EndsTheTurn ==
    \E s \in States : \E evidence \in Seq(Rolls) :
        /\ Solvent(s)
        /\ s.vitality = state.vitality
        /\ s.position = state.position
        /\ turn.actor \in Living(state)
        /\ EndTurnFrom(s, evidence)

\* The values of a save phase are on the die.
LEMMA SavedRolls ==
    ASSUME NEW p, NEW evidence \in Raw, ResolvePendingTurnSave(p, evidence)
    PROVE  evidence \in Seq(Rolls)
<1>1. evidence \in Seq(Values) /\ \A k \in DOMAIN evidence : evidence[k] \in Rolls
    BY EvidenceType DEF ResolvePendingTurnSave
<1>2. /\ Len(evidence) \in Nat
      /\ DOMAIN evidence = 1 .. Len(evidence)
      /\ evidence = [k \in 1 .. Len(evidence) |-> evidence[k]]
    BY <1>1, LenProperties, SeqDef
<1> QED
    BY <1>1, <1>2, SeqDef

\* A step commits a resolved command, or ends a turn that the one in turn lives
\* to end, or leaves state, turn and log alone.
LEMMA NextKinds ==
    ASSUME IInv, Next
    PROVE  Commits \/ EndsTheTurn \/ UNCHANGED <<state, turn, log>>
<1>1. Core /\ Waiting
    BY InvariantParts
<1>2. /\ turn \in Turns
      /\ turn.actor \in Participants
      /\ state \in States
      /\ Solvent(state)
    BY <1>1 DEF Core, Turns
<1>3. CASE Submit
  <2>1. PICK i \in Proposals, evidence \in Drawn :
           \E r \in {Resolve(state, evidence, i, "none")} :
              \/ SubmitAccepted(i, r)
              \/ SubmitPush(i, r, evidence)
              \/ SubmitAwaitingReaction(i, r, evidence)
              \/ SubmitAwaitingForcedMovement(i, r, evidence)
      BY <1>3 DEF Submit
  <2>2. i \in Intents /\ evidence \in Seq(Values)
      BY ProposalType, EvidenceType, SeqMonotonic DEF Values
  <2> DEFINE r == Resolve(state, evidence, i, "none")
  <2>3. CASE SubmitAccepted(i, r)
    <3>1. Commit(r, i)
        BY <2>3 DEF SubmitAccepted
    <3>2. Complete(r, state.revision, evidence)
        BY <1>2, <2>2, <3>1, ResolveComplete DEF Commit, Acceptable
    <3> HIDE DEF r
    <3> QED
        BY <2>2, <3>1, <3>2 DEF Commits
  <2>4. CASE SubmitPush(i, r, evidence)
    <3> DEFINE bound == [i EXCEPT !.cells = ForcedOptions(state, i)]
               pushed == Resolve(state, evidence, bound, "none")
    <3>1. Commit(pushed, bound)
        BY <2>4 DEF SubmitPush
    <3>2. bound \in Intents
      <4>1. ForcedOptions(state, i) \subseteq Cells
          BY DEF ForcedOptions, PushRoute, Reachable
      <4> QED
          BY <2>2, <4>1 DEF Intents
    <3> HIDE DEF bound
    <3>3. Complete(pushed, state.revision, evidence)
        BY <1>2, <2>2, <3>1, <3>2, ResolveComplete DEF Commit, Acceptable
    <3> HIDE DEF pushed
    <3> QED
        BY <3>1, <3>2, <3>3 DEF Commits
  <2>5. CASE SubmitAwaitingReaction(i, r, evidence)
      BY <2>5 DEF SubmitAwaitingReaction
  <2>6. CASE SubmitAwaitingForcedMovement(i, r, evidence)
      BY <2>6 DEF SubmitAwaitingForcedMovement
  <2> QED
      BY <2>1, <2>3, <2>4, <2>5, <2>6
<1>4. CASE React
  <2>1. PICK p \in pending, decision \in {"decline", "accept"}, evidence \in Raw :
           ReactAccepted(p, decision, evidence)
      BY <1>4 DEF React
  <2> DEFINE r == Answer(p, decision, evidence)
  <2>2. Commit(r, p.intent) /\ p.intent \in Intents
      BY <1>1, <2>1 DEF ReactAccepted, Waiting, PendingReactions
  <2>3. Complete(r, state.revision, p.random_values \o evidence)
      BY <1>1, <1>2, <2>2, AnswerComplete, EvidenceType DEF Waiting, Commit, Acceptable
  <2> HIDE DEF r
  <2> QED
      BY <2>2, <2>3 DEF Commits
<1>5. CASE Slide
  <2>1. PICK p \in pending_forced_movement, evidence \in Raw :
           \E d \in p.options : ResolveForcedMovement(p, d, evidence)
      BY <1>5 DEF Slide
  <2>2. PICK destination \in p.options : ResolveForcedMovement(p, destination, evidence)
      BY <2>1
  <2> DEFINE e     == p.random_values \o evidence
             cells == {destination}
             bound == [p.intent EXCEPT !.cells = cells]
             r     == Resolve(state, e, bound, "none")
  <2>3. Commit(r, bound)
      BY <2>2 DEF ResolveForcedMovement
  <2>4. /\ p.intent \in Intents
        /\ cells \subseteq Cells
        /\ p.random_values \in Seq(Values)
      BY <1>1, SeqMonotonic DEF Waiting, PendingForcedMovements, Values
  <2> HIDE DEF cells
  <2>5. bound \in Intents /\ e \in Seq(Values)
      BY <2>4, EvidenceType, ConcatProperties DEF Intents
  <2>6. Complete(r, state.revision, e)
    <3> HIDE DEF e, bound
    <3> QED
        BY <1>2, <2>3, <2>5, ResolveComplete DEF Commit, Acceptable
  <2> HIDE DEF r, e, bound
  <2> QED
      BY <2>3, <2>5, <2>6 DEF Commits
<1>6. CASE ControlAccepted
    BY <1>2, <1>6, EmptyEvidence DEF ControlAccepted, Controllable, EndsTheTurn
<1>7. CASE ControlAwaitingTurnSave
    BY <1>7 DEF ControlAwaitingTurnSave
<1>8. CASE Save
  <2>1. PICK p \in pending_turn_save, evidence \in Raw : ResolvePendingTurnSave(p, evidence)
      BY <1>8 DEF Save
  <2> DEFINE s == AfterSaves(state, p.actor, evidence)
  <2>2. p.actor = turn.actor /\ turn.actor \in Living(state)
      BY <1>1, <2>1 DEF Waiting, SuspendedIsCurrent
  <2>3. /\ s \in States
        /\ Solvent(s)
        /\ s.vitality = state.vitality
        /\ s.position = state.position
      BY <1>2, <2>2, AfterSavesSound
  <2>4. EndTurnFrom(s, evidence)
      BY <2>1 DEF ResolvePendingTurnSave
  <2>5. evidence \in Seq(Rolls)
      BY <2>1, SavedRolls
  <2> HIDE DEF s
  <2> QED
      BY <2>2, <2>3, <2>4, <2>5 DEF EndsTheTurn
<1> QED
    BY <1>3, <1>4, <1>5, <1>6, <1>7, <1>8 DEF Next, Control

-------------------------------------------------------------------------------
(* The order in which turns pass. *)

\* Every step that ends a turn takes the next one from a capability state with
\* the vitality the step leaves behind, in which somebody is alive.
Passes ==
    \E s \in States :
        /\ Living(s) # {}
        /\ turn' = NextTurn(turn, s)
        /\ state'.vitality = s.vitality

\* A turn that passes on goes to the next living participant in order.
LEMMA PassesIsInOrder ==
    ASSUME turn \in Turns, Passes
    PROVE  PassesInOrder /\ turn'.actor \in Living(state')
<1>1. PICK s \in States : /\ Living(s) # {}
                          /\ turn' = NextTurn(turn, s)
                          /\ state'.vitality = s.vitality
    BY DEF Passes
<1>2. Living(state') = Living(s)
    BY <1>1 DEF Living
<1> DEFINE next == NextTurn(turn, s)
<1>3. /\ next \in Turns
      /\ next.actor \in Living(s)
      /\ next.turn = turn.turn + 1
      /\ next.round = IF Place(next.actor) <= Place(turn.actor)
                      THEN turn.round + 1 ELSE turn.round
      /\ \A k \in PassedOver(Place(turn.actor), Place(next.actor)) :
            Initiative[k] \notin Living(s)
    BY <1>1, NextTurnIsNearestLiving
<1>4. turn.round \in Nat /\ turn.round + 1 - turn.round = 1 /\ turn.round - turn.round = 0
    BY DEF Turns
<1> HIDE DEF next
<1>5. turn' = next
    BY <1>1 DEF next
<1> QED
    BY <1>2, <1>3, <1>4, <1>5 DEF PassesInOrder

\* Where a turn was ended, it passed; where it was not, the fixed economy has
\* nobody left to fight.
TurnStep ==
    \/ Passes
    \/ /\ turn' = turn
       /\ \/ Economy # "fixed"
          \/ ~InProgress(state')
          \/ state' = state

\* A committed command takes a turn step.
LEMMA CommitTurns ==
    ASSUME turn \in Turns, NEW r, NEW n, NEW evidence, Complete(r, n, evidence),
           NEW i, Commit(r, i)
    PROVE  TurnStep
<1> DEFINE saved == Saved(r)
           next  == NextTurn(turn, saved.state)
<1>1. /\ Complete(saved, n, evidence)
      /\ saved.state.vitality = r.state.vitality
    BY SavedComplete DEF Commit
<1>2. saved.state \in States /\ Solvent(saved.state)
    BY <1>1 DEF Complete, Runs
<1>3. next \in Turns
    BY NextTurnType
<1>4. CASE EndsTurn(r)
  <2>1. state' = AdvanceTurn(saved.state, next) /\ turn' = next
      BY <1>4 DEF Commit
  <2>2. Living(saved.state) # {}
      BY <1>1, <1>4 DEF EndsTurn, InProgress, Living
  <2>3. state'.vitality = saved.state.vitality
    <3> HIDE DEF saved, next
    <3> QED
        BY <1>2, <1>3, <2>1, AdvanceTurnSound
  <2>4. turn' = NextTurn(turn, saved.state)
      BY <2>1
  <2> HIDE DEF saved, next
  <2> QED
      BY <1>2, <2>2, <2>3, <2>4 DEF TurnStep, Passes
<1>5. CASE ~EndsTurn(r)
  <2>1. state' = saved.state /\ turn' = turn
      BY <1>5 DEF Commit
  <2>2. Economy = "fixed" => ~InProgress(state')
      BY <1>1, <1>5, <2>1 DEF EndsTurn, InProgress, Living
  <2> QED
      BY <2>1, <2>2 DEF TurnStep
<1> QED
    BY <1>4, <1>5

\* The end of a turn takes a turn step.
LEMMA EndTurnTurns ==
    ASSUME turn \in Turns, NEW s \in States, Solvent(s), Living(s) # {},
           NEW evidence, EndTurnFrom(s, evidence)
    PROVE  TurnStep
<1> DEFINE next == NextTurn(turn, s)
           x    == AdvanceTurn(s, next)
           n    == x.revision + 1
           y    == [x EXCEPT !.revision = n]
<1>1. next \in Turns
    BY NextTurnType
<1>2. x \in States /\ x.vitality = s.vitality
  <2> HIDE DEF next
  <2> QED
      BY <1>1, AdvanceTurnSound
<1>3. state' = y /\ turn' = next
    BY DEF EndTurnFrom
<1> HIDE DEF x, n
<1>4. y.vitality = s.vitality
    BY <1>2 DEF States
<1> QED
    BY <1>3, <1>4 DEF TurnStep, Passes

\* Whatever a step accepts or suspends, it passes the turn in order or not at all.
LEMMA NextTurns ==
    ASSUME IInv, Next
    PROVE  TurnStep
<1>1. turn \in Turns
    BY InvariantParts DEF Core
<1>2. CASE Commits
    BY <1>1, <1>2, CommitTurns DEF Commits
<1>3. CASE EndsTheTurn
  <2>1. PICK s \in States, evidence \in Seq(Rolls) :
           /\ Solvent(s)
           /\ s.vitality = state.vitality
           /\ turn.actor \in Living(state)
           /\ EndTurnFrom(s, evidence)
      BY <1>3 DEF EndsTheTurn
  <2>2. Living(s) # {}
      BY <2>1 DEF Living
  <2> QED
      BY <1>1, <2>1, <2>2, EndTurnTurns
<1>4. CASE UNCHANGED <<state, turn, log>>
    BY <1>4 DEF TurnStep
<1> QED
    BY <1>2, <1>3, <1>4, NextKinds

\* Whether it is an accepted action, an answered reaction, a slide, a control
\* or a save phase that ends a turn, the turn passes to the nearest living
\* participant of the order and the counters of next_turn agree with it.
THEOREM TurnsPassInOrder == Spec => TurnPassesInOrder
<1>1. IInv /\ [Next]_vars => [turn' # turn => PassesInOrder]_vars
  <2> SUFFICES ASSUME IInv, Next
               PROVE  turn' # turn => PassesInOrder
      OBVIOUS
  <2>1. turn \in Turns
      BY InvariantParts DEF Core
  <2> QED
      BY <2>1, NextTurns, PassesIsInOrder DEF TurnStep
<1> QED
    BY <1>1, InductiveInvariant, PTL DEF Spec, TurnPassesInOrder

\* In the fixed economy the turn belongs to somebody alive as long as two
\* teams fight.  With activation budgets it does not (the run
\* variable_current_actor): a movement reaction can kill the acting mover.
THEOREM FixedActorLives ==
    ASSUME Economy = "fixed"
    PROVE  Spec => []CurrentActorLives
<1>1. Init => CurrentActorLives
    BY DEF Init, CurrentActorLives, Living
<1>2. IInv /\ CurrentActorLives /\ [Next]_vars => CurrentActorLives'
  <2> SUFFICES ASSUME IInv, CurrentActorLives, [Next]_vars
               PROVE  CurrentActorLives'
      OBVIOUS
  <2>1. turn \in Turns
      BY InvariantParts DEF Core
  <2>2. CASE UNCHANGED vars
      BY <2>2 DEF vars, CurrentActorLives, InProgress, Living
  <2>3. CASE Next
    <3>1. CASE Passes
        BY <2>1, <3>1, PassesIsInOrder DEF CurrentActorLives
    <3>2. CASE turn' = turn /\ ~InProgress(state')
        BY <3>2 DEF CurrentActorLives, InProgress, Living
    <3>3. CASE turn' = turn /\ state' = state
        BY <3>3 DEF CurrentActorLives, InProgress, Living
    <3> QED
        BY <2>3, <3>1, <3>2, <3>3, NextTurns DEF TurnStep
  <2> QED
      BY <2>2, <2>3
<1> QED
    BY <1>1, <1>2, InductiveInvariant, PTL DEF Spec

-------------------------------------------------------------------------------
(* What a turn has paid for. *)

\* The counts "f" of the entries are the ones PaidUpTo asks for.
Counts(f, entries) ==
    f = [k \in 0 .. Len(entries) |->
            IF k = 0 \/ entries[k].action = EndTurn
            THEN 0
            ELSE f[k - 1] + entries[k].activations]

\* There are such counts, up to every entry of the log.
LEMMA CountsExist ==
    ASSUME NEW entries, Len(entries) \in Nat
    PROVE  \E f : Counts(f, entries)
<1> DEFINE n == Len(entries)
           value(f, k) == IF k = 0 \/ entries[k].action = EndTurn
                          THEN 0
                          ELSE f[k - 1] + entries[k].activations
           S == {m \in 0 .. n : \E f : f = [k \in 0 .. m |-> value(f, k)]}
<1>1. 0 \in S
  <2> DEFINE f == [k \in 0 .. 0 |-> 0]
  <2>1. f = [k \in 0 .. 0 |-> value(f, k)]
      OBVIOUS
  <2>2. 0 \in 0 .. n
      OBVIOUS
  <2> HIDE DEF f, value
  <2> QED
      BY <2>1, <2>2
<1>2. ASSUME NEW m \in 1 .. n, m - 1 \in S
      PROVE  m \in S
  <2>1. PICK f : f = [k \in 0 .. m - 1 |-> value(f, k)]
      BY <1>2
  <2> DEFINE g == [k \in 0 .. m |-> IF k = m THEN value(f, m) ELSE f[k]]
  <2>2. \A k \in 0 .. m - 1 : g[k] = f[k]
      BY <1>2
  <2>3. ASSUME NEW k \in 0 .. m
        PROVE  g[k] = value(g, k)
    <3>1. k # 0 => k - 1 \in 0 .. m - 1
        OBVIOUS
    <3>2. k # 0 => g[k - 1] = f[k - 1]
        BY <2>2, <3>1
    <3>3. value(g, k) = value(f, k)
        BY <3>2
    <3>4. g[k] = value(f, k)
      <4>1. CASE k = m
          BY <4>1
      <4>2. CASE k # m
        <5>1. k \in 0 .. m - 1
            BY <4>2
        <5>2. f[k] = value(f, k)
          <6> HIDE DEF value
          <6> QED
              BY <2>1, <5>1
        <5> QED
            BY <2>2, <5>1, <5>2
      <4> QED
          BY <4>1, <4>2
    <3> QED
        BY <3>3, <3>4
  <2>4. g = [k \in 0 .. m |-> value(g, k)]
    <3>1. g = [k \in 0 .. m |-> g[k]]
        OBVIOUS
    <3> HIDE DEF g, value
    <3> QED
        BY <2>3, <3>1
  <2>5. m \in 0 .. n
      BY <1>2
  <2> HIDE DEF g, value
  <2> QED
      BY <2>4, <2>5
<1>3. n \in S
  <2>1. \A m \in 1 .. n : m - 1 \in S => m \in S
      BY <1>2
  <2> HIDE DEF S
  <2>2. 0 .. n \subseteq S
      BY <1>1, <2>1, CountingUp
  <2> QED
      BY <2>2
<1> QED
    BY <1>3 DEF Counts

\* PaidUpTo is what it says it is.
LEMMA PaidUpToCounts ==
    ASSUME NEW entries, Len(entries) \in Nat
    PROVE  Counts(PaidUpTo(entries), entries)
BY CountsExist DEF Counts, PaidUpTo

\* Another entry leaves the counts of the earlier ones alone.
LEMMA PaidAppend ==
    ASSUME NEW entries \in Seq(Entries), NEW e \in Entries
    PROVE  LET n == Len(entries)
           IN  PaidUpTo(Append(entries, e))[Len(Append(entries, e))]
                  = IF e.action = EndTurn THEN 0
                    ELSE PaidUpTo(entries)[n] + e.activations
<1> DEFINE n     == Len(entries)
           more  == Append(entries, e)
           f     == PaidUpTo(entries)
           g     == PaidUpTo(more)
           S     == {k \in 0 .. n : f[k] = g[k]}
<1>1. /\ n \in Nat
      /\ more \in Seq(Entries)
      /\ Len(more) = n + 1
      /\ \A k \in 1 .. n : more[k] = entries[k]
      /\ more[n + 1] = e
    BY AppendProperties, LenProperties
<1>2. Counts(f, entries) /\ Counts(g, more)
    BY <1>1, PaidUpToCounts
<1> HIDE DEF f, g, more, n
<1>3. f[0] = 0 /\ g[0] = 0
    BY <1>1, <1>2 DEF Counts, n
<1>4. \A k \in 1 .. n : f[k] = IF entries[k].action = EndTurn
                                THEN 0 ELSE f[k - 1] + entries[k].activations
    BY <1>1, <1>2 DEF Counts, n
<1>5. \A k \in 1 .. n + 1 : g[k] = IF more[k].action = EndTurn
                                    THEN 0 ELSE g[k - 1] + more[k].activations
    BY <1>1, <1>2 DEF Counts
<1>6. 0 \in S
    BY <1>1, <1>3
<1>7. ASSUME NEW k \in 1 .. n, k - 1 \in S
      PROVE  k \in S
    BY <1>1, <1>4, <1>5, <1>7
<1>8. n \in S
  <2>1. \A k \in 1 .. n : k - 1 \in S => k \in S
      BY <1>7
  <2> HIDE DEF S
  <2>2. 0 .. n \subseteq S
      BY <1>1, <1>6, <2>1, CountingUp
  <2> QED
      BY <1>1, <2>2
<1>9. g[n + 1] = IF e.action = EndTurn THEN 0 ELSE g[n] + e.activations
    BY <1>1, <1>5
<1> QED
    BY <1>1, <1>8, <1>9 DEF f, g, more, n

\* What a step logs is what it adds to the count of the turn, or it starts
\* the count again.
Pays(entry) ==
    /\ entry \in Entries
    /\ log' = Append(log, entry)
    /\ state'.activations = IF entry.action = EndTurn
                            THEN 0 ELSE state.activations + entry.activations

\* A committed command pays for itself; when it ends the turn of the fixed
\* economy there is nothing to pay.
LEMMA CommitPays ==
    ASSUME Core, Commits
    PROVE  \E entry : Pays(entry)
<1>1. PICK r : \E i \in Intents : \E evidence :
         Complete(r, state.revision, evidence) /\ Commit(r, i)
    BY DEF Commits
<1>2. PICK i \in Intents : \E evidence :
         Complete(r, state.revision, evidence) /\ Commit(r, i)
    BY <1>1
<1>3. PICK evidence : Complete(r, state.revision, evidence) /\ Commit(r, i)
    BY <1>2
<1> DEFINE saved == Saved(r)
           next  == IF EndsTurn(r) THEN NextTurn(turn, saved.state) ELSE turn
           a     == saved.state.activations - state.activations
           entry == [state_revision |-> saved.state.revision, actor |-> i.actor,
                     action |-> i.action, evidence |-> saved.used, activations |-> a]
<1>4. /\ state \in States
      /\ turn \in Turns
      /\ Solvent(state)
    BY DEF Core
<1>5. /\ Complete(saved, state.revision, evidence)
      /\ saved.used \in Seq(Rolls)
    BY <1>3, <1>4, SavedComplete DEF Commit
<1>6. /\ saved.state \in States
      /\ Solvent(saved.state)
    BY <1>5 DEF Complete, Runs
<1>7. next \in Turns
    BY <1>4, NextTurnType
<1>8. /\ state' = IF EndsTurn(r) THEN AdvanceTurn(saved.state, next) ELSE saved.state
      /\ log' = Append(log, entry)
    BY <1>3 DEF Commit, Record
<1> HIDE DEF saved, next
<1>9. /\ saved.state.activations \in Nat
      /\ state.activations \in Nat
      /\ saved.state.revision \in Nat
    BY <1>4, <1>6 DEF States
<1>10. i.actor \in Participants /\ i.action \in ActionIds /\ i.action # EndTurn
    BY <1>3, SessionAssumption DEF Intents
<1>11. entry \in Entries /\ entry.action # EndTurn /\ entry.activations = a
    BY <1>5, <1>9, <1>10 DEF Entries
<1>12. state'.activations = state.activations + a
  <2>1. CASE ~EndsTurn(r)
      BY <1>8, <1>9, <2>1
  <2>2. CASE EndsTurn(r)
    <3>1. Economy = "fixed"
        BY <2>2 DEF EndsTurn
    <3>2. state.activations = 0 /\ saved.state.activations = 0
        BY <1>4, <1>6, <1>9, <3>1 DEF Solvent
    <3>3. state'.activations = 0
        BY <1>6, <1>8, <2>2 DEF AdvanceTurn, States
    <3> QED
        BY <3>2, <3>3
  <2> QED
      BY <2>1, <2>2
<1> HIDE DEF entry, a
<1> QED
    BY <1>8, <1>11, <1>12 DEF Pays

\* The end of a turn starts the count again.
LEMMA EndTurnPays ==
    ASSUME Core, EndsTheTurn
    PROVE  \E entry : Pays(entry)
<1>1. PICK s \in States, evidence \in Seq(Rolls) : Solvent(s) /\ EndTurnFrom(s, evidence)
    BY DEF EndsTheTurn
<1> DEFINE next  == NextTurn(turn, s)
           x     == AdvanceTurn(s, next)
           n     == x.revision + 1
           entry == [state_revision |-> state.revision + 1, actor |-> turn.actor,
                     action |-> EndTurn, evidence |-> evidence, activations |-> 0]
<1>2. /\ state.revision \in Nat
      /\ turn \in Turns
      /\ turn.actor \in Participants
    BY DEF Core, States, Turns
<1>3. next \in Turns
    BY <1>2, NextTurnType
<1>4. x \in States /\ x.activations = 0
  <2> HIDE DEF next
  <2>1. x \in States
      BY <1>1, <1>3, AdvanceTurnSound
  <2>2. x.activations = 0
      BY <1>1 DEF AdvanceTurn, States
  <2> QED
      BY <2>1, <2>2
<1>5. state' = [x EXCEPT !.revision = n] /\ log' = Append(log, entry)
    BY <1>1 DEF EndTurnFrom, Record
<1> HIDE DEF x, n, next
<1>6. state'.activations = 0
    BY <1>4, <1>5 DEF States
<1>7. entry \in Entries /\ entry.action = EndTurn
    BY <1>1, <1>2 DEF Entries
<1> HIDE DEF entry
<1> QED
    BY <1>5, <1>6, <1>7 DEF Pays

\* The activations of the turn are the ones that the accepted transactions
\* since the last end of a turn paid for, whichever way each was accepted.
THEOREM ActivationsArePaidOnce == Spec => []ActivationsPaidOnce
<1>1. Init => ActivationsPaidOnce
  <2> SUFFICES ASSUME Init
               PROVE  ActivationsPaidOnce
      OBVIOUS
  <2> DEFINE f == PaidUpTo(log)
  <2>1. Len(log) = 0 /\ state.activations = 0
      BY DEF Init
  <2>2. Counts(f, log)
      BY <2>1, PaidUpToCounts
  <2> HIDE DEF f
  <2>3. f[0] = 0
      BY <2>1, <2>2 DEF Counts
  <2> QED
      BY <2>1, <2>3 DEF ActivationsPaidOnce, f
<1>2. IInv /\ ActivationsPaidOnce /\ [Next]_vars => ActivationsPaidOnce'
  <2> SUFFICES ASSUME IInv, ActivationsPaidOnce, [Next]_vars
               PROVE  ActivationsPaidOnce'
      OBVIOUS
  <2>1. Core /\ log \in Seq(Entries)
      BY InvariantParts DEF Core
  <2>2. ASSUME NEW entry, Pays(entry)
        PROVE  ActivationsPaidOnce'
    <3>1. PaidUpTo(log')[Len(log')] = IF entry.action = EndTurn THEN 0
                                      ELSE PaidUpTo(log)[Len(log)] + entry.activations
        BY <2>1, <2>2, PaidAppend DEF Pays
    <3> QED
        BY <2>2, <3>1 DEF Pays, ActivationsPaidOnce
  <2>3. CASE UNCHANGED <<state, turn, log>>
      BY <2>3 DEF ActivationsPaidOnce
  <2>4. CASE UNCHANGED vars
      BY <2>3, <2>4 DEF vars
  <2>5. CASE Next
      BY <2>1, <2>2, <2>3, <2>5, NextKinds, CommitPays, EndTurnPays
  <2> QED
      BY <2>4, <2>5
<1> QED
    BY <1>1, <1>2, InductiveInvariant, PTL DEF Spec

-------------------------------------------------------------------------------
(* Slides that wait for a destination. *)

\* A slide waits for the one whose turn it was when it began to wait.
SlideActor == \A p \in pending_forced_movement : p.intent.actor = p.turn.actor

\* Only resolve_forced_movement ends the wait of a slide, and only a command
\* of the one in turn begins one.
LEMMA SlidesKept ==
    ASSUME Next
    PROVE  \/ UNCHANGED pending_forced_movement
           \/ Slide /\ pending_forced_movement' = {}
           \/ pending_forced_movement = {} /\ SlideActor'
<1>1. CASE Submit
  <2>1. PICK i \in Proposals, evidence \in Drawn :
           /\ Submittable(i)
           /\ \E r \in {Resolve(state, evidence, i, "none")} :
                 \/ SubmitAccepted(i, r)
                 \/ SubmitPush(i, r, evidence)
                 \/ SubmitAwaitingReaction(i, r, evidence)
                 \/ SubmitAwaitingForcedMovement(i, r, evidence)
      BY <1>1 DEF Submit
  <2> DEFINE r == Resolve(state, evidence, i, "none")
  <2>2. CASE SubmitAccepted(i, r)
      BY <2>2 DEF SubmitAccepted, phases
  <2>3. CASE SubmitPush(i, r, evidence)
      BY <2>3 DEF SubmitPush, phases
  <2>4. CASE SubmitAwaitingReaction(i, r, evidence)
      BY <2>4 DEF SubmitAwaitingReaction
  <2>5. CASE SubmitAwaitingForcedMovement(i, r, evidence)
    <3>1. pending_forced_movement = {} /\ i.actor = turn.actor
        BY <2>1 DEF Submittable, NoPhase, Eligible
    <3>2. \A p \in pending_forced_movement' : p.intent = i /\ p.turn = turn
      <4> HIDE DEF r
      <4> QED
          BY <2>5 DEF SubmitAwaitingForcedMovement, Slides
    <3> QED
        BY <3>1, <3>2 DEF SlideActor
  <2> QED
      BY <2>1, <2>2, <2>3, <2>4, <2>5
<1>2. CASE React
    BY <1>2 DEF React, ReactAccepted
<1>3. CASE Slide
    BY <1>3 DEF Slide, ResolveForcedMovement
<1>4. CASE ControlAccepted
    BY <1>4 DEF ControlAccepted, phases
<1>5. CASE ControlAwaitingTurnSave
    BY <1>5 DEF ControlAwaitingTurnSave
<1>6. CASE Save
    BY <1>6 DEF Save, ResolvePendingTurnSave
<1> QED
    BY <1>1, <1>2, <1>3, <1>4, <1>5, <1>6 DEF Next, Control

\* The commit of a slide is logged for the actor and the revision of the turn
\* its destinations were projected in.
LEMMA SlideEntry ==
    ASSUME IInv, SlideActor, NEW p \in pending_forced_movement, Slide
    PROVE  /\ log' # log
           /\ log'[Len(log')].state_revision = p.authority_revision + 1
           /\ log'[Len(log')].actor = p.turn.actor
<1>1. Core /\ Waiting
    BY InvariantParts
<1>2. PICK q \in pending_forced_movement, evidence \in Raw :
         \E d \in q.options : ResolveForcedMovement(q, d, evidence)
    BY DEF Slide
<1>3. q = p
    BY <1>1 DEF Waiting
<1>4. PICK destination \in p.options : ResolveForcedMovement(p, destination, evidence)
    BY <1>2, <1>3
<1> DEFINE e     == p.random_values \o evidence
           bound == [p.intent EXCEPT !.cells = {destination}]
           r     == Resolve(state, e, bound, "none")
<1>5. /\ p.intent \in Intents
      /\ destination \in Cells
      /\ p.random_values \in Seq(Values)
    BY <1>1, SeqMonotonic DEF Waiting, PendingForcedMovements, Values
<1>6. bound \in Intents /\ bound.actor = p.intent.actor
    BY <1>5 DEF Intents
<1>7. e \in Seq(Values)
    BY <1>5, EvidenceType, ConcatProperties
<1>8. /\ Commit(r, bound)
      /\ p.authority_revision = state.revision
      /\ p.turn = turn
    BY <1>4 DEF ResolveForcedMovement, OptionsCurrent
<1>9. Complete(r, state.revision, e)
  <2> HIDE DEF e, bound
  <2> QED
      BY <1>1, <1>6, <1>7, <1>8, ResolveComplete DEF Core, Commit, Acceptable
<1>10. Logged(state.revision, bound.actor, bound.action, e) /\ e \in Seq(Rolls)
  <2> HIDE DEF r, e, bound
  <2> QED
      BY <1>1, <1>6, <1>8, <1>9, CommitLogs DEF Core
<1> HIDE DEF e, bound
<1>11. PICK a \in Int :
          log' = Append(log, [state_revision |-> state.revision + 1, actor |-> bound.actor,
                              action |-> bound.action, evidence |-> e, activations |-> a])
    BY <1>10 DEF Logged
<1> DEFINE x == [state_revision |-> state.revision + 1, actor |-> bound.actor,
                 action |-> bound.action, evidence |-> e, activations |-> a]
<1>12. x \in Entries /\ x.state_revision = state.revision + 1 /\ x.actor = bound.actor
    BY <1>1, <1>6, <1>10 DEF Core, States, Entries, Intents
<1>13. log' = Append(log, x)
    BY <1>11
<1> HIDE DEF x
<1>14. /\ Len(log') = Len(log) + 1
       /\ log'[Len(log')] = x
       /\ Len(log) \in Nat
    BY <1>1, <1>12, <1>13, AppendProperties, LenProperties DEF Core
<1>15. log' # log
    BY <1>14
<1> QED
    BY <1>6, <1>8, <1>12, <1>14, <1>15 DEF SlideActor

\* Although a turn can end while a slide waits, a slide is never carried out
\* on another turn: it is then left without an answer instead.
THEOREM SlidesStayOnTheirTurn == Spec => SlideCommitsOnItsTurn
<1>1. Init => SlideActor
    BY DEF Init, SlideActor
<1>2. SlideActor /\ [Next]_vars => SlideActor'
  <2>1. CASE UNCHANGED vars
      BY <2>1 DEF vars, phases, SlideActor
  <2>2. CASE Next
      BY <2>2, SlidesKept DEF SlideActor
  <2> QED
      BY <2>1, <2>2
<1>3. IInv /\ SlideActor /\ [Next]_vars =>
         [\A p \in pending_forced_movement : pending_forced_movement' = {} =>
             /\ log' # log
             /\ log'[Len(log')].state_revision = p.authority_revision + 1
             /\ log'[Len(log')].actor = p.turn.actor]_vars
    BY SlidesKept, SlideEntry
<1> QED
    BY <1>1, <1>2, <1>3, InductiveInvariant, PTL DEF Spec, SlideCommitsOnItsTurn

-------------------------------------------------------------------------------
(* Steps that a movement reaction interrupts. *)

\* Saves and the end of a turn move nobody.
LEMMA CommitMovesNobody ==
    ASSUME Core, NEW r, NEW evidence, Complete(r, state.revision, evidence),
           NEW i, Commit(r, i)
    PROVE  state'.position = r.state.position
<1> DEFINE saved == Saved(r)
           next  == NextTurn(turn, saved.state)
<1>1. turn \in Turns /\ turn.actor \in Participants
    BY DEF Core, Turns
<1>2. Complete(saved, state.revision, evidence)
    BY <1>1, SavedComplete DEF Commit
<1>3. saved.state \in States /\ Solvent(saved.state)
    BY <1>2 DEF Complete, Runs
<1>4. saved.state.position = r.state.position
  <2>1. CASE ~EndsTurn(r)
      BY <2>1 DEF Saved
  <2>2. CASE EndsTurn(r)
    <3> DEFINE count  == Cardinality(r.state.effects[turn.actor])
               values == SubSeq(r.left, 1, count)
               x      == AfterSaves(r.state, turn.actor, values)
               rest   == SubSeq(r.left, count + 1, Len(r.left))
               used   == r.used \o values
    <3>1. saved = AutomaticSaves(r)
        BY <2>2 DEF Saved
    <3>2. r \in Runs /\ r.state \in States /\ Solvent(r.state)
        BY DEF Complete, Runs
    <3>3. x.position = r.state.position
        BY <1>1, <3>2, AfterSavesSound
    <3>4. saved \in {Stop(r, "evidence"), Stop(r, "illegal"),
                     [r EXCEPT !.state = x, !.left = rest, !.used = used]}
        BY <3>1 DEF AutomaticSaves
    <3> HIDE DEF saved, x, rest, used
    <3> QED
        BY <3>2, <3>3, <3>4 DEF Stop, Runs
  <2> QED
      BY <2>1, <2>2
<1>5. next \in Turns
    BY <1>1, NextTurnType
<1>6. CASE EndsTurn(r)
  <2>1. state' = AdvanceTurn(saved.state, next)
      BY <1>6 DEF Commit
  <2> HIDE DEF saved, next
  <2> QED
      BY <1>3, <1>4, <1>5, <2>1, AdvanceTurnSound
<1>7. CASE ~EndsTurn(r)
    BY <1>4, <1>7 DEF Commit
<1> QED
    BY <1>6, <1>7

\* A command that needs a cell and has none is refused.
LEMMA UnboundStops ==
    ASSUME NEW s \in States, NEW evidence, NEW i \in Intents, ~Bound(i), NEW decision
    PROVE  ~Running(ResolveEmbedded(s, evidence, i, decision))
<1> DEFINE staged  == Staged(s, evidence)
           legal   == Begin(staged, i)
           checked == ResolveChecks(legal, i)
<1>1. ~LegalIntent(staged.state, i)
    BY DEF Bound, LegalIntent
<1>2. legal = Stop(staged, "illegal") /\ ~Running(legal)
    BY <1>1 DEF Begin, Running, Stop, Staged
<1>3. checked = legal
    BY <1>2 DEF ResolveChecks
<1>4. ExecuteProgram(checked, i, decision) = legal
    BY <1>2, <1>3 DEF ExecuteProgram, Operate
<1> HIDE DEF legal
<1> QED
    BY <1>2, <1>4 DEF ResolveEmbedded, DecisionUsed, legal

\* The mover is put back for the response, which moves nobody else, and then
\* lands where its step ends.
LEMMA RespondMoves ==
    ASSUME NEW r, NEW n, NEW evidence, Complete(r, n, evidence), Running(r),
           NEW c \in MovementContexts, NEW mover \in Participants,
           NEW position \in [Participants -> Cells],
           c.start = position[mover],
           r.state.position = [position EXCEPT ![mover] = c.end],
           Running(Respond(r, c, mover))
    PROVE  Respond(r, c, mover).state.position = [position EXCEPT ![mover] = c.end]
<1> DEFINE back     == MoveEntity(r, mover, c.start, 64)
           start    == c.start
           i        == ResponseIntent(c, mover)
           response == ResolveEmbedded(back.state, r.left, i, "none")
           forward  == MoveEntity(response, mover, c.end, 64)
           used     == r.used \o response.used
           q        == [forward EXCEPT !.used = used]
<1>1. /\ r \in Runs
      /\ r.left \in Seq(Values)
      /\ Sound(r, r.state, evidence)
    BY SeqMonotonic DEF Complete, Runs, Sound, Values
<1>2. /\ c.start \in Cells
      /\ c.end \in Cells
      /\ i \in Intents
      /\ i.cells = {}
      /\ i.action = Registration.response
    BY SessionAssumption DEF MovementContexts, ResponseIntent, Intents
<1>3. /\ Sound(back, r.state, evidence)
      /\ Running(back) => back = [r EXCEPT !.state.position[mover] = start]
  <2> HIDE DEF i, start
  <2>1. back = MoveEntity(r, mover, start, 64)
      BY DEF start
  <2>2. start \in Cells
      BY <1>2 DEF start
  <2>3. Sound(MoveEntity(r, mover, start, 64), r.state, evidence)
      BY <1>1, <2>2, MoveEntitySound
  <2>4. Running(MoveEntity(r, mover, start, 64))
           => MoveEntity(r, mover, start, 64) = [r EXCEPT !.state.position[mover] = start]
      BY DEF MoveEntity, Running, Stop
  <2> HIDE DEF back
  <2> QED
      BY <2>1, <2>3, <2>4
<1>4. back \in Runs /\ back.state \in States /\ Solvent(back.state)
    BY <1>3 DEF Sound, Runs
<1> HIDE DEF back, i
<1>5. Sound(response, back.state, r.left) /\ Moved(response, back.state, i)
    BY <1>1, <1>2, <1>4, ResolveEmbeddedSound, ResolveEmbeddedMoves
<1>6. Running(response) => Bound(i)
    BY <1>2, <1>4, UnboundStops
<1> HIDE DEF response
<1>7. response \in Runs
    BY <1>5 DEF Sound
<1>8. /\ Sound(forward, back.state, r.left)
      /\ Running(forward) => forward = [response EXCEPT !.state.position[mover] = c.end]
    BY <1>2, <1>5, MoveEntitySound
<1>9. Running(back) /\ Running(response) /\ Respond(r, c, mover) = q
    BY DEF Respond, back, response, i
<1>10. back.state.position = position
  <2>1. back.state.position = [r.state.position EXCEPT ![mover] = start]
    <3> HIDE DEF start
    <3>1. back = [r EXCEPT !.state.position[mover] = start]
        BY <1>3, <1>9
    <3>2. r.state.position \in [Participants -> Cells]
        BY <1>1 DEF Runs, States
    <3> QED
        BY <1>1, <3>1, <3>2 DEF Runs, States
  <2> QED
      BY <2>1
<1>11. response.state.position = position
    BY <1>2, <1>5, <1>6, <1>9, <1>10 DEF Bound, Moved
<1>12. forward \in Runs
    BY <1>8 DEF Sound
<1> HIDE DEF used, forward
<1>13. Running(forward)
    BY <1>9, <1>12 DEF Running, Runs
<1>14. forward.state.position = [response.state.position EXCEPT ![mover] = c.end]
    BY <1>7, <1>8, <1>13 DEF Runs, States
<1>15. q.state = forward.state
    BY <1>12 DEF Runs
<1> QED
    BY <1>9, <1>11, <1>14, <1>15

\* A movement reaction names the one step of the run it answers.
LEMMA ReactionNamesStep ==
    ASSUME NEW r, NEW c \in MovementReaction(r)
    PROVE  \E m \in r.voluntary : c.start = m.start /\ c.end = m.end
BY DEF MovementReaction

\* A reaction ends by being answered.
LEMMA OnlyReactCloses ==
    ASSUME IInv, Next, NEW p \in pending, pending' = {}
    PROVE  \E decision \in {"decline", "accept"} : \E evidence \in Raw :
              ReactAccepted(p, decision, evidence)
<1>1. CASE Submit
    BY <1>1 DEF Submit, Submittable, NoPhase
<1>2. CASE React
  <2>1. PICK q \in pending, decision \in {"decline", "accept"}, evidence \in Raw :
           ReactAccepted(q, decision, evidence)
      BY <1>2 DEF React
  <2>2. q = p
      BY InvariantParts DEF Waiting
  <2> QED
      BY <2>1, <2>2
<1>3. CASE Slide
    BY <1>3 DEF Slide, ResolveForcedMovement
<1>4. CASE Control
    BY <1>4 DEF Control, ControlAccepted, ControlAwaitingTurnSave, Controllable
<1>5. CASE Save
    BY <1>5 DEF Save, ResolvePendingTurnSave
<1> QED
    BY <1>1, <1>2, <1>3, <1>4, <1>5 DEF Next

\* The answer to a movement reaction completes the step.
LEMMA InterruptedLands ==
    ASSUME IInv, NEW p \in pending, NEW c \in p.movement,
           NEW decision, NEW evidence \in Raw, ReactAccepted(p, decision, evidence)
    PROVE  state'.position = [state.position EXCEPT ![p.intent.actor] = c.end]
<1> DEFINE e     == p.random_values \o evidence
           i     == p.intent
           base  == Resolve(state, e, i, "none")
           first == CHOOSE d \in p.movement : TRUE
           r     == Answer(p, decision, evidence)
           land(x) == [state.position EXCEPT ![i.actor] = x]
<1>1. Core /\ Waiting
    BY InvariantParts
<1>2. /\ p \in PendingReactions
      /\ i \in Intents
      /\ i.actor \in Participants
      /\ p.movement \subseteq MovementContexts
      /\ p.random_values \in Seq(Values)
      /\ evidence \in Seq(Values)
    BY <1>1, EvidenceType, SeqMonotonic DEF Waiting, PendingReactions, Intents, Values
<1>3. e \in Seq(Values)
    BY <1>2, ConcatProperties
<1>4. /\ state \in States
      /\ Solvent(state)
      /\ state.position \in [Participants -> Cells]
    BY <1>1 DEF Core, States
<1>5. Commit(r, i) /\ Running(r)
    BY DEF ReactAccepted, Commit, Acceptable
<1>6. Complete(r, state.revision, e)
    BY <1>2, <1>4, <1>5, AnswerComplete
<1> HIDE DEF e, i
<1>7. base \in Runs
    BY <1>2, <1>3, <1>4, ResolveAdvances
<1>8. r = AnswerMovement(p, decision, base)
    BY DEF Answer, e, i
<1> HIDE DEF r
<1>9. MovementCurrent(p, base)
  <2>1. ~MovementCurrent(p, base) => r = Stop(base, "illegal")
      BY <1>8 DEF AnswerMovement
  <2>2. ~Running(Stop(base, "illegal"))
    <3> HIDE DEF base
    <3> QED
        BY <1>7 DEF Running, Stop, Runs
  <2> QED
      BY <1>5, <2>1, <2>2
<1>10. Running(base) /\ MovementReaction(base) = p.movement
    BY <1>9 DEF MovementCurrent
<1>11. Moved(base, state, i)
    BY <1>2, <1>3, <1>4, ResolveMoves
<1>12. Complete(base, state.revision, e)
    BY <1>2, <1>3, <1>4, <1>10, ResolveComplete
<1> HIDE DEF base
<1>13. first \in p.movement
    OBVIOUS
<1>14. \A d \in p.movement : /\ d.start = state.position[i.actor]
                             /\ base.state.position = land(d.end)
  <2> SUFFICES ASSUME NEW d \in p.movement
               PROVE  /\ d.start = state.position[i.actor]
                      /\ base.state.position = land(d.end)
      OBVIOUS
  <2>1. PICK m \in base.voluntary : d.start = m.start /\ d.end = m.end
      BY <1>10, ReactionNamesStep
  <2> DEFINE cell == CHOOSE x \in i.cells : TRUE
             step == [mover |-> i.actor, start |-> state.position[i.actor], end |-> cell]
  <2>2. base.voluntary = {step} /\ base.state.position = land(cell)
      BY <1>11, <2>1 DEF Moved
  <2>3. m = step
    <3> HIDE DEF step
    <3> QED
        BY <2>1, <2>2
  <2>4. m.start = state.position[i.actor] /\ m.end = cell
      BY <2>3
  <2> QED
      BY <2>1, <2>2, <2>4
<1>15. r.state.position = base.state.position
  <2>1. CASE decision # "accept"
    <3>1. r = base
        BY <1>8, <1>9, <2>1 DEF AnswerMovement
    <3> QED
        BY <3>1
  <2>2. CASE decision = "accept"
    <3>1. r = Respond(base, first, i.actor)
        BY <1>8, <1>9, <2>2 DEF AnswerMovement, i
    <3>2. /\ first \in MovementContexts
          /\ first.start = state.position[i.actor]
          /\ base.state.position = land(first.end)
        BY <1>2, <1>13, <1>14
    <3> HIDE DEF first
    <3>3. r.state.position = land(first.end)
        BY <1>2, <1>4, <1>5, <1>10, <1>12, <3>1, <3>2, RespondMoves
    <3> QED
        BY <3>2, <3>3
  <2> QED
      BY <2>1, <2>2
<1>16. state'.position = r.state.position
    BY <1>1, <1>5, <1>6, CommitMovesNobody
<1> QED
    BY <1>14, <1>15, <1>16 DEF i

\* A step that was interrupted ends where it was going, answered or not, and
\* nobody else has moved meanwhile.
THEOREM InterruptedStepsLand == Spec => InterruptedStepLands
<1>1. IInv /\ [Next]_vars =>
         [\A p \in pending : \A c \in p.movement : pending' = {} =>
             state'.position = [state.position EXCEPT ![p.intent.actor] = c.end]]_vars
    BY OnlyReactCloses, InterruptedLands
<1> QED
    BY <1>1, InductiveInvariant, PTL DEF Spec, InterruptedStepLands

-------------------------------------------------------------------------------
(* The transaction log: every step appends one transaction - the suspended *)
(* one, if there is one - or suspends one, or does neither (a slide that   *)
(* starts to wait is a stutter: nothing is promised about it).             *)

\* The refinement mapping, by name.
Transaction(e) == [actor |-> e.actor, kind |-> e.action, evidence |-> e.evidence]

Committed == [k \in DOMAIN log |-> [actor    |-> log[k].actor,
                                    kind     |-> log[k].action,
                                    evidence |-> log[k].evidence]]

WaitingReaction(p) ==
    [actor |-> p.intent.actor, kind |-> p.intent.action,
     evidence |-> p.random_values, base |-> p.expected_revision]

WaitingSaves(p) ==
    [actor |-> p.actor, kind |-> EndTurn, evidence |-> <<>>, base |-> p.expected_revision]

Suspended ==
    {[actor |-> p.intent.actor, kind |-> p.intent.action,
      evidence |-> p.random_values, base |-> p.expected_revision] : p \in pending}
    \cup {[actor |-> p.actor, kind |-> EndTurn, evidence |-> <<>>,
           base |-> p.expected_revision] : p \in pending_turn_save}

\* The log, seen as the abstract one, has an entry for each revision.
LEMMA CommittedType ==
    ASSUME Core
    PROVE  /\ Committed \in Seq(Abstract!Transactions)
           /\ Len(Committed) = Len(log)
           /\ Len(log) = state.revision
           /\ Len(log) \in Nat
<1>1. /\ Len(log) \in Nat
      /\ DOMAIN log = 1 .. Len(log)
      /\ log \in [1 .. Len(log) -> Entries]
      /\ Len(log) = state.revision
    BY LenProperties DEF Core, LogAccountsForAuthority
<1>2. \A k \in 1 .. Len(log) :
         [actor |-> log[k].actor, kind |-> log[k].action, evidence |-> log[k].evidence]
            \in Abstract!Transactions
    BY <1>1 DEF Entries, Abstract!Transactions
<1>3. Committed \in [1 .. Len(log) -> Abstract!Transactions]
    BY <1>1, <1>2 DEF Committed
<1> QED
    BY <1>1, <1>3, SeqDef, LenProperties

\* An accepted transaction is appended, and it is the one that waited.
LEMMA AcceptsCommits ==
    ASSUME IInv, NEW actor, NEW action, NEW evidence, Accepts(actor, action, evidence)
    PROVE  Abstract!Commit
<1>1. Core /\ Waiting /\ Core'
    BY AcceptsKeeps, InvariantParts
<1> DEFINE x == [actor |-> actor, kind |-> action, evidence |-> evidence]
           n == Len(log)
<1>2. PICK a \in Int :
         log' = Append(log, [state_revision |-> state.revision + 1, actor |-> actor,
                             action |-> action, evidence |-> evidence, activations |-> a])
    BY DEF Accepts, Logged
<1> DEFINE e == [state_revision |-> state.revision + 1, actor |-> actor,
                 action |-> action, evidence |-> evidence, activations |-> a]
<1>3. /\ e.actor = actor
      /\ e.action = action
      /\ e.evidence = evidence
      /\ e \in Entries
    BY <1>1 DEF Entries, Accepts, Core, States
<1>4. log' = Append(log, e)
    BY <1>2
<1> HIDE DEF e
<1>5. /\ n \in Nat
      /\ DOMAIN log = 1 .. n
      /\ DOMAIN log' = 1 .. n + 1
      /\ \A k \in 1 .. n : log'[k] = log[k]
      /\ log'[n + 1] = e
    BY <1>1, <1>3, <1>4, AppendProperties, LenProperties DEF Core
<1>6. x \in Abstract!Transactions
    BY DEF Accepts, Abstract!Transactions
<1>7. /\ Committed \in Seq(Abstract!Transactions)
      /\ Len(Committed) = n
      /\ Committed' \in Seq(Abstract!Transactions)
      /\ Len(Committed') = n + 1
  <2>1. /\ Committed \in Seq(Abstract!Transactions)
        /\ Len(Committed) = Len(log)
        /\ Len(log) \in Nat
      BY <1>1, CommittedType
  <2>2. \A k \in 1 .. n + 1 :
           [actor |-> log'[k].actor, kind |-> log'[k].action, evidence |-> log'[k].evidence]
              \in Abstract!Transactions
    <3>1. log' \in [1 .. n + 1 -> Entries]
        BY <1>1, <1>5, LenProperties DEF Core
    <3> QED
        BY <3>1 DEF Entries, Abstract!Transactions
  <2>3. Committed' \in [1 .. n + 1 -> Abstract!Transactions]
      BY <1>5, <2>2 DEF Committed
  <2> QED
      BY <1>5, <2>1, <2>3, SeqDef, LenProperties
<1>8. Committed'[n + 1] = x
    BY <1>3, <1>5 DEF Committed
<1>9. Committed' = Append(Committed, x)
  <2>1. \A k \in 1 .. n : Committed'[k] = Committed[k]
      BY <1>5 DEF Committed
  <2>2. /\ Append(Committed, x) \in Seq(Abstract!Transactions)
        /\ Len(Append(Committed, x)) = n + 1
        /\ \A k \in 1 .. n : Append(Committed, x)[k] = Committed[k]
        /\ Append(Committed, x)[n + 1] = x
      BY <1>6, <1>7, AppendProperties
  <2>3. \A k \in 1 .. n + 1 : Committed'[k] = Append(Committed, x)[k]
    <3> SUFFICES ASSUME NEW k \in 1 .. n + 1
                 PROVE  Committed'[k] = Append(Committed, x)[k]
        OBVIOUS
    <3>1. CASE k = n + 1
        BY <1>8, <2>2, <3>1
    <3>2. CASE k # n + 1
      <4>1. k \in 1 .. n
          BY <1>5, <3>2
      <4> QED
          BY <2>1, <2>2, <4>1
    <3> QED
        BY <3>1, <3>2
  <2> HIDE DEF x, n
  <2> QED
      BY <1>7, <2>2, <2>3, SeqEqual
<1>10. \A w \in Suspended : /\ w.base = n
                            /\ w.actor = actor
                            /\ w.kind = action
                            /\ Abstract!IsStart(w.evidence, evidence)
  <2>1. n = state.revision
      BY <1>1, CommittedType
  <2>2. \A p \in pending : /\ p.expected_revision = state.revision
                           /\ p.intent.actor = actor
                           /\ p.intent.action = action
                           /\ Abstract!IsStart(p.random_values, evidence)
      BY <1>1 DEF Waiting, SuspendedIsCurrent, Accepts
  <2>3. \A p \in pending_turn_save : /\ p.expected_revision = state.revision
                                     /\ p.actor = actor
                                     /\ EndTurn = action
      BY <1>1 DEF Waiting, SuspendedIsCurrent, Accepts
  <2>4. Abstract!IsStart(<<>>, evidence)
      BY DEF Abstract!IsStart, Accepts
  <2> QED
      BY <2>1, <2>2, <2>3, <2>4 DEF Suspended
<1>11. Suspended' = {}
    BY DEF Accepts, Suspended
<1>12. /\ Len(Committed') = Len(Committed) + 1
       /\ Committed'[Len(Committed')] = x
    BY <1>7, <1>8
<1>13. x.actor = actor /\ x.kind = action /\ x.evidence = evidence
    OBVIOUS
<1> HIDE DEF x
<1> QED
    BY <1>6, <1>7, <1>9, <1>10, <1>11, <1>12, <1>13 DEF Abstract!Commit, Committed, Suspended

\* A suspension is the abstract one, unless it is that of a slide.
LEMMA SuspendsWaits ==
    ASSUME IInv, Suspends
    PROVE  Abstract!Suspend \/ UNCHANGED <<Committed, Suspended>>
<1>1. Core
    BY InvariantParts
<1>2. Committed' = Committed /\ Suspended = {} /\ Len(Committed) = state.revision
    BY <1>1, CommittedType DEF Suspends, Committed, Suspended
<1>3. CASE OpensReaction
  <2>1. PICK p \in PendingReactions : /\ pending' = {p}
                                      /\ p.expected_revision = state.revision
      BY <1>3 DEF OpensReaction
  <2> DEFINE w == WaitingReaction(p)
  <2>2. Suspended' = {w}
      BY <1>3, <2>1 DEF OpensReaction, Suspends, Suspended, WaitingReaction
  <2>3. w \in Abstract!Suspensions /\ w.base = state.revision
      BY <2>1 DEF WaitingReaction, PendingReactions, Intents, Abstract!Suspensions
  <2> HIDE DEF w
  <2> QED
      BY <1>2, <2>2, <2>3 DEF Abstract!Suspend, Committed, Suspended
<1>4. CASE OpensSaves
  <2>1. PICK p \in PendingTurnSaves : /\ pending_turn_save' = {p}
                                      /\ p.expected_revision = state.revision
      BY <1>4 DEF OpensSaves
  <2> DEFINE w == WaitingSaves(p)
  <2>2. Suspended' = {w}
      BY <1>4, <2>1 DEF OpensSaves, Suspends, Suspended, WaitingSaves
  <2>3. w \in Abstract!Suspensions /\ w.base = state.revision
      BY <2>1, EmptyEvidence DEF WaitingSaves, PendingTurnSaves, Abstract!Suspensions
  <2> HIDE DEF w
  <2> QED
      BY <1>2, <2>2, <2>3 DEF Abstract!Suspend, Committed, Suspended
<1>5. CASE OpensSlide
    BY <1>2, <1>5 DEF OpensSlide, Suspended
<1> QED
    BY <1>3, <1>4, <1>5 DEF Suspends

\* Nothing commits between a suspension and its own commit, at most one
\* transaction waits, and captured die values are never rolled again.
THEOREM SessionImplementsLog == Spec => ImplementsTransactionLog
<1>1. Init => Abstract!Init
    BY DEF Init, Abstract!Init
<1>2. IInv /\ [Next]_vars => [Abstract!Next]_<<Committed, Suspended>>
  <2> SUFFICES ASSUME IInv, [Next]_vars
               PROVE  Abstract!Next \/ UNCHANGED <<Committed, Suspended>>
      OBVIOUS
  <2>1. CASE UNCHANGED vars
      BY <2>1 DEF vars, phases, Committed, Suspended
  <2>2. CASE Next
      BY <2>2, NextStep, AcceptsCommits, SuspendsWaits DEF Abstract!Next
  <2> QED
      BY <2>1, <2>2
<1> QED
    BY <1>1, <1>2, InductiveInvariant, PTL
    DEF Spec, ImplementsTransactionLog, Abstract!Spec, Committed, Suspended

-------------------------------------------------------------------------------
(* Checkpoints: what a phase of a checkpoint leaves pending when its command *)
(* is carried out again.                                                     *)

\* A suspended command that is submitted again now suspends with the same
\* question, all its die values used.
AsksAgain(p) ==
    /\ Eligible(p.intent)
    /\ Reactions(p.intent, Resubmit(p), p.random_values) = {p}
    /\ Resubmit(p).left = <<>>

\* A slide that is submitted again now offers the same destinations.
OffersAgain(p) ==
    /\ Eligible(p.intent)
    /\ Slides(p.intent, Resubmit(p), p.random_values) = {p}

OwnedEntry(e) == e.action \in Owned[e.actor] \cup {EndTurn}

\* What makes every checkpoint acceptable: the board, the log and the phases
\* are as they were left, except for a slide that was left behind.
Restorable ==
    /\ BoardLegal(state)
    /\ \A k \in DOMAIN log : OwnedEntry(log[k])
    /\ \A p \in pending : AsksAgain(p)
    /\ \A p \in pending_forced_movement :
          /\ p.intent.action \in Owned[p.intent.actor]
          /\ p.authority_revision <= state.revision
          /\ p.authority_revision = state.revision => OffersAgain(p)
    /\ \A p \in pending_turn_save : InProgress(state) /\ p.candidates # {}

\* What a command asks is a matter of the state and the turn it is asked in.
LEMMA AskingKept ==
    ASSUME UNCHANGED <<state, turn>>, NEW p
    PROVE  /\ AsksAgain(p) => AsksAgain(p)'
           /\ OffersAgain(p) => OffersAgain(p)'
<1>1. Eligible(p.intent)' <=> Eligible(p.intent)
    BY DEF Eligible, StepReach, Reachable, Occupied, Between, InProgress, Living
<1>2. \A r : MovementReaction(r)' = MovementReaction(r)
    BY DEF MovementReaction, MayRespond, Leaves, Living
<1>3. Resubmit(p)' = Resubmit(p)
    BY DEF Resubmit
<1>4. \A r : Reactions(p.intent, r, p.random_values)' = Reactions(p.intent, r, p.random_values)
    BY <1>2 DEF Reactions
<1>5. \A r : Slides(p.intent, r, p.random_values)' = Slides(p.intent, r, p.random_values)
    BY DEF Slides, ForcedOptions
<1> QED
    BY <1>1, <1>3, <1>4, <1>5 DEF AsksAgain, OffersAgain

\* Only a legal board is committed, and saves and turns move nobody.
LEMMA BoardKept ==
    ASSUME IInv, Next, BoardLegal(state)
    PROVE  BoardLegal(state')
<1>1. Core
    BY InvariantParts
<1>2. turn \in Turns /\ state \in States
    BY <1>1 DEF Core
<1>3. CASE Commits
  <2>1. PICK r, i, evidence : Complete(r, state.revision, evidence) /\ Commit(r, i)
      BY <1>3 DEF Commits
  <2>2. BoardLegal(r.state)
      BY <2>1 DEF Commit, Acceptable
  <2>3. state'.position = r.state.position
      BY <1>1, <2>1, CommitMovesNobody
  <2> QED
      BY <2>2, <2>3 DEF BoardLegal
<1>4. CASE EndsTheTurn
  <2>1. PICK s \in States, evidence \in Seq(Rolls) :
           /\ Solvent(s)
           /\ s.position = state.position
           /\ EndTurnFrom(s, evidence)
      BY <1>4 DEF EndsTheTurn
  <2> DEFINE next == NextTurn(turn, s)
             x    == AdvanceTurn(s, next)
  <2>2. next \in Turns
      BY <1>2, NextTurnType
  <2>3. x \in States /\ x.position = state.position
    <3> HIDE DEF next
    <3> QED
        BY <2>1, <2>2, AdvanceTurnSound
  <2>4. state' = [x EXCEPT !.revision = @ + 1]
      BY <2>1 DEF EndTurnFrom
  <2> HIDE DEF x
  <2>5. state'.position = state.position
      BY <2>3, <2>4 DEF States
  <2> QED
      BY <2>5 DEF BoardLegal
<1> QED
    BY <1>3, <1>4, NextKinds DEF BoardLegal

\* A commit logs the action of its command.
LEMMA CommitEntry ==
    ASSUME NEW r, NEW i, Commit(r, i), i.action \in Owned[i.actor]
    PROVE  \E e : log' = Append(log, e) /\ OwnedEntry(e)
<1> DEFINE e == [state_revision |-> Saved(r).state.revision, actor |-> i.actor,
                 action |-> i.action, evidence |-> Saved(r).used,
                 activations |-> Saved(r).state.activations - state.activations]
<1>1. log' = Append(log, e)
    BY DEF Commit, Record
<1>2. e.action = i.action /\ e.actor = i.actor
    OBVIOUS
<1> HIDE DEF e
<1> QED
    BY <1>1, <1>2 DEF OwnedEntry

\* The end of a turn logs itself.
LEMMA EndTurnEntry ==
    ASSUME NEW s, NEW evidence, EndTurnFrom(s, evidence)
    PROVE  \E e : log' = Append(log, e) /\ OwnedEntry(e)
<1> DEFINE e == [state_revision |-> state.revision + 1, actor |-> turn.actor,
                 action |-> EndTurn, evidence |-> evidence, activations |-> 0]
<1>1. log' = Append(log, e)
    BY DEF EndTurnFrom, Record
<1>2. e.action = EndTurn
    OBVIOUS
<1> HIDE DEF e
<1> QED
    BY <1>1, <1>2 DEF OwnedEntry

\* Every entry is of an action its actor owns, whichever way it was accepted.
LEMMA EntriesOwned ==
    ASSUME IInv, Restorable, Next
    PROVE  log' = log \/ \E e : log' = Append(log, e) /\ OwnedEntry(e)
<1>1. CASE Submit
  <2>1. PICK i \in Proposals, evidence \in Drawn :
           /\ Submittable(i)
           /\ \E r \in {Resolve(state, evidence, i, "none")} :
                 \/ SubmitAccepted(i, r)
                 \/ SubmitPush(i, r, evidence)
                 \/ SubmitAwaitingReaction(i, r, evidence)
                 \/ SubmitAwaitingForcedMovement(i, r, evidence)
      BY <1>1 DEF Submit
  <2>2. i \in Intents /\ i.action \in Owned[i.actor]
      BY <2>1, ProposalType DEF Submittable, Eligible
  <2> DEFINE r == Resolve(state, evidence, i, "none")
  <2>3. CASE SubmitAccepted(i, r)
      BY <2>2, <2>3, CommitEntry DEF SubmitAccepted
  <2>4. CASE SubmitPush(i, r, evidence)
    <3> DEFINE options == ForcedOptions(state, i)
               bound   == [i EXCEPT !.cells = options]
    <3>1. Commit(Resolve(state, evidence, bound, "none"), bound)
        BY <2>4 DEF SubmitPush
    <3> HIDE DEF options
    <3>2. bound.action = i.action /\ bound.actor = i.actor
        BY <2>2 DEF Intents
    <3> HIDE DEF bound
    <3> QED
        BY <2>2, <3>1, <3>2, CommitEntry
  <2>5. CASE SubmitAwaitingReaction(i, r, evidence)
      BY <2>5 DEF SubmitAwaitingReaction
  <2>6. CASE SubmitAwaitingForcedMovement(i, r, evidence)
      BY <2>6 DEF SubmitAwaitingForcedMovement
  <2> QED
      BY <2>1, <2>3, <2>4, <2>5, <2>6
<1>2. CASE React
  <2>1. PICK p \in pending, decision \in {"decline", "accept"}, evidence \in Raw :
           ReactAccepted(p, decision, evidence)
      BY <1>2 DEF React
  <2>2. p.intent.action \in Owned[p.intent.actor]
      BY DEF Restorable, AsksAgain, Eligible
  <2>3. Commit(Answer(p, decision, evidence), p.intent)
      BY <2>1 DEF ReactAccepted
  <2> QED
      BY <2>2, <2>3, CommitEntry
<1>3. CASE Slide
  <2>1. PICK p \in pending_forced_movement, evidence \in Raw :
           \E d \in p.options : ResolveForcedMovement(p, d, evidence)
      BY <1>3 DEF Slide
  <2>2. PICK destination \in p.options : ResolveForcedMovement(p, destination, evidence)
      BY <2>1
  <2> DEFINE bound == [p.intent EXCEPT !.cells = {destination}]
             r     == Resolve(state, p.random_values \o evidence, bound, "none")
  <2>3. Commit(r, bound)
      BY <2>2 DEF ResolveForcedMovement
  <2>4. p.intent \in Intents /\ p.intent.action \in Owned[p.intent.actor]
      BY InvariantParts DEF Waiting, PendingForcedMovements, Restorable
  <2>5. bound.action = p.intent.action /\ bound.actor = p.intent.actor
      BY <2>4 DEF Intents
  <2> HIDE DEF r, bound
  <2> QED
      BY <2>3, <2>4, <2>5, CommitEntry
<1>4. CASE ControlAccepted
    BY <1>4, EndTurnEntry DEF ControlAccepted
<1>5. CASE ControlAwaitingTurnSave
    BY <1>5 DEF ControlAwaitingTurnSave
<1>6. CASE Save
    BY <1>6, EndTurnEntry DEF Save, ResolvePendingTurnSave
<1> QED
    BY <1>1, <1>2, <1>3, <1>4, <1>5, <1>6 DEF Next, Control

\* A command that suspends asks the same when it is submitted again: nothing it
\* is resolved from has changed.
LEMMA SuspendsAgain ==
    ASSUME IInv, Next, Suspends
    PROVE  /\ \A p \in pending' : AsksAgain(p)
           /\ \A p \in pending_forced_movement' \ pending_forced_movement :
                 /\ OffersAgain(p)
                 /\ p.authority_revision = state.revision
           /\ \A p \in pending_turn_save' : InProgress(state) /\ p.candidates # {}
<1>1. /\ pending = {}
      /\ pending_turn_save = {}
      /\ log' = log
      /\ log \in Seq(Entries)
    BY InvariantParts DEF Suspends, Core
<1>2. \A e : log' # Append(log, e)
  <2> SUFFICES ASSUME NEW e, log' = Append(log, e)
               PROVE  FALSE
      OBVIOUS
  <2>1. log \in Seq(Entries \cup {e})
      BY <1>1, SeqMonotonic
  <2>2. Len(Append(log, e)) = Len(log) + 1 /\ Len(log) \in Nat
      BY <2>1, AppendProperties, LenProperties
  <2> QED
      BY <1>1, <2>2
<1>3. \A r, i : ~Commit(r, i)
    BY <1>2 DEF Commit, Record
<1>4. \A s, evidence : ~EndTurnFrom(s, evidence)
    BY <1>2 DEF EndTurnFrom, Record
<1>5. CASE Submit
  <2>1. PICK i \in Proposals, evidence \in Drawn :
           /\ Submittable(i)
           /\ \E r \in {Resolve(state, evidence, i, "none")} :
                 \/ SubmitAccepted(i, r)
                 \/ SubmitPush(i, r, evidence)
                 \/ SubmitAwaitingReaction(i, r, evidence)
                 \/ SubmitAwaitingForcedMovement(i, r, evidence)
      BY <1>5 DEF Submit
  <2> DEFINE r == Resolve(state, evidence, i, "none")
  <2>2. Eligible(i) /\ pending_forced_movement = {}
      BY <2>1 DEF Submittable, NoPhase
  <2>3. ~SubmitAccepted(i, r) /\ ~SubmitPush(i, r, evidence)
      BY <1>3 DEF SubmitAccepted, SubmitPush
  <2>4. CASE SubmitAwaitingReaction(i, r, evidence)
    <3>1. /\ pending' = Reactions(i, r, evidence)
          /\ r.left = <<>>
          /\ UNCHANGED <<pending_forced_movement, pending_turn_save>>
        BY <2>4 DEF SubmitAwaitingReaction
    <3>2. \A p \in pending' : AsksAgain(p)
      <4> SUFFICES ASSUME NEW p \in pending'
                   PROVE  AsksAgain(p)
          OBVIOUS
      <4> DEFINE m == IF Running(r) THEN MovementReaction(r) ELSE {}
                 q == [expected_revision |-> state.revision, intent |-> i,
                       random_values |-> evidence, movement |-> m]
      <4>1. p.intent = i /\ p.random_values = evidence /\ Reactions(i, r, evidence) = {p}
        <5>1. Reactions(i, r, evidence) \in {{}, {q}}
            BY DEF Reactions
        <5>2. q.intent = i /\ q.random_values = evidence
            OBVIOUS
        <5> HIDE DEF r, m, q
        <5> QED
            BY <3>1, <5>1, <5>2
      <4> QED
          BY <2>2, <3>1, <4>1 DEF AsksAgain, Resubmit
    <3> QED
        BY <1>1, <3>1, <3>2
  <2>5. CASE SubmitAwaitingForcedMovement(i, r, evidence)
    <3>1. /\ pending_forced_movement' = Slides(i, r, evidence)
          /\ UNCHANGED <<pending, pending_turn_save>>
        BY <2>5 DEF SubmitAwaitingForcedMovement
    <3>2. \A p \in pending_forced_movement' : OffersAgain(p) /\ p.authority_revision = state.revision
      <4> SUFFICES ASSUME NEW p \in pending_forced_movement'
                   PROVE  OffersAgain(p) /\ p.authority_revision = state.revision
          OBVIOUS
      <4>1. /\ p.intent = i
            /\ p.random_values = evidence
            /\ p.authority_revision = state.revision
            /\ Slides(i, r, evidence) = {p}
        <5> HIDE DEF r
        <5> QED
            BY <3>1 DEF Slides
      <4> QED
          BY <2>2, <4>1 DEF OffersAgain, Resubmit
    <3> QED
        BY <1>1, <3>1, <3>2
  <2> QED
      BY <2>1, <2>3, <2>4, <2>5
<1>6. CASE React
    BY <1>1, <1>6 DEF React
<1>7. CASE Slide
    BY <1>3, <1>7 DEF Slide, ResolveForcedMovement
<1>8. CASE Control
  <2>1. ControlAwaitingTurnSave
      BY <1>4, <1>8 DEF Control, ControlAccepted
  <2>2. /\ pending_turn_save' = TurnSaves
        /\ InProgress(state)
        /\ UNCHANGED <<pending, pending_forced_movement>>
      BY <2>1 DEF ControlAwaitingTurnSave, Controllable
  <2>3. \A p \in TurnSaves : p.candidates # {}
      BY DEF TurnSaves
  <2> QED
      BY <1>1, <2>2, <2>3
<1>9. CASE Save
    BY <1>1, <1>9 DEF Save
<1> QED
    BY <1>5, <1>6, <1>7, <1>8, <1>9 DEF Next

\* Every step leaves a session whose checkpoint can be restored.
LEMMA RestorableKept ==
    ASSUME IInv, Restorable, Next
    PROVE  Restorable'
<1>1. BoardLegal(state)'
    BY BoardKept DEF Restorable
<1>2. \A k \in DOMAIN log' : OwnedEntry(log'[k])
  <2>1. log \in Seq(Entries) /\ \A k \in DOMAIN log : OwnedEntry(log[k])
      BY InvariantParts DEF Core, Restorable
  <2>2. CASE log' = log
      BY <2>1, <2>2
  <2>3. CASE \E e : log' = Append(log, e) /\ OwnedEntry(e)
    <3>1. PICK e : log' = Append(log, e) /\ OwnedEntry(e)
        BY <2>3
    <3>2. /\ Len(log) \in Nat
          /\ DOMAIN log = 1 .. Len(log)
          /\ DOMAIN Append(log, e) = 1 .. Len(log) + 1
          /\ \A k \in 1 .. Len(log) : Append(log, e)[k] = log[k]
          /\ Append(log, e)[Len(log) + 1] = e
        BY <2>1
    <3>3. \A k \in 1 .. Len(log) + 1 : k \in 1 .. Len(log) \/ k = Len(log) + 1
        BY <3>2
    <3> QED
        BY <2>1, <3>1, <3>2, <3>3
  <2> QED
      BY <2>2, <2>3, EntriesOwned
<1>4. state.revision \in Nat
    BY InvariantParts DEF Core, States
<1>5. \A p \in pending_forced_movement :
         /\ p.intent.action \in Owned[p.intent.actor]
         /\ p.authority_revision \in Nat
         /\ p.authority_revision <= state.revision
    BY InvariantParts DEF Waiting, PendingForcedMovements, Restorable
<1>6. CASE \E actor, action, evidence : Accepts(actor, action, evidence)
  <2>1. /\ pending' = {}
        /\ pending_turn_save' = {}
        /\ pending_forced_movement' \subseteq pending_forced_movement
        /\ state'.revision = state.revision + 1
      BY <1>6 DEF Accepts, Logged
  <2>2. \A p \in pending_forced_movement' :
           /\ p.intent.action \in Owned[p.intent.actor]
           /\ p.authority_revision <= state'.revision
           /\ p.authority_revision # state'.revision
    <3> SUFFICES ASSUME NEW p \in pending_forced_movement'
                 PROVE  /\ p.intent.action \in Owned[p.intent.actor]
                        /\ p.authority_revision <= state'.revision
                        /\ p.authority_revision # state'.revision
        OBVIOUS
    <3>1. /\ p.intent.action \in Owned[p.intent.actor]
          /\ p.authority_revision \in Nat
          /\ p.authority_revision <= state.revision
        BY <1>5, <2>1
    <3> QED
        BY <1>4, <2>1, <3>1
  <2> QED
      BY <1>1, <1>2, <2>1, <2>2 DEF Restorable
<1>7. CASE Suspends
  <2>1. UNCHANGED <<state, turn>>
      BY <1>7 DEF Suspends
  <2>2. \A p \in pending' : AsksAgain(p)'
      BY <1>7, <2>1, SuspendsAgain, AskingKept
  <2>3. \A p \in pending_forced_movement' :
           /\ p.intent.action \in Owned[p.intent.actor]
           /\ p.authority_revision <= state'.revision
           /\ p.authority_revision = state'.revision => OffersAgain(p)'
    <3> SUFFICES ASSUME NEW p \in pending_forced_movement'
                 PROVE  /\ p.intent.action \in Owned[p.intent.actor]
                        /\ p.authority_revision <= state'.revision
                        /\ p.authority_revision = state'.revision => OffersAgain(p)'
        OBVIOUS
    <3>1. CASE p \in pending_forced_movement
        BY <1>5, <2>1, <3>1, AskingKept DEF Restorable
    <3>2. CASE p \notin pending_forced_movement
      <4>1. OffersAgain(p) /\ p.authority_revision = state.revision
          BY <1>7, <3>2, SuspendsAgain
      <4>2. OffersAgain(p)'
          BY <2>1, <4>1, AskingKept
      <4>3. p.intent.action \in Owned[p.intent.actor]
          BY <4>1 DEF OffersAgain, Eligible
      <4> QED
          BY <1>4, <2>1, <4>1, <4>2, <4>3
    <3> QED
        BY <3>1, <3>2
  <2>4. \A p \in pending_turn_save' : InProgress(state)' /\ p.candidates # {}
      BY <1>7, <2>1, SuspendsAgain DEF InProgress, Living
  <2> QED
      BY <1>1, <1>2, <2>2, <2>3, <2>4 DEF Restorable
<1> QED
    BY <1>6, <1>7, NextStep

\* A restorable session passes the checks of a restored encounter and of each
\* phase.
LEMMA RestorableRestores ==
    ASSUME IInv, Restorable
    PROVE  CheckpointRestores
<1>1. Core /\ Waiting
    BY InvariantParts
<1> SUFFICES ASSUME OnePhase, ~SlideLeftBehind, CurrentActorLives
             PROVE  ValidEncounter /\ RestorePhase(CheckpointPhase)
    BY DEF CheckpointRestores
<1>2. ValidEncounter
  <2>1. state.revision \in Nat /\ Len(log) = state.revision
      BY <1>1 DEF Core, States, LogAccountsForAuthority
  <2>2. \A k \in DOMAIN log : log[k].state_revision \in 1 .. state.revision
    <3>1. DOMAIN log = 1 .. Len(log)
        BY <1>1 DEF Core
    <3> QED
        BY <1>1, <2>1, <3>1 DEF Core, LogAccountsForAuthority
  <2>3. \A k \in DOMAIN log : log[k].action \in Owned[log[k].actor] \cup {EndTurn}
      BY DEF Restorable, OwnedEntry
  <2> QED
      BY <1>1, <2>2, <2>3 DEF ValidEncounter, Core, CurrentActorLives, Restorable
<1> DEFINE asked(p)   == [expected_revision |-> p.expected_revision, intent |-> p.intent,
                          random_values |-> p.random_values, request |-> p]
           offered(p) == [expected_revision |-> state.revision, intent |-> p.intent,
                          random_values |-> p.random_values, request |-> p]
           saved(p)   == [expected_revision |-> p.expected_revision, actor |-> p.actor,
                          request |-> p]
           reaction == {asked(p) : p \in pending}
           slide    == {offered(p) : p \in pending_forced_movement}
           save     == {saved(p) : p \in pending_turn_save}
<1>3. /\ CheckpointPhase.reaction = reaction
      /\ CheckpointPhase.slide = slide
      /\ CheckpointPhase.save = save
    BY DEF CheckpointPhase
<1>4. /\ {c.request : c \in reaction} = pending
      /\ {c.request : c \in slide} = pending_forced_movement
      /\ {c.request : c \in save} = pending_turn_save
  <2>1. \A p : asked(p).request = p /\ offered(p).request = p /\ saved(p).request = p
      OBVIOUS
  <2> HIDE DEF asked, offered, saved
  <2> QED
      BY <2>1
<1>5. RestoredReactions(CheckpointPhase) = pending
  <2>1. \A p \in pending :
           /\ asked(p).expected_revision = state.revision
           /\ Eligible(asked(p).intent)
           /\ Reactions(asked(p).intent, Resubmit(asked(p)), asked(p).random_values) = {p}
      BY <1>1 DEF Restorable, AsksAgain, Resubmit, Waiting, SuspendedIsCurrent
  <2>2. {d \in reaction : d.expected_revision = state.revision /\ Eligible(d.intent)} = reaction
      BY <2>1
  <2>3. RestoredReactions(CheckpointPhase)
           = UNION {Reactions(c.intent, Resubmit(c), c.random_values) : c \in reaction}
    <3> HIDE DEF reaction
    <3> QED
        BY <1>3, <2>2 DEF RestoredReactions
  <2> HIDE DEF asked
  <2> DEFINE again(c) == Reactions(c.intent, Resubmit(c), c.random_values)
  <2>4. \A p \in pending : again(asked(p)) = {p}
      BY <2>1
  <2> HIDE DEF again, asked
  <2>5. UNION {again(c) : c \in reaction} = pending
      BY <2>4
  <2> HIDE DEF reaction
  <2> QED
      BY <2>3, <2>5 DEF again
<1>6. RestoredSlides(CheckpointPhase) = pending_forced_movement
  <2>1. \A p \in pending_forced_movement :
           /\ offered(p).expected_revision = state.revision
           /\ Eligible(offered(p).intent)
           /\ Slides(offered(p).intent, Resubmit(offered(p)), offered(p).random_values) = {p}
      BY DEF Restorable, OffersAgain, Resubmit, SlideLeftBehind
  <2>2. {d \in slide : d.expected_revision = state.revision /\ Eligible(d.intent)} = slide
      BY <2>1
  <2>3. RestoredSlides(CheckpointPhase)
           = UNION {Slides(c.intent, Resubmit(c), c.random_values) : c \in slide}
    <3> HIDE DEF slide
    <3> QED
        BY <1>3, <2>2 DEF RestoredSlides
  <2> HIDE DEF offered
  <2> DEFINE again(c) == Slides(c.intent, Resubmit(c), c.random_values)
  <2>4. \A p \in pending_forced_movement : again(offered(p)) = {p}
      BY <2>1
  <2> HIDE DEF again, offered
  <2>5. UNION {again(c) : c \in slide} = pending_forced_movement
      BY <2>4
  <2> HIDE DEF slide
  <2> QED
      BY <2>3, <2>5 DEF again
<1>7. RestoredTurnSaves(CheckpointPhase) = pending_turn_save
  <2>1. \A p \in pending_turn_save :
           /\ p.expected_revision = state.revision
           /\ p.actor = turn.actor
           /\ p.actor \in Living(state)
           /\ p.candidates = state.effects[turn.actor]
           /\ p.candidates # {}
           /\ InProgress(state)
           /\ p \in PendingTurnSaves
      BY <1>1 DEF Restorable, Waiting, SuspendedIsCurrent
  <2>2. \A p \in pending_turn_save : TurnSaves = {p}
      BY <2>1 DEF TurnSaves, PendingTurnSaves
  <2>3. {d \in save : /\ d.expected_revision = state.revision
                      /\ d.actor = turn.actor
                      /\ InProgress(state)
                      /\ turn.actor \in Living(state)} = save
      BY <2>1
  <2>4. RestoredTurnSaves(CheckpointPhase) = UNION {TurnSaves : c \in save}
    <3> HIDE DEF save
    <3> QED
        BY <1>3, <2>3 DEF RestoredTurnSaves
  <2>5. save # {} <=> pending_turn_save # {}
      OBVIOUS
  <2> HIDE DEF save
  <2> QED
      BY <2>2, <2>4, <2>5
<1> HIDE DEF reaction, slide, save
<1> QED
    BY <1>2, <1>3, <1>4, <1>5, <1>6, <1>7 DEF RestorePhase

\* Every session can be restored from its checkpoints, all along.
THEOREM StaysRestorable == Spec => []Restorable
<1>1. Init => Restorable
  <2>1. \A p, q \in Participants : p # q => Position0[p] # Position0[q]
      BY SessionAssumption
  <2> QED
      BY <2>1 DEF Init, Restorable, BoardLegal
<1>2. IInv /\ Restorable /\ [Next]_vars => Restorable'
  <2> SUFFICES ASSUME IInv, Restorable, [Next]_vars
               PROVE  Restorable'
      OBVIOUS
  <2>1. CASE UNCHANGED vars
    <3>1. UNCHANGED <<state, turn, log, pending, pending_forced_movement, pending_turn_save>>
        BY <2>1 DEF vars, phases
    <3>2. \A p : (AsksAgain(p) => AsksAgain(p)') /\ (OffersAgain(p) => OffersAgain(p)')
        BY <3>1, AskingKept
    <3> QED
        BY <3>1, <3>2 DEF Restorable, BoardLegal, OwnedEntry, InProgress, Living
  <2> QED
      BY <2>1, RestorableKept
<1> QED
    BY <1>1, <1>2, InductiveInvariant, PTL DEF Spec

\* A checkpoint that is taken of any state of any session is accepted and gives
\* back that session, with whatever it is waiting for; but not once a defeated
\* participant holds the turn, or the turn was ended beside a waiting slide.
THEOREM CheckpointsRestore == Spec => []CheckpointRestores
<1>1. IInv /\ Restorable => CheckpointRestores
    BY RestorableRestores
<1> QED
    BY <1>1, InductiveInvariant, StaysRestorable, PTL

-------------------------------------------------------------------------------
(* A reaction can be declined. *)

\* A command that passed the checks of its submission leaves a legal board.
LEMMA ResolvedBoardLegal ==
    ASSUME Core, BoardLegal(state), NEW i \in Intents, Eligible(i),
           NEW evidence \in Seq(Values), NEW decision
    PROVE  BoardLegal(Resolve(state, evidence, i, decision).state)
<1> DEFINE r == Resolve(state, evidence, i, decision)
           c == CHOOSE d \in i.cells : TRUE
           p == i.actor
<1>1. /\ state \in States
      /\ state.position \in [Participants -> Cells]
      /\ p \in Participants
      /\ Moved(r, state, i)
    BY ResolveMoves, ActionFields DEF Core, States
<1> HIDE DEF r
<1>2. CASE r.state.position = state.position
    BY <1>2 DEF BoardLegal, r
<1>3. CASE /\ Actions[i.action].targets = "cell"
           /\ r.state.position = [state.position EXCEPT ![p] = c]
  <2>1. c \in StepReach(i)
      BY <1>3 DEF Eligible
  <2>2. c \in Cells /\ c # state.position[p] /\ Between(state.position[p], c) \cap Occupied(state, p) = {}
      BY <2>1 DEF StepReach, Reachable
  <2>3. c \in Between(state.position[p], c)
      BY <1>1, <2>2, BoardAssumption DEF Between, Cells
  <2> HIDE DEF c
  <2>4. \A q \in Participants \ {p} : state.position[q] # c
    <3> SUFFICES ASSUME NEW q \in Participants \ {p}, state.position[q] = c
                 PROVE  FALSE
        OBVIOUS
    <3>1. c \in Occupied(state, p)
        BY DEF Occupied
    <3> QED
        BY <2>2, <2>3, <3>1
  <2> QED
      BY <1>1, <1>3, <2>4 DEF BoardLegal, r
<1>4. Actions[i.action].targets # "cell" => i.cells = {}
    BY DEF Eligible
<1> QED
    BY <1>1, <1>2, <1>3, <1>4 DEF Moved

\* The saves of a run that ends the turn all fail on low values.
LEMMA LowSaves ==
    ASSUME turn \in Turns, NEW x \in Runs, Running(x), x.left = <<>>
    PROVE  \E v \in Seq({"low"}) :
              /\ Len(v) <= IF Economy = "fixed" THEN Cardinality(Participants) ELSE 0
              /\ Running(Saved(Supplied(x, v)))
              /\ Saved(Supplied(x, v)).left = <<>>
<1> DEFINE n == Cardinality(x.state.effects[turn.actor])
           v == [k \in 1 .. n |-> "low"]
           y == Supplied(x, v)
<1>1. x.state.effects[turn.actor] \subseteq Participants
    BY DEF Turns, Runs, States
<1>2. /\ n \in Nat
      /\ n <= Cardinality(Participants)
      /\ Cardinality(Participants) \in Nat
    BY <1>1, ParticipantsFinite, FS_Subset, FS_CardinalityType
<1> HIDE DEF n
<1>3. v \in Seq({"low"}) /\ Len(v) = n
    BY <1>2
<1>4. {"low"} \subseteq Rolls /\ {"low"} \subseteq Values
    BY DEF Values, Rolls
<1>5. v \in Seq(Rolls) /\ v \in Seq(Values)
    BY <1>3, <1>4, SeqMonotonic
<1> HIDE DEF v
<1>6. y \in Runs /\ y.left = v /\ y.state = x.state /\ Running(y)
    BY <1>5, SuppliedFields DEF Running
<1>7. CASE EndsTurn(x)
  <2>1. /\ Economy = "fixed"
        /\ Saved(y) = AutomaticSaves(y)
    <3> HIDE DEF y
    <3> QED
        BY <1>6, <1>7 DEF EndsTurn, Saved
  <2> DEFINE values == SubSeq(y.left, 1, n)
             rest   == SubSeq(y.left, n + 1, Len(y.left))
             s      == AfterSaves(y.state, turn.actor, values)
             used   == y.used \o values
  <2>2. values \in Seq(Rolls) /\ rest = <<>>
    <3>1. SubSeq(v, 1, n) = v
        BY <1>2, <1>3
    <3>2. SubSeq(v, n + 1, n) = <<>>
        BY <1>2, <1>3
    <3> HIDE DEF y
    <3> QED
        BY <1>3, <1>5, <1>6, <3>1, <3>2
  <2>3. ~(Len(y.left) < n) /\ Len(y.left) >= n
    <3> HIDE DEF y
    <3> QED
        BY <1>2, <1>3, <1>6
  <2>4. AutomaticSaves(y) = [y EXCEPT !.state = s, !.left = rest, !.used = used]
    <3>1. Cardinality(y.state.effects[turn.actor]) = n
      <4> HIDE DEF y
      <4> QED
          BY <1>6 DEF n
    <3> HIDE DEF y
    <3> QED
        BY <2>2, <2>3, <3>1 DEF AutomaticSaves
  <2> HIDE DEF s, rest, used, y
  <2>5. Running(Saved(y)) /\ Saved(y).left = <<>>
      BY <1>6, <2>1, <2>2, <2>4 DEF Running, Runs
  <2> QED
      BY <1>2, <1>3, <2>1, <2>5 DEF y
<1>8. CASE ~EndsTurn(x)
  <2>1. <<>> \in Seq({"low"}) /\ <<>> \in Seq(Values) /\ Len(<<>>) = 0
      BY EmptySeq
  <2>2. Supplied(x, x.left) = x
      BY <2>1, SuppliedFields
  <2>3. Saved(x) = x
      BY <1>8 DEF Saved
  <2>4. Supplied(x, <<>>) = x /\ Running(Saved(x)) /\ Saved(x).left = <<>>
      BY <2>2, <2>3
  <2>5. 0 <= IF Economy = "fixed" THEN Cardinality(Participants) ELSE 0
      BY <1>2
  <2> QED
      BY <2>1, <2>4, <2>5
<1> QED
    BY <1>7, <1>8

\* Low values are evidence a host can supply.
LEMMA LowsDrawn ==
    ASSUME NEW u \in Seq({"low"}), Len(u) <= MaxEvidence
    PROVE  u \in Drawn
<1>1. Len(u) \in 0 .. MaxEvidence
    BY LenProperties, SessionAssumption
<1>2. u \in [1 .. Len(u) -> Rolls]
  <2>1. u \in [1 .. Len(u) -> {"low"}]
      BY LenProperties
  <2> QED
      BY <2>1 DEF Rolls
<1> QED
    BY <1>1, <1>2 DEF Drawn

\* Some evidence declines whatever the session waits for.
LEMMA PendingDeclined ==
    ASSUME IInv, Restorable, AnswersFit, NEW p \in pending
    PROVE  \E evidence \in Drawn : Acceptable(Answer(p, "decline", evidence))
<1> DEFINE i      == p.intent
           before == p.random_values
           r      == Resubmit(p)
<1>1. /\ Core
      /\ BoardLegal(state)
      /\ state \in States
      /\ Solvent(state)
      /\ turn \in Turns
    BY InvariantParts DEF Core, Restorable
<1>2. /\ i \in Intents
      /\ before \in Seq(Rolls)
      /\ before \in Seq(Values)
  <2>1. i \in Intents /\ before \in Seq(Rolls)
      BY InvariantParts DEF Waiting, PendingReactions
  <2>2. Rolls \subseteq Values
      BY DEF Values
  <2> QED
      BY <2>1, <2>2, SeqMonotonic
<1>3. /\ Eligible(i)
      /\ Reactions(i, r, before) = {p}
      /\ r.left = <<>>
      /\ r = Resolve(state, before, i, "none")
    BY DEF Restorable, AsksAgain, Resubmit
<1>4. i.action \in ActionIds /\ Bound(i)
    BY <1>2, <1>3 DEF Intents, Bound, Eligible
<1>5. \A e \in Seq(Values) : \A d : BoardLegal(Resolve(state, e, i, d).state)
    BY <1>1, <1>2, <1>3, ResolvedBoardLegal
<1> HIDE DEF r
<1>6. p.movement = IF Running(r) THEN MovementReaction(r) ELSE {}
  <2> DEFINE m == IF Running(r) THEN MovementReaction(r) ELSE {}
             q == [expected_revision |-> state.revision, intent |-> i,
                   random_values |-> before, movement |-> m]
  <2>1. Reactions(i, r, before) \in {{}, {q}}
      BY DEF Reactions
  <2>2. q.movement = m
      OBVIOUS
  <2> HIDE DEF q, m
  <2> QED
      BY <1>3, <2>1, <2>2 DEF m
<1>7. r.stop = "reaction" \/ (Running(r) /\ MovementReaction(r) # {})
    BY <1>3 DEF Reactions
<1>8. <<>> \in Seq({"low"}) /\ <<>> \in Seq(Values) /\ Len(<<>>) = 0
    BY EmptySeq
<1>9. CASE p.movement # {}
  <2>1. Running(r) /\ MovementReaction(r) = p.movement /\ MovementReaction(r) # {}
      BY <1>6, <1>9
  <2>2. Answer(p, "decline", <<>>) = r
    <3>1. before \o <<>> = before
        BY <1>2, ConcatEmptySeq
    <3>2. MovementCurrent(p, r)
      <4>1. \A c \in MovementReaction(r) : /\ c.authority_revision = state.revision
                                           /\ c.round = turn.round
                                           /\ c.turn = turn.turn
          BY DEF MovementReaction
      <4> QED
          BY <2>1, <4>1 DEF MovementCurrent
    <3>3. Answer(p, "decline", <<>>) = AnswerMovement(p, "decline", r)
        BY <1>3, <1>9, <3>1 DEF Answer
    <3> QED
        BY <3>2, <3>3 DEF AnswerMovement
  <2>3. Economy # "fixed"
    <3>1. Sentries # {}
        BY <2>1 DEF MovementReaction
    <3> QED
        BY <3>1, SessionAssumption, ResolutionAssumption
  <2>4. Saved(r) = r
      BY <2>3 DEF Saved, EndsTurn
  <2>5. BoardLegal(r.state)
      BY <1>2, <1>3, <1>5
  <2>6. <<>> \in Drawn
    <3> DEFINE u == <<>>
    <3>1. MaxEvidence \in Nat
        BY SessionAssumption
    <3>2. u \in Seq({"low"}) /\ Len(u) <= MaxEvidence
        BY <1>8, <3>1
    <3> HIDE DEF u
    <3>3. u \in Drawn
        BY <3>2, LowsDrawn
    <3> QED
        BY <3>3 DEF u
  <2> QED
      BY <1>3, <2>1, <2>2, <2>4, <2>5, <2>6 DEF Acceptable
<1>10. CASE p.movement = {}
  <2>1. r.stop = "reaction"
      BY <1>6, <1>7, <1>10
  <2> DEFINE a    == Actions[i.action]
             dice == IF a.dice THEN 2 ELSE 0
             most == IF Economy = "fixed" THEN Cardinality(Participants) ELSE 0
  <2>2. \E k \in 1 .. 3 : a.program[k] = "window"
    <3>1. Declinable(a) => \E k \in 1 .. 3 : a.program[k] = "window"
        BY <1>1, <1>2, <1>3, <1>4, <2>1, DeclineResolves
    <3>2. ~Declinable(a) => \E k \in 1 .. 3 : a.program[k] = "window"
        BY DEF Declinable
    <3> QED
        BY <3>1, <3>2
  <2>3. Declinable(a) /\ most + dice <= MaxEvidence
      BY <1>4, <2>2 DEF AnswersFit
  <2> HIDE DEF dice, most
  <2>4. PICK u \in Seq({"low"}), x \in Runs :
           /\ Len(u) <= dice
           /\ Running(x)
           /\ x.left = <<>>
           /\ \A v \in Seq(Values) :
                 Resolve(state, before \o (u \o v), i, "decline") = Supplied(x, v)
      BY <1>1, <1>2, <1>3, <1>4, <2>1, <2>3, DeclineResolves DEF dice
  <2>5. PICK v \in Seq({"low"}) :
           /\ Len(v) <= most
           /\ Running(Saved(Supplied(x, v)))
           /\ Saved(Supplied(x, v)).left = <<>>
      BY <1>1, <2>4, LowSaves DEF most
  <2> DEFINE evidence == u \o v
             y        == Supplied(x, v)
  <2>6. evidence \in Drawn
    <3>1. Len(u) \in Nat /\ Len(v) \in Nat
        BY LenProperties
    <3>2. evidence \in Seq({"low"}) /\ Len(evidence) = Len(u) + Len(v)
        BY ConcatProperties
    <3>3. dice \in Nat /\ most \in Nat /\ MaxEvidence \in Nat
        BY ParticipantsFinite, SessionAssumption DEF dice, most
    <3>4. Len(evidence) <= MaxEvidence
        BY <2>3, <2>4, <2>5, <3>1, <3>2, <3>3
    <3> HIDE DEF evidence
    <3> QED
        BY <3>2, <3>4, LowsDrawn
  <2>7. v \in Seq(Values) /\ evidence \in Seq(Values)
    <3>1. {"low"} \subseteq Values
        BY DEF Values, Rolls
    <3> QED
        BY <3>1, SeqMonotonic, ConcatProperties
  <2>8. Answer(p, "decline", evidence) = Resolve(state, before \o evidence, i, "decline")
      BY <1>10 DEF Answer, AnswerDamage
  <2>9. Resolve(state, before \o evidence, i, "decline") = y
      BY <2>4, <2>7
  <2>10. Running(y)
      BY <2>4, <2>7, SuppliedFields DEF Running
  <2>11. BoardLegal(y.state)
    <3>1. before \o evidence \in Seq(Values)
        BY <1>2, <2>7, ConcatProperties
    <3> QED
        BY <1>5, <2>9, <3>1
  <2>12. Running(Saved(y)) /\ Saved(y).left = <<>>
      BY <2>5
  <2> HIDE DEF evidence, y
  <2>13. Acceptable(y)
      BY <2>10, <2>11, <2>12 DEF Acceptable
  <2> QED
      BY <2>6, <2>8, <2>9, <2>13
<1> QED
    BY <1>9, <1>10

\* Whatever a session waits for, some evidence declines it and completes the
\* command, as long as no program moves anybody after its window.
THEOREM ReactionsCanBeDeclined ==
    ASSUME AnswersFit
    PROVE  Spec => []ReactionIsAnswerable
<1>1. IInv /\ Restorable => ReactionIsAnswerable
    BY PendingDeclined DEF ReactionIsAnswerable
<1> QED
    BY <1>1, InductiveInvariant, StaysRestorable, PTL
===============================================================================
