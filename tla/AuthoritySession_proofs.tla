------------------------ MODULE AuthoritySession_proofs ------------------------
(***************************************************************************)
(* Theorems about the authority session, for every set of participants,    *)
(* every compiled action and every bound.                                  *)
(***************************************************************************)
EXTENDS AuthoritySession, ActionResolution_proofs, FiniteSetTheorems

\* The participants are those of the initiative, so there are finitely many.
LEMMA ParticipantsFinite ==
    \A S \in SUBSET Participants : IsFiniteSet(S) /\ Cardinality(S) \in Nat
<1> DEFINE n == Len(Initiative)
<1>1. n \in Nat /\ Initiative \in [1 .. n -> Participants] /\ DOMAIN Initiative = 1 .. n
    BY InitiativeAssumption, LenProperties
<1>2. \A p \in Participants : \E i \in 1 .. n : Initiative[i] = p
    BY <1>1, InitiativeAssumption
<1>3. Initiative \in Surjection(1 .. n, Participants)
    BY <1>1, <1>2 DEF Surjection
<1>4. IsFiniteSet(Participants)
    BY <1>1, <1>3, FS_NatSurjection DEF ExistsSurjection
<1> QED
    BY <1>4, FS_Subset, FS_CardinalityType

\* Drawn evidence is rolls, raw evidence any values.
LEMMA EvidenceType == Drawn \subseteq Seq(Rolls) /\ Raw \subseteq Seq(Values)
<1>1. MaxEvidence \in Nat
    BY SessionAssumption
<1>2. \A S : UNION {[1 .. n -> S] : n \in 0 .. MaxEvidence} \subseteq Seq(S)
    BY <1>1, SeqDef
<1> QED
    BY <1>2 DEF Drawn, Raw

\* The next turn is a turn.
LEMMA NextTurnType ==
    ASSUME NEW s, NEW t \in Turns
    PROVE  NextTurn(t, s) \in Turns
<1>1. CASE Living(s) = {}
  <2>1. LivingOffsets(s, t.actor) = {}
      BY <1>1 DEF LivingOffsets
  <2> QED
      BY <2>1 DEF NextTurn
<1>2. CASE Living(s) # {}
    BY <1>2, NextTurnIsNearestLiving
<1> QED
    BY <1>1, <1>2

\* The end of a turn refills budgets to their initial amounts, clears the
\* activation count and leaves everything else alone.
LEMMA AdvanceTurnSound ==
    ASSUME NEW s \in States, Solvent(s), NEW next \in Turns
    PROVE  /\ AdvanceTurn(s, next) \in States
           /\ Solvent(AdvanceTurn(s, next))
           /\ AdvanceTurn(s, next).revision = s.revision
           /\ AdvanceTurn(s, next).vitality = s.vitality
           /\ AdvanceTurn(s, next).position = s.position
<1> DEFINE refilled(p, b) == \/ ResetBoundary[b] = "roundStart" /\ next.round # turn.round
                             \/ ResetBoundary[b] = "ownerTurnStart" /\ p = next.actor
           new == [p \in Participants |-> [b \in Budgets |->
                      IF refilled(p, b) THEN InitialAmount[b] ELSE s.budget[p][b]]]
<1>1. AdvanceTurn(s, next) = [s EXCEPT !.activations = 0, !.budget = new]
    BY DEF AdvanceTurn, States
<1>2. \A p \in Participants, b \in Budgets :
         /\ new[p][b] \in 0 .. InitialAmount[b]
         /\ InitialAmount[b] \in Nat
    BY ResolutionAssumption DEF Solvent
<1>3. new \in [Participants -> [Budgets -> Int]]
    BY <1>2
<1> HIDE DEF new
<1>4. [s EXCEPT !.activations = 0, !.budget = new] \in States
    BY <1>3, StateUpdates
<1>5. Ceiling \in Nat
    BY ResolutionAssumption
<1> QED
    BY <1>1, <1>2, <1>4, <1>5 DEF Solvent, States

\* Saves only remove effects of one participant.
LEMMA AfterSavesSound ==
    ASSUME NEW s \in States, Solvent(s), NEW p \in Participants, NEW values
    PROVE  /\ AfterSaves(s, p, values) \in States
           /\ Solvent(AfterSaves(s, p, values))
           /\ AfterSaves(s, p, values).revision = s.revision
           /\ AfterSaves(s, p, values).vitality = s.vitality
           /\ AfterSaves(s, p, values).position = s.position
<1> DEFINE kept == {c \in s.effects[p] : values[Rank(c, s.effects[p])] = "low"}
           new  == [s.effects EXCEPT ![p] = kept]
<1>1. s.effects \in [Participants -> SUBSET Participants]
    BY DEF States
<1>2. new \in [Participants -> SUBSET Participants]
    BY <1>1
<1>3. AfterSaves(s, p, values) = [s EXCEPT !.effects = new]
    BY DEF AfterSaves, States
<1> HIDE DEF new
<1>4. [s EXCEPT !.effects = new] \in States
    BY <1>2, StateUpdates
<1> QED
    BY <1>3, <1>4 DEF Solvent, States

-------------------------------------------------------------------------------
(* Accepting a transaction. *)

\* A run that would advance the revision "revision", with all its die values.
Complete(r, revision, evidence) ==
    /\ r \in Runs
    /\ Solvent(r.state)
    /\ r.state.revision = revision + 1
    /\ evidence \in Seq(Values)
    /\ r.used \o r.left = evidence

\* The automatic saves take their values off the front of what is left.
LEMMA AutomaticSavesComplete ==
    ASSUME turn \in Turns, NEW r, NEW n, NEW evidence, Complete(r, n, evidence),
           Running(r), Running(AutomaticSaves(r))
    PROVE  /\ Complete(AutomaticSaves(r), n, evidence)
           /\ AutomaticSaves(r).state.vitality = r.state.vitality
<1> DEFINE count  == Cardinality(r.state.effects[turn.actor])
           values == SubSeq(r.left, 1, count)
           rest   == SubSeq(r.left, count + 1, Len(r.left))
           x      == AfterSaves(r.state, turn.actor, values)
           used   == r.used \o values
           q      == [r EXCEPT !.state = x, !.left = rest, !.used = used]
<1>1. /\ r \in Runs
      /\ r.state \in States
      /\ turn.actor \in Participants
      /\ r.left \in Seq(Values)
      /\ r.used \in Seq(Rolls)
      /\ Len(r.left) \in Nat
    BY LenProperties DEF Complete, Runs, Turns
<1>2. count \in Nat
    BY <1>1, ParticipantsFinite DEF States
<1>3. /\ Len(r.left) >= count
      /\ values \in Seq(Rolls)
      /\ AutomaticSaves(r) = q
  <2> HIDE DEF count
  <2>1. ~(Len(r.left) < count)
    <3>1. Len(r.left) < count => AutomaticSaves(r) = Stop(r, "evidence")
        BY <1>1, <1>2 DEF AutomaticSaves, count
    <3>2. ~Running(Stop(r, "evidence"))
        BY <1>1 DEF Running, Stop, Runs
    <3> QED
        BY <3>1, <3>2
  <2>2. Len(r.left) >= count
      BY <1>1, <1>2, <2>1
  <2>3. ~(values \notin Seq(Rolls))
    <3>1. values \notin Seq(Rolls) => AutomaticSaves(r) = Stop(r, "illegal")
        BY <2>1, <2>2 DEF AutomaticSaves, count
    <3>2. ~Running(Stop(r, "illegal"))
        BY <1>1 DEF Running, Stop, Runs
    <3> QED
        BY <3>1, <3>2
  <2>4. AutomaticSaves(r) = q
      BY <2>1, <2>2, <2>3 DEF AutomaticSaves, count
  <2> QED
      BY <2>2, <2>3, <2>4
<1> HIDE DEF count
<1>4. /\ values \in Seq(Values)
      /\ rest \in Seq(Values)
      /\ values \o rest = r.left
  <2>1. values \in Seq(Values)
      BY <1>3, SeqMonotonic DEF Values
  <2>2. rest \in Seq(Values)
      BY <1>1, <1>2, <1>3, SubSeqProperties, ElementOfSeq
  <2>3. values \o rest = SubSeq(r.left, 1, Len(r.left))
    <3>1. /\ 1 \in 1 .. Len(r.left) + 1
          /\ count \in 1 - 1 .. Len(r.left)
          /\ Len(r.left) \in count .. Len(r.left)
        BY <1>1, <1>2, <1>3
    <3> QED
        BY <1>1, <3>1, ConcatAdjacentSubSeq
  <2> QED
      BY <1>1, <2>1, <2>2, <2>3, SubSeqFull
<1>5. /\ used \in Seq(Rolls)
      /\ used \o rest = evidence
  <2>1. r.used \in Seq(Values)
      BY <1>1, SeqMonotonic DEF Values
  <2>2. (r.used \o values) \o rest = r.used \o (values \o rest)
    <3> HIDE DEF values, rest
    <3>1. \A u, v, w \in Seq(Values) : (u \o v) \o w = u \o (v \o w)
        BY ConcatAssociative
    <3> QED
        BY <1>4, <2>1, <3>1
  <2>3. used \in Seq(Rolls)
      BY <1>1, <1>3, ConcatProperties
  <2> QED
      BY <1>4, <2>2, <2>3 DEF Complete
<1>6. /\ x \in States
      /\ Solvent(x)
      /\ x.revision = r.state.revision
      /\ x.vitality = r.state.vitality
    BY <1>1, AfterSavesSound DEF Complete
<1> HIDE DEF values, rest, used, x
<1>7. /\ q \in Runs
      /\ q.state = x
      /\ q.left = rest
      /\ q.used = used
    BY <1>1, <1>4, <1>5, <1>6 DEF Runs
<1> HIDE DEF q
<1> QED
    BY <1>3, <1>5, <1>6, <1>7 DEF Complete

\* What commit_resolved stages is complete, and nothing of it is left over.
LEMMA SavedComplete ==
    ASSUME turn \in Turns, NEW r, NEW n, NEW evidence, Complete(r, n, evidence),
           Acceptable(r)
    PROVE  /\ Complete(Saved(r), n, evidence)
           /\ Saved(r).state.vitality = r.state.vitality
           /\ Saved(r).used = evidence
           /\ evidence \in Seq(Rolls)
<1>1. Complete(Saved(r), n, evidence) /\ Saved(r).state.vitality = r.state.vitality
    BY AutomaticSavesComplete DEF Acceptable, Saved
<1>2. Saved(r).used \in Seq(Rolls) /\ Saved(r).left = <<>>
    BY <1>1 DEF Complete, Runs, Acceptable
<1> QED
    BY <1>1, <1>2, ConcatEmptySeq DEF Complete

\* Logging a transaction of the next revision.
Logged(revision, actor, action, evidence) ==
    /\ state' \in States
    /\ Solvent(state')
    /\ state'.revision = revision + 1
    /\ turn' \in Turns
    /\ accepted_random_values' \in Nat
    /\ \E a \in Int :
          log' = Append(log, [state_revision |-> revision + 1, actor |-> actor,
                              action |-> action, evidence |-> evidence, activations |-> a])

\* A committed command is logged at its revision with its evidence.
LEMMA CommitLogs ==
    ASSUME state \in States, turn \in Turns, accepted_random_values \in Nat,
           NEW r, NEW evidence, Complete(r, state.revision, evidence),
           NEW i \in Intents, Commit(r, i)
    PROVE  /\ Logged(state.revision, i.actor, i.action, evidence)
           /\ evidence \in Seq(Rolls)
<1> DEFINE saved == Saved(r)
           next  == IF EndsTurn(r) THEN NextTurn(turn, saved.state) ELSE turn
           a     == saved.state.activations - state.activations
<1>1. /\ Complete(saved, state.revision, evidence)
      /\ saved.used = evidence
      /\ evidence \in Seq(Rolls)
    BY SavedComplete DEF Commit
<1>2. /\ saved.state \in States
      /\ Solvent(saved.state)
      /\ saved.state.revision = state.revision + 1
    BY <1>1 DEF Complete, Runs
<1>3. next \in Turns
    BY NextTurnType
<1>4. a \in Int
    BY <1>2 DEF States
<1>5. /\ state' = IF EndsTurn(r) THEN AdvanceTurn(saved.state, next) ELSE saved.state
      /\ turn' = next
      /\ accepted_random_values' = accepted_random_values + Len(saved.used)
      /\ log' = Append(log, [state_revision |-> saved.state.revision, actor |-> i.actor,
                             action |-> i.action, evidence |-> saved.used, activations |-> a])
    BY DEF Commit, Record
<1> HIDE DEF saved, next, a
<1>6. /\ state' \in States
      /\ Solvent(state')
      /\ state'.revision = state.revision + 1
    BY <1>2, <1>3, <1>5, AdvanceTurnSound
<1>7. accepted_random_values' \in Nat
    BY <1>1, <1>5, LenProperties
<1>8. \E b \in Int :
         log' = Append(log, [state_revision |-> state.revision + 1, actor |-> i.actor,
                             action |-> i.action, evidence |-> evidence, activations |-> b])
    BY <1>1, <1>2, <1>4, <1>5
<1> QED
    BY <1>1, <1>3, <1>5, <1>6, <1>7, <1>8 DEF Logged

\* The end of a turn is logged at its revision with its evidence.
LEMMA EndTurnLogs ==
    ASSUME state \in States, turn \in Turns, accepted_random_values \in Nat,
           NEW s \in States, Solvent(s), s.revision = state.revision,
           NEW evidence \in Seq(Rolls), EndTurnFrom(s, evidence)
    PROVE  Logged(state.revision, turn.actor, EndTurn, evidence)
<1> DEFINE next == NextTurn(turn, s)
           x    == AdvanceTurn(s, next)
           y    == [x EXCEPT !.revision = x.revision + 1]
<1>1. next \in Turns
    BY NextTurnType
<1>2. x \in States /\ Solvent(x) /\ x.revision = state.revision
  <2> HIDE DEF next
  <2> QED
      BY <1>1, AdvanceTurnSound
<1>3. state' = y /\ turn' = next
    BY DEF EndTurnFrom
<1>4. accepted_random_values' = accepted_random_values + Len(evidence) /\ Len(evidence) \in Nat
    BY LenProperties DEF EndTurnFrom
<1>5. log' = Append(log, [state_revision |-> state.revision + 1, actor |-> turn.actor,
                          action |-> EndTurn, evidence |-> evidence, activations |-> 0])
    BY DEF EndTurnFrom, Record
<1> HIDE DEF x, next
<1>6. x.revision + 1 \in Nat /\ x.revision + 1 = state.revision + 1
    BY <1>2 DEF States
<1>7. y \in States /\ Solvent(y) /\ y.revision = state.revision + 1
    BY <1>2, <1>6, RevisionUpdate
<1> HIDE DEF y
<1> QED
    BY <1>1, <1>3, <1>4, <1>5, <1>7 DEF Logged

-------------------------------------------------------------------------------
(* The resolutions a session commits. *)

\* A resolution that runs to its end has used all its evidence.
LEMMA ResolveComplete ==
    ASSUME state \in States, Solvent(state), NEW evidence \in Seq(Values),
           NEW i \in Intents, NEW decision,
           Running(Resolve(state, evidence, i, decision))
    PROVE  Complete(Resolve(state, evidence, i, decision), state.revision, evidence)
BY ResolveAdvances DEF Complete

\* The embedded response continues the mover's run: same revision, and its
\* die values come after the ones of the step.
LEMMA RespondComplete ==
    ASSUME NEW r, NEW n, NEW evidence, Complete(r, n, evidence), Running(r),
           NEW c \in MovementContexts, NEW mover \in Participants,
           Running(Respond(r, c, mover))
    PROVE  Complete(Respond(r, c, mover), n, evidence)
<1> DEFINE back     == MoveEntity(r, mover, c.start, 64)
           i        == ResponseIntent(c, mover)
           response == ResolveEmbedded(back.state, r.left, i, "none")
           forward  == MoveEntity(response, mover, c.end, 64)
           used     == r.used \o response.used
           q        == [forward EXCEPT !.used = used]
<1>1. /\ r \in Runs
      /\ r.left \in Seq(Values)
      /\ r.used \in Seq(Rolls)
      /\ r.used \in Seq(Values)
      /\ Sound(r, r.state, evidence)
    BY SeqMonotonic DEF Complete, Runs, Sound, Values
<1>2. c.start \in Cells /\ c.end \in Cells /\ i \in Intents
    BY SessionAssumption DEF MovementContexts, ResponseIntent, Intents
<1>3. Sound(back, r.state, evidence)
    BY <1>1, <1>2, MoveEntitySound
<1> HIDE DEF back, i
<1>4. Sound(response, back.state, r.left)
  <2>1. back.state \in States /\ Solvent(back.state)
      BY <1>3 DEF Sound, Runs
  <2> QED
      BY <1>1, <1>2, <2>1, ResolveEmbeddedSound
<1> HIDE DEF response
<1>5. /\ Sound(forward, back.state, r.left)
      /\ Running(forward) => /\ Running(response)
                             /\ forward = [response EXCEPT !.state.position[mover] = c.end]
    BY <1>2, <1>4, MoveEntitySound
<1>6. Running(back) /\ Running(response) /\ Respond(r, c, mover) = q
    BY DEF Respond, back, response, i
<1>7. /\ forward \in Runs
      /\ response \in Runs
      /\ response.used \in Seq(Rolls)
      /\ response.used \in Seq(Values)
      /\ response.left \in Seq(Values)
    BY <1>4, <1>5, SeqMonotonic DEF Sound, Runs, Values
<1>8. used \in Seq(Rolls)
    BY <1>1, <1>7, ConcatProperties
<1> HIDE DEF used
<1>9. Running(forward)
  <2> HIDE DEF forward
  <2> QED
      BY <1>6, <1>7 DEF Running, Runs
<1>10. forward.left = response.left
  <2> HIDE DEF forward
  <2> QED
      BY <1>5, <1>7, <1>9 DEF Runs
<1> HIDE DEF forward
<1>11. /\ q \in Runs
       /\ q.state = forward.state
       /\ q.left = response.left
       /\ q.used = used
    BY <1>7, <1>8, <1>10 DEF Runs
<1>12. used \o response.left = evidence
  <2>1. \A u, v, w \in Seq(Values) : (u \o v) \o w = u \o (v \o w)
      BY ConcatAssociative
  <2>2. used \o response.left = r.used \o (response.used \o response.left)
      BY <1>1, <1>7, <2>1 DEF used
  <2> QED
      BY <1>4, <2>2 DEF Sound, Complete
<1>13. forward.state.revision = r.state.revision /\ Solvent(forward.state)
    BY <1>3, <1>5 DEF Sound
<1> HIDE DEF q
<1> QED
    BY <1>6, <1>11, <1>12, <1>13 DEF Complete

\* Whatever the host answers, the values that were captured come first.
LEMMA AnswerComplete ==
    ASSUME state \in States, Solvent(state), NEW p \in PendingReactions,
           NEW decision, NEW evidence \in Seq(Values), Running(Answer(p, decision, evidence))
    PROVE  Complete(Answer(p, decision, evidence), state.revision, p.random_values \o evidence)
<1> DEFINE e == p.random_values \o evidence
<1>1. p.intent \in Intents /\ p.random_values \in Seq(Values)
    BY SeqMonotonic DEF PendingReactions, Values
<1>2. e \in Seq(Values)
    BY <1>1, ConcatProperties
<1>3. CASE p.movement = {}
  <2>1. Answer(p, decision, evidence) = Resolve(state, e, p.intent, decision)
      BY <1>3 DEF Answer, AnswerDamage
  <2>2. Complete(Answer(p, decision, evidence), state.revision, e)
    <3> HIDE DEF e
    <3> QED
        BY <1>1, <1>2, <2>1, ResolveComplete
  <2> QED
      BY <2>2
<1>4. CASE p.movement # {}
  <2> DEFINE r == Resolve(state, e, p.intent, "none")
             c == CHOOSE d \in p.movement : TRUE
  <2>1. r \in Runs
    <3> HIDE DEF e
    <3> QED
        BY <1>1, <1>2, ResolveAdvances
  <2>2. c \in MovementContexts
      BY <1>4 DEF PendingReactions
  <2>3. MovementCurrent(p, r)
    <3>1. ~MovementCurrent(p, r) => Answer(p, decision, evidence) = Stop(r, "illegal")
        BY <1>4 DEF Answer, AnswerMovement
    <3>2. ~Running(Stop(r, "illegal"))
      <4> HIDE DEF r
      <4> QED
          BY <2>1 DEF Running, Stop, Runs
    <3> QED
        BY <3>1, <3>2
  <2>4. Running(r)
      BY <2>3 DEF MovementCurrent
  <2>5. Complete(r, state.revision, e)
    <3> HIDE DEF e
    <3> QED
        BY <1>1, <1>2, <2>4, ResolveComplete
  <2>6. Answer(p, decision, evidence)
           = IF decision = "accept" THEN Respond(r, c, p.intent.actor) ELSE r
      BY <1>4, <2>3 DEF Answer, AnswerMovement
  <2>7. p.intent.actor \in Participants
      BY <1>1 DEF Intents
  <2>8. Complete(Answer(p, decision, evidence), state.revision, e)
    <3> HIDE DEF r, c, e
    <3>1. CASE decision = "accept"
        BY <2>2, <2>4, <2>5, <2>6, <2>7, <3>1, RespondComplete
    <3>2. CASE decision # "accept"
        BY <2>5, <2>6, <3>2
    <3> QED
        BY <3>1, <3>2
  <2> QED
      BY <2>8
<1> QED
    BY <1>3, <1>4

\* What a move provokes is a movement context.
LEMMA MovementReactionType ==
    ASSUME state \in States, turn \in Turns, NEW r \in Runs
    PROVE  MovementReaction(r) \subseteq MovementContexts
<1>1. r.voluntary \subseteq Transitions /\ Sentries \subseteq Participants
    BY SessionAssumption DEF Runs
<1>2. state.revision \in Nat /\ turn.round \in Nat /\ turn.turn \in Nat
    BY DEF States, Turns
<1>3. \A c \in Sentries \X r.voluntary :
         /\ c[1] \in Participants
         /\ c[2] \in Transitions
    BY <1>1
<1> QED
    BY <1>2, <1>3 DEF MovementReaction, MovementContexts, Transitions

-------------------------------------------------------------------------------
(* The inductive invariant: the type of the variables, the accounts, the log *)
(* and the phases need each other.                                           *)

IInv ==
    /\ TypeOK
    /\ BudgetsInRange
    /\ LogAccountsForAuthority
    /\ SuspendedIsCurrent

\* The part of the invariant that is not about a waiting transaction.
Core ==
    /\ state \in States
    /\ Solvent(state)
    /\ turn \in Turns
    /\ log \in Seq(Entries)
    /\ accepted_random_values \in Nat
    /\ LogAccountsForAuthority

\* The part that is.
Waiting ==
    /\ pending \in SUBSET PendingReactions
    /\ pending_forced_movement \in SUBSET PendingForcedMovements
    /\ pending_turn_save \in SUBSET PendingTurnSaves
    /\ \A p, q \in pending : p = q
    /\ \A p, q \in pending_forced_movement : p = q
    /\ \A p, q \in pending_turn_save : p = q
    /\ SuspendedIsCurrent

\* The invariant is what holds of the authority and of its phases.
LEMMA InvariantParts ==
    /\ IInv <=> Core /\ Waiting
    /\ IInv' <=> Core' /\ Waiting'
BY DEF IInv, TypeOK, BudgetsInRange, Core, Waiting

\* A logged transaction keeps what holds of the authority.
LEMMA LoggedKeepsCore ==
    ASSUME Core, NEW actor \in Participants, NEW action \in ActionIds \cup {EndTurn},
           NEW evidence \in Seq(Rolls), Logged(state.revision, actor, action, evidence)
    PROVE  Core'
<1>1. PICK a \in Int :
         log' = Append(log, [state_revision |-> state.revision + 1, actor |-> actor,
                             action |-> action, evidence |-> evidence, activations |-> a])
    BY DEF Logged
<1> DEFINE e == [state_revision |-> state.revision + 1, actor |-> actor,
                 action |-> action, evidence |-> evidence, activations |-> a]
<1>2. e \in Entries /\ e.state_revision = state.revision + 1
    BY DEF Entries, Core, States
<1>3. log' = Append(log, e)
    BY <1>1
<1> HIDE DEF e
<1>4. /\ log' \in Seq(Entries)
      /\ Len(log') = Len(log) + 1
      /\ \A k \in 1 .. Len(log) : log'[k] = log[k]
      /\ log'[Len(log) + 1] = e
    BY <1>2, <1>3, AppendProperties DEF Core
<1>5. /\ Len(log) \in Nat
      /\ DOMAIN log = 1 .. Len(log)
      /\ DOMAIN log' = 1 .. Len(log')
    BY <1>4, LenProperties DEF Core
<1>6. Len(log) = state.revision /\ \A k \in DOMAIN log : log[k].state_revision = k
    BY DEF Core, LogAccountsForAuthority
<1>7. LogAccountsForAuthority'
  <2>1. \A k \in 1 .. Len(log) + 1 : log'[k].state_revision = k
    <3> SUFFICES ASSUME NEW k \in 1 .. Len(log) + 1
                 PROVE  log'[k].state_revision = k
        OBVIOUS
    <3>1. CASE k \in 1 .. Len(log)
      <4>1. log'[k] = log[k] /\ log[k].state_revision = k
          BY <1>4, <1>5, <1>6, <3>1
      <4> QED
          BY <4>1
    <3>2. CASE k = Len(log) + 1
      <4>1. log'[k] = e /\ e.state_revision = k
          BY <1>2, <1>4, <1>6, <3>2
      <4> QED
          BY <4>1
    <3> QED
        BY <1>5, <3>1, <3>2
  <2>2. Len(log') = state'.revision
      BY <1>4, <1>6 DEF Logged
  <2> QED
      BY <1>4, <1>5, <2>1, <2>2 DEF LogAccountsForAuthority
<1> QED
    BY <1>4, <1>7 DEF Core, Logged

\* The two kinds of steps.  A step accepts a transaction: the one that waits,
\* with its captured values first, if one does; afterwards no reaction and no
\* save phase waits.
Accepts(actor, action, evidence) ==
    /\ actor \in Participants
    /\ action \in ActionIds \cup {EndTurn}
    /\ evidence \in Seq(Rolls)
    /\ Logged(state.revision, actor, action, evidence)
    /\ \A p \in pending : /\ p.intent.actor = actor
                          /\ p.intent.action = action
                          /\ Abstract!IsStart(p.random_values, evidence)
    /\ pending_turn_save # {} => actor = turn.actor /\ action = EndTurn
    /\ pending' = {}
    /\ pending_turn_save' = {}
    /\ pending_forced_movement' \subseteq pending_forced_movement

\* Or it suspends a transaction and changes nothing else.
OpensReaction ==
    /\ pending = {}
    /\ \E p \in PendingReactions : /\ pending' = {p}
                                   /\ p.expected_revision = state.revision
                                   /\ p.intent.actor = turn.actor
    /\ UNCHANGED <<pending_forced_movement, pending_turn_save>>

OpensSlide ==
    /\ \E p \in PendingForcedMovements : pending_forced_movement' = {p}
    /\ UNCHANGED <<pending, pending_turn_save>>

OpensSaves ==
    /\ pending_turn_save = {}
    /\ turn.actor \in Living(state)
    /\ \E p \in PendingTurnSaves : /\ pending_turn_save' = {p}
                                   /\ p.expected_revision = state.revision
                                   /\ p.actor = turn.actor
                                   /\ p.candidates = state.effects[turn.actor]
    /\ UNCHANGED <<pending, pending_forced_movement>>

Suspends ==
    /\ UNCHANGED <<state, turn, log, accepted_random_values>>
    /\ pending = {}
    /\ pending_turn_save = {}
    /\ OpensReaction \/ OpensSlide \/ OpensSaves

\* An accepted command keeps the invariant.
LEMMA AcceptsKeeps ==
    ASSUME IInv, NEW actor, NEW action, NEW evidence, Accepts(actor, action, evidence)
    PROVE  IInv'
<1>1. Core'
    BY InvariantParts, LoggedKeepsCore DEF Accepts
<1>2. Waiting'
    BY InvariantParts DEF Accepts, Waiting, SuspendedIsCurrent
<1> QED
    BY <1>1, <1>2, InvariantParts

\* A suspended command keeps the invariant.
LEMMA SuspendsKeeps ==
    ASSUME IInv, Suspends
    PROVE  IInv'
<1>1. Core /\ Waiting
    BY InvariantParts
<1>2. Core'
    BY <1>1 DEF Core, LogAccountsForAuthority, Suspends
<1>3. Waiting'
    BY <1>1 DEF Waiting, SuspendedIsCurrent, Living, Suspends, OpensReaction, OpensSlide, OpensSaves
<1> QED
    BY <1>2, <1>3, InvariantParts

\* A proposal is an intent.
LEMMA ProposalType ==
    ASSUME NEW i \in Proposals
    PROVE  i \in Intents
BY DEF Proposals, Intents

\* The four outcomes of a submitted command.
LEMMA SubmitStep ==
    ASSUME IInv, Submit
    PROVE  \/ \E actor, action, evidence : Accepts(actor, action, evidence)
           \/ Suspends
<1>1. PICK i \in Proposals, evidence \in Drawn :
         /\ Submittable(i)
         /\ \E r \in {Resolve(state, evidence, i, "none")} :
               \/ SubmitAccepted(i, r)
               \/ SubmitPush(i, r, evidence)
               \/ SubmitAwaitingReaction(i, r, evidence)
               \/ SubmitAwaitingForcedMovement(i, r, evidence)
    BY DEF Submit
<1>2. /\ i \in Intents
      /\ i.actor \in Participants
      /\ i.action \in ActionIds \cup {EndTurn}
      /\ i.actor = turn.actor
      /\ evidence \in Seq(Rolls)
      /\ evidence \in Seq(Values)
    BY <1>1, ProposalType, EvidenceType, SeqMonotonic DEF Intents, Submittable, Eligible, Values
<1>3. pending = {} /\ pending_forced_movement = {} /\ pending_turn_save = {}
    BY <1>1 DEF Submittable, NoPhase
<1>4. Core /\ Waiting
    BY InvariantParts
<1> DEFINE r == Resolve(state, evidence, i, "none")
<1>5. r \in Runs
    BY <1>2, <1>4, ResolveAdvances DEF Core
<1>6. CASE SubmitAccepted(i, r)
  <2>1. Commit(r, i) /\ UNCHANGED phases
      BY <1>6 DEF SubmitAccepted
  <2>2. Complete(r, state.revision, evidence)
      BY <1>2, <1>4, <2>1, ResolveComplete DEF Core, Commit, Acceptable
  <2>3. Logged(state.revision, i.actor, i.action, evidence)
    <3> HIDE DEF r
    <3> QED
        BY <1>2, <1>4, <2>1, <2>2, CommitLogs DEF Core
  <2>4. Accepts(i.actor, i.action, evidence)
      BY <1>2, <1>3, <2>1, <2>3 DEF phases, Accepts
  <2> QED
      BY <2>4
<1>7. CASE SubmitPush(i, r, evidence)
  <2> DEFINE bound == [i EXCEPT !.cells = ForcedOptions(state, i)]
             pushed == Resolve(state, evidence, bound, "none")
  <2>1. Commit(pushed, bound) /\ UNCHANGED phases
      BY <1>7 DEF SubmitPush
  <2>2. bound \in Intents /\ bound.actor = i.actor /\ bound.action = i.action
    <3>1. ForcedOptions(state, i) \subseteq Cells
        BY DEF ForcedOptions, PushRoute, Reachable
    <3> QED
        BY <1>2, <3>1 DEF Intents
  <2>3. Complete(pushed, state.revision, evidence)
    <3> HIDE DEF bound
    <3> QED
        BY <1>2, <1>4, <2>1, <2>2, ResolveComplete DEF Core, Commit, Acceptable
  <2>4. Logged(state.revision, i.actor, i.action, evidence)
    <3> HIDE DEF pushed, bound
    <3> QED
        BY <1>2, <1>4, <2>1, <2>2, <2>3, CommitLogs DEF Core
  <2>5. Accepts(i.actor, i.action, evidence)
      BY <1>2, <1>3, <2>1, <2>4 DEF phases, Accepts
  <2> QED
      BY <2>5
<1>8. CASE SubmitAwaitingReaction(i, r, evidence)
  <2> DEFINE m == IF Running(r) THEN MovementReaction(r) ELSE {}
             p == [expected_revision |-> state.revision, intent |-> i,
                   random_values |-> evidence, movement |-> m]
  <2>1. pending' = {p} /\ UNCHANGED <<state, turn, log, accepted_random_values,
                                     pending_forced_movement, pending_turn_save>>
      BY <1>8 DEF SubmitAwaitingReaction, Reactions
  <2>2. m \subseteq MovementContexts
    <3> HIDE DEF r
    <3> QED
        BY <1>4, <1>5, MovementReactionType DEF Core
  <2>3. p \in PendingReactions /\ p.expected_revision = state.revision /\ p.intent = i
    <3> HIDE DEF m
    <3> QED
        BY <1>2, <1>4, <2>2 DEF PendingReactions, Core, States
  <2> HIDE DEF p
  <2> QED
      BY <1>2, <1>3, <2>1, <2>3 DEF Suspends, OpensReaction
<1>9. CASE SubmitAwaitingForcedMovement(i, r, evidence)
  <2> DEFINE options == ForcedOptions(state, i)
             p == [intent |-> i, random_values |-> evidence, options |-> options,
                   authority_revision |-> state.revision, turn |-> turn]
  <2>1. pending_forced_movement' = {p} /\ UNCHANGED <<state, turn, log, accepted_random_values,
                                                     pending, pending_turn_save>>
      BY <1>9 DEF SubmitAwaitingForcedMovement, Slides
  <2>2. options \subseteq Cells
      BY DEF ForcedOptions, PushRoute, Reachable
  <2>3. p \in PendingForcedMovements
    <3> HIDE DEF options
    <3> QED
        BY <1>2, <1>4, <2>2 DEF PendingForcedMovements, Core, States
  <2> HIDE DEF p
  <2> QED
      BY <1>3, <2>1, <2>3 DEF Suspends, OpensSlide
<1> QED
    BY <1>1, <1>6, <1>7, <1>8, <1>9

\* Captured evidence is the start of what is committed.
LEMMA CapturedStarts ==
    ASSUME NEW u \in Seq(Rolls), NEW v \in Seq(Values)
    PROVE  Abstract!IsStart(u, u \o v)
<1>1. u \in Seq(Values)
    BY SeqMonotonic DEF Values
<1>2. /\ Len(u) \in Nat
      /\ Len(v) \in Nat
      /\ Len(u \o v) = Len(u) + Len(v)
      /\ \A k \in 1 .. Len(u) : (u \o v)[k] = u[k]
    BY <1>1, ConcatProperties, LenProperties
<1> QED
    BY <1>2 DEF Abstract!IsStart

\* An answered reaction.
LEMMA ReactStep ==
    ASSUME IInv, React
    PROVE  \E actor, action, evidence : Accepts(actor, action, evidence)
<1>1. PICK p \in pending, decision \in {"decline", "accept"}, evidence \in Raw :
         ReactAccepted(p, decision, evidence)
    BY DEF React
<1> DEFINE e == p.random_values \o evidence
           r == Answer(p, decision, evidence)
<1>2. Core /\ Waiting
    BY InvariantParts
<1>3. /\ p \in PendingReactions
      /\ p.intent \in Intents
      /\ p.intent.actor \in Participants
      /\ p.intent.action \in ActionIds \cup {EndTurn}
    BY <1>2 DEF Waiting, PendingReactions, Intents
<1>4. /\ Commit(r, p.intent)
      /\ pending' = {}
      /\ pending_turn_save = {}
      /\ UNCHANGED <<pending_forced_movement, pending_turn_save>>
    BY <1>1 DEF ReactAccepted
<1>5. Complete(r, state.revision, e)
    BY <1>2, <1>3, <1>4, AnswerComplete, EvidenceType DEF Core, Commit, Acceptable
<1>6. Logged(state.revision, p.intent.actor, p.intent.action, e) /\ e \in Seq(Rolls)
  <2> HIDE DEF r, e
  <2> QED
      BY <1>2, <1>3, <1>4, <1>5, CommitLogs DEF Core
<1>7. Abstract!IsStart(p.random_values, e)
    BY <1>3, EvidenceType, CapturedStarts DEF PendingReactions
<1>8. \A q \in pending : q = p
    BY <1>1, <1>2 DEF Waiting
<1> HIDE DEF e
<1>9. Accepts(p.intent.actor, p.intent.action, e)
    BY <1>3, <1>4, <1>6, <1>7, <1>8 DEF Accepts
<1> QED
    BY <1>9

\* A chosen destination.
LEMMA SlideStep ==
    ASSUME IInv, Slide
    PROVE  \E actor, action, evidence : Accepts(actor, action, evidence)
<1>1. PICK p \in pending_forced_movement, evidence \in Raw :
         \E d \in p.options : ResolveForcedMovement(p, d, evidence)
    BY DEF Slide
<1>2. PICK destination \in p.options : ResolveForcedMovement(p, destination, evidence)
    BY <1>1
<1> DEFINE e     == p.random_values \o evidence
           bound == [p.intent EXCEPT !.cells = {destination}]
           r     == Resolve(state, e, bound, "none")
<1>3. Core /\ Waiting
    BY InvariantParts
<1>4. /\ p.intent \in Intents
      /\ destination \in Cells
      /\ p.random_values \in Seq(Values)
    BY <1>3, SeqMonotonic DEF Waiting, PendingForcedMovements, Values
<1>5. /\ bound \in Intents
      /\ bound.actor \in Participants
      /\ bound.action \in ActionIds \cup {EndTurn}
    BY <1>4 DEF Intents
<1>6. e \in Seq(Values)
    BY <1>4, EvidenceType, ConcatProperties
<1>7. /\ Commit(r, bound)
      /\ pending = {}
      /\ pending_turn_save = {}
      /\ pending_forced_movement' = {}
      /\ UNCHANGED <<pending, pending_turn_save>>
    BY <1>2 DEF ResolveForcedMovement
<1>8. Complete(r, state.revision, e)
  <2> HIDE DEF e, bound
  <2> QED
      BY <1>3, <1>5, <1>6, <1>7, ResolveComplete DEF Core, Commit, Acceptable
<1>9. Logged(state.revision, bound.actor, bound.action, e) /\ e \in Seq(Rolls)
  <2> HIDE DEF r, e, bound
  <2> QED
      BY <1>3, <1>5, <1>7, <1>8, CommitLogs DEF Core
<1> HIDE DEF e, bound
<1>10. Accepts(bound.actor, bound.action, e)
    BY <1>5, <1>7, <1>9 DEF Accepts
<1> QED
    BY <1>10

\* No evidence is evidence.
LEMMA EmptyEvidence == <<>> \in Seq(Rolls)
BY EmptySeq

\* The end of a turn, at once or after a save phase was opened.
LEMMA ControlStep ==
    ASSUME IInv, Control
    PROVE  \/ \E actor, action, evidence : Accepts(actor, action, evidence)
           \/ Suspends
<1>1. Core /\ Waiting
    BY InvariantParts
<1>2. /\ turn.actor \in Participants
      /\ state.effects[turn.actor] \subseteq Participants
    BY <1>1 DEF Core, States, Turns
<1>3. CASE ControlAccepted
  <2>1. Logged(state.revision, turn.actor, EndTurn, <<>>)
      BY <1>1, <1>3, EmptyEvidence, EndTurnLogs DEF Core, ControlAccepted
  <2>2. Accepts(turn.actor, EndTurn, <<>>)
      BY <1>2, <1>3, <2>1, EmptyEvidence
      DEF ControlAccepted, Controllable, phases, Accepts
  <2> QED
      BY <2>2
<1>4. CASE ControlAwaitingTurnSave
  <2> DEFINE p == [expected_revision |-> state.revision, actor |-> turn.actor,
                   candidates |-> state.effects[turn.actor]]
  <2>1. /\ pending_turn_save' = {p}
        /\ pending = {}
        /\ pending_turn_save = {}
        /\ turn.actor \in Living(state)
        /\ UNCHANGED <<state, turn, log, accepted_random_values,
                       pending, pending_forced_movement>>
      BY <1>4 DEF ControlAwaitingTurnSave, Controllable, TurnSaves
  <2>2. /\ p \in PendingTurnSaves
        /\ p.expected_revision = state.revision
        /\ p.actor = turn.actor
        /\ p.candidates = state.effects[turn.actor]
      BY <1>1, <1>2 DEF PendingTurnSaves, Core, States
  <2> HIDE DEF p
  <2> QED
      BY <2>1, <2>2 DEF Suspends, OpensSaves
<1> QED
    BY <1>3, <1>4 DEF Control

\* The saves of a suspended end of turn.
LEMMA SaveStep ==
    ASSUME IInv, Save
    PROVE  \E actor, action, evidence : Accepts(actor, action, evidence)
<1>1. PICK p \in pending_turn_save, evidence \in Raw : ResolvePendingTurnSave(p, evidence)
    BY DEF Save
<1>2. Core /\ Waiting
    BY InvariantParts
<1>3. p.actor = turn.actor /\ turn.actor \in Participants
    BY <1>1, <1>2 DEF Waiting, SuspendedIsCurrent, Core, Turns
<1>4. evidence \in Seq(Rolls)
  <2>1. evidence \in Seq(Values) /\ \A k \in DOMAIN evidence : evidence[k] \in Rolls
      BY <1>1, EvidenceType DEF ResolvePendingTurnSave
  <2>2. /\ Len(evidence) \in Nat
        /\ DOMAIN evidence = 1 .. Len(evidence)
        /\ evidence = [k \in 1 .. Len(evidence) |-> evidence[k]]
      BY <2>1, LenProperties, SeqDef
  <2> QED
      BY <2>1, <2>2, SeqDef
<1> DEFINE s == AfterSaves(state, p.actor, evidence)
<1>5. s \in States /\ Solvent(s) /\ s.revision = state.revision
    BY <1>2, <1>3, AfterSavesSound DEF Core
<1>6. EndTurnFrom(s, evidence)
    BY <1>1 DEF ResolvePendingTurnSave
<1> HIDE DEF s
<1>7. Logged(state.revision, turn.actor, EndTurn, evidence)
    BY <1>2, <1>4, <1>5, <1>6, EndTurnLogs DEF Core
<1>8. Accepts(turn.actor, EndTurn, evidence)
    BY <1>1, <1>3, <1>4, <1>7 DEF ResolvePendingTurnSave, Accepts
<1> QED
    BY <1>8

\* A step accepts a command, or changes what is pending.
LEMMA NextStep ==
    ASSUME IInv, Next
    PROVE  \/ \E actor, action, evidence : Accepts(actor, action, evidence)
           \/ Suspends
BY SubmitStep, ReactStep, SlideStep, ControlStep, SaveStep DEF Next

\* A session begins with nothing logged and nothing pending.
LEMMA InitHolds ==
    ASSUME Init
    PROVE  IInv
<1>1. state \in States /\ Solvent(state)
    BY SessionAssumption, ResolutionAssumption DEF Init, States, Solvent
<1>2. turn \in Turns
    BY DEF Init, Turns
<1>3. log = <<>> /\ log \in Seq(Entries) /\ Len(log) = 0 /\ DOMAIN log = {}
    BY EmptySeq DEF Init
<1>4. Core
    BY <1>1, <1>2, <1>3 DEF Core, Init, LogAccountsForAuthority
<1>5. Waiting
    BY DEF Waiting, Init, SuspendedIsCurrent
<1> QED
    BY <1>4, <1>5, InvariantParts

\* A step of nothing keeps the invariant.
LEMMA StutterKeeps ==
    ASSUME IInv, UNCHANGED vars
    PROVE  IInv'
<1>1. UNCHANGED <<state, turn, log, accepted_random_values,
                 pending, pending_forced_movement, pending_turn_save>>
    BY DEF vars, phases
<1>2. Core' /\ Waiting'
    BY <1>1, InvariantParts DEF Core, Waiting, LogAccountsForAuthority, SuspendedIsCurrent, Living
<1> QED
    BY <1>2, InvariantParts

\* The inductive invariant of every session: types, accounts, log and phases.
THEOREM InductiveInvariant == Spec => []IInv
<1>1. Init => IInv
    BY InitHolds
<1>2. IInv /\ [Next]_vars => IInv'
    BY NextStep, AcceptsKeeps, SuspendsKeeps, StutterKeeps
<1> QED
    BY <1>1, <1>2, PTL DEF Spec

\* Every variable keeps its type and no phase ever holds two transactions.
THEOREM TypeCorrect == Spec => []TypeOK
BY InductiveInvariant, PTL DEF IInv

\* Budgets and the activation count stay in the range a checkpoint accepts,
\* whatever commands staged, discarded and staged again.
THEOREM BudgetsNeverOverdrawn == Spec => []BudgetsInRange
BY InductiveInvariant, PTL DEF IInv

\* One accepted transaction, one revision, one log entry - on each of the
\* paths a transaction can take through submit, react, control and the rest.
THEOREM LogIsComplete == Spec => []LogAccountsForAuthority
BY InductiveInvariant, PTL DEF IInv

\* A waiting reaction or save phase is never stale: nothing moves the revision,
\* the turn or the saving effects from under it.
THEOREM SuspensionsStayCurrent == Spec => []SuspendedIsCurrent
BY InductiveInvariant, PTL DEF IInv
===============================================================================
