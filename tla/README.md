# Asha RPG: models and proofs of the authority session

The Rust runtime in `src/` carries out tabletop-RPG encounters. A host (a game,
a tool, the example consumer) loads a compiled play bundle and a Scenario, gets
an *authority session*, and drives it by commands. The session alone decides
what is legal, computes every consequence, and keeps the log that a replay is
checked against. This directory holds TLA+ models of that session, the TLC runs
that check them on small instances, and proofs that TLAPS checks for every
instance.

Contents: [components](#1-components-of-the-system), [modules](#2-the-modules),
[abstractions](#3-abstractions-and-bounds), [runs](#4-the-runs),
[disagreements found](#5-where-the-code-disagrees-with-its-documentation),
[proofs](#6-the-proofs), [what is not modelled](#7-what-is-not-modelled),
[plan](#8-plan), [running it](#9-running-it).

Paths: RT is `src/crates/rpg-runtime/src`, CORE is `src/crates/rpg-core/src`,
COMP is `src/crates/rpg-compiler/src`.

## 1. Components of the system

### Turn engine (RT/encounter.rs)
State: `RpgEncounterTurn` (round, turn, actor). Operations: `next_turn`,
`participant_is_living`, `encounter_outcome`. The next actor is the nearest
living participant after the current one in the initiative order; the round
counts the times the order wraps. It keeps nothing of its own, and is used by
every path that ends a turn.
*Hard*: it runs after the damage and the saves of the same transaction, so that
those just defeated have to be skipped and the order may wrap over them.
*Correct when*: nobody alive is passed over, the counters agree with the order,
and whoever holds the turn can act.

### Action resolution (COMP/execute.rs)
State: one `RpgCapabilityWorkspace` per resolution: a copy of the capability
state, the die values left and used, the check result, the pending reduction,
whether the decision has been used. Operations: validate the intent, pay the
activation, roll the checks, run the program (reaction window, damage, effects,
steps, forced movement, sources, resources, modifiers), advance the revision.
It can stop at any operation: illegal, more dice needed, a decision needed, a
route needed. It also computes contribution ledgers, outcome bands, dice pools
and damage packets.
*Hard*: a resolution that stops after some operations has already changed its
copy; a decision or a route makes the whole resolution run again; an embedded
response runs in the middle of another command's workspace.
*Correct when*: a stopped run leaves no trace, evidence is consumed in order
and to the last value, budgets never go out of range, and a command advances the
revision by one however it was reached.

### Capability state and its owners (CORE/authority.rs)
State: vitality, position, resources, modifiers, effects, spatial sources,
activation budgets, revision. Operations: one owner per capability (apply,
remove, age, record a trigger, move, spend, refill).
*Hard*: stacking over definitions and sources, and ageing at turn boundaries
that must skip what the same transaction applied.
*Correct when*: what is active has the duration that the log leaves it, and the
stacking rules hold whatever the order of applications.

### Authority session (RT/semantic_session.rs)
State: the capability state, the turn, the log, the random position, and the
three phases `pending` (a reaction), `pending_forced_movement` (the destination
of a slide), `pending_turn_save` (the saves at the end of a turn). Operations:
`submit`, `react`, `resolve_forced_movement`, `control`, and the recorded variants
that draw from a random source. Interactions: it calls the resolution, then the
triggers, the turn engine and the ageing, and replaces its state only when all
of them succeed.
The view (`encounter_view`) lists what may be submitted; `submit` decides again.
*Hard*: a suspended command is resolved again from the beginning, from whatever
the state is then; the phases have to exclude each other and must not outlive
their turn; each phase blocks the session until it is answered; what is offered
and what is accepted are computed by different code.
*Correct when*: it behaves as a log of transactions with at most one waiting
(`TransactionLog`), and every suspension can be and is resolved.

### Encounter setup and validation (RT/encounter.rs, CORE/authority.rs)
`validate_scenario` checks what a Scenario lists (board, definitions, characters,
items, capabilities, turn) against the compiled bundle; `build_encounter` builds
every entity by the `restore` functions of the capability state and *expects* each
to succeed; `runtime_board_rejection` and `validate_restored_encounter` check the
same of a state that comes back. Each participant has the ruleset values its
Scenario supplies and those that the bundle's plan derives from them.
*Hard*: two descriptions of one set of states, written apart: a rule that only
the restore knows of ends the process. *Correct when*: an accepted Scenario is
built, its first checkpoint is accepted, and every later lookup finds one thing.

### Board geometry (RT/encounter.rs)
`movement_paths` (a best-first search with ties broken by position order),
`push_path`, `line_of_effect_supercover` and `area_projection`. Pure functions of
board and positions. *Hard*: an area is named by its anchor alone and derived
again at submission; a line through a corner meets four squares. *Correct when*:
routes are least, ties do not depend on the order of exploration, a push is a
straight route, and an area reaches exactly those it can get at and says of every
other one why not.

### Spatial sources and triggers (CORE/authority.rs, RT/semantic_session.rs)
Sources cover cells for a while; entering, leaving, starting or ending a turn in
them dispatches procedures. *Hard*: triggers change the state that later ones
see; a source made in this transition must not fire; each key fires once; an
error anywhere rejects the whole command. *Correct when*: those rules hold, and a
turn can always be ended.

### Checkpoint and replay (RT/replay.rs)
A checkpoint stores the state, the turn, the log, the random position and one
phase. A phase is restored by submitting its command again and comparing.
Replay entries hold the boundaries before and after one operation. A restored or
cloned session gets an identity of its own, and its pending phases are rebound to it.
*Hard*: storage may lose, repeat or reorder entries; a checkpoint may be taken in
the middle of anything; what a restore refuses is written apart from what a
session reaches. *Correct when*: every state a session reaches can be
checkpointed and restored, a complete journal makes the session again and a
damaged one only a moment of its past, and options of another session are refused.

### Random sources (RT/semantic_session.rs)
Each `*_with_random_source_recorded` method tries the command on a snapshot,
draws what it asks for, and repeats within limits. *Hard*: the source may fail
at any draw, or supply too little; limits; the control method opens a save phase
before it draws. *Correct when*: the recorded evidence is what was supplied, in
order, and the session's random position accounts for it.

### Compiler (COMP/artifact.rs, COMP/compile.rs)
One pass over a play bundle: the formulas of derived values are ordered into a
plan or refused for a cycle; an action and its program are validated, and a plan
of the random draws and the bounds of the damage published with them. It keeps no
state; the run time *relies* on what it has checked, and stops with an internal
error where that was not enough. *Correct when*: a value is computed after those
it reads, an accepted program runs to its end whatever the check, the dice and
the stats are, draws no more than planned, and harms within its bounds.

### IR, authoring, facade
`rpg-ir` holds data types and decoding; `src/packages` generates bundles offline;
`asha-rpg`, the consumers and the scripts re-export, demonstrate and check. They
keep no state at run time.

The hazards these components are exposed to are listed, each at its line and
with the properties aimed at it, under `hazards` in `PROJECT.json`.

## 2. The modules

```
TurnEngine <- BoardRow <- ActionResolution <- AuthoritySession <- Checkpoint <- MCFixedSession
                   |                                |                           MCVariableSession
                   |                                |                           MCSlideSession
                   |                                +--(INSTANCE)-> TransactionLog
                   +---- Tenure <- TransitionLedger <- RestoredLedger <- MCLedger
RecordedSession <- ReplayedSession <- MCRecorded
BoardRoutes, BoardSight <- ActionOptions, ScenarioSetup,
    ContributionTerms, ScalarTest <- DicePool, DamagePacket <- Algorithms <- MCAlgorithms
DependencyOrder <- RulesetValues, ProgramContract <- ProgramRun <- Compiler <- MCCompiler
```

**TurnEngine** is the turn order: `Living`, `InProgress` (encounter_outcome),
`NextTurn` (next_turn). It works on any state record with a `vitality` field.

**BoardRow** is the board of the session modules, a row of unit-cost cells:
`Reachable` (movement_paths), `PushRoute` (push_path), `BoardLegal`
(runtime_board_rejection). On such a row the cost, the distance and the route
all follow from two cells; the search itself is checked in `BoardRoutes`.

**ActionResolution** is one resolution as a pure function from a state, die
values, an intent and a decision to a *run*: where it stopped, the staged state,
evidence left and used. Each stage is an operator with the name of the code's:
`TakeRandom`, `SpendActivation`, `LegalIntent`, `ResolveChecks`, `OpenReaction`,
`Damage`, `ForcedMovement`, `MoveToCell`, `ApplyEffect`, `ExecuteProgram`,
`ResolveEmbedded`, `Resolve`. A rejected resolution is a stopped run whose state
nobody uses, as the workspace is dropped in the code.

**AuthoritySession** is the state machine. `vars` are the fields of
`RpgSemanticSession`; a phase, an `Option` in the code, is a set that is empty
or a singleton. Actions: `Submit` (accepted at once, after a derived push route,
or suspended on a reaction or a slide), `React` (a before-damage decision, or a
movement reaction with its embedded response), `Slide`, `Control` (ends the turn
or opens the save phase), `Save`. `Commit` is `commit_resolved`: in the fixed
economy it rolls the automatic saves, refills budgets and passes the turn in the
same step. A rejected command changes nothing, so rejections are stuttering.

**TransactionLog** is what a session promises its host: transactions are
committed one by one, at most one waits, the one that waits is the next one to
commit, is based on the log it was suspended at and keeps the die values it had.
`AuthoritySession` implements it with reactions and save phases as the waiting
transactions. A waiting slide is not one of them: the code lets a turn end past it
(section 5), and the options it holds make it useless afterwards.

**Checkpoint** takes and restores a checkpoint at every reachable state of
`AuthoritySession`: `CheckpointPhase` (checkpoint_phase), `ValidEncounter`
(validate_restored_encounter), `RestorePhase` (restore_phase, which submits the
phase's command again and compares what that leaves pending). The states in which the
session is already broken are excepted: two phases at once, a slide left behind by the
end of its turn (`SlideLeftBehind`), a defeated current actor.

**Tenure** holds the owners of what lasts: stacking (`Displaced`, `Stacked`,
`WithModifier`), boundaries (`Crosses`, `DueEffects`, `DueSources`,
`DueModifiers`, `Aged`) and trigger records (`Records`, `Recorded`).

**TransitionLedger** is the other half of `commit_resolved` and `control`: what a
transaction does to effects, modifiers and sources over many turns. `Act` runs
a procedure, advances the revision, dispatches the triggers of its movement and,
in the fixed economy, passes the turn; `ControlEndTurn` ends the turn.
`PassTurn` is `append_turn_events`: the triggers of the ending turn, the ageing,
the triggers of the starting turn, in that order. `Dispatch` is one trigger:
suppressed, inapplicable, or run as an embedded resolution.

**RestoredLedger** writes what the ledger holds into a checkpoint and reads it
back: `PortableEffects`, `PortableSources` (portable_state), `StateRestores` (the
bounds of every `restore`), `ContractsHold` and `GeometryHolds` (what
`restore_state` and `validate_restored_encounter` compare with the definitions and
the board), `TurnRestores`.

**RecordedSession** is the automatic calls as loops: `BeginLoop` or
`BeginControl`, then `Draw` while the command asks for values, and `Finish`,
`SourceFails` or `GiveUp`. The session is reduced to what the loops see: the
revision, the random position, the phases and their captured values, and the
identity that its options are bound to.

**ReplayedSession** is that session and its host's storage: checkpoints, the
journal of entries since, crashes, clones, a storage that may lose, repeat or
reorder entries, and `Replay` (replay_entry, compare_outcome,
rebind_pending_session_identity), which makes a session from what is left.

**BoardRoutes** is `movement_paths` on a board of two dimensions, one candidate
per step (`Explore`), and `push_path`, which enters the cells of a straight line up to
the first that cannot be entered (`PushRoute`); beside them stands what both have to
find, defined over all routes of the board (`RoutesAreLeast`).
**ContributionTerms** is the contract of one scalar contribution
(`AcceptsContribution`: limits, owners, references, the interval arithmetic of
`PossibleRange`) beside its evaluation in a check (`Candidate`: its value first, then its
predicate, with flanking and surrounding). **ScalarTest** is the contribution ledger,
the natural-roll effects and the shifts of outcome bands
(`resolve_ordered_scalar`); **DicePool** the construction of a dice pool and the
cancellation of its axes (`resolve_heterogeneous_pool`); **DamagePacket** the
phases of a damage packet (`resolve_damage_packet`). **Algorithms** asks each
of them about inputs, one question per step, and compares the answer with a
definition that does not follow the code.

**BoardSight** holds `Apart`, `Supercover` (the walk of a line of effect) and
`Projection` (area_projection): shape, sight, filters, reasons for exclusion.
**ActionOptions** puts two computations side by side: what `encounter_view` offers
for an action of the current actor, with the items it may be used with
(`item_bindings_for_actor`), its participants, cells or anchors, and what `submit`
and `control` accept when bare identities come back. **ScenarioSetup** is
`validate_scenario` and `build_encounter` as functions of a bundle and a Scenario:
refused, built, or a panic where an expectation fails.

**DependencyOrder** is the ordering loop of `compile_ruleset_value_plan`, one
target per step. **RulesetValues** takes a bundle from there to a Scenario, a
session and a restored checkpoint: `ValidFormula`, `Evaluate` (with the floor
division as it is computed), `EvaluateTarget`, `ValidDerived`.
**ProgramContract** is what `compile.rs` and then `artifact.rs` demand of an action
(`Accepted`), the random plan (`RandomPlan`, `CheckPlan`) and the damage bounds
(`Bounds`). **ProgramRun** compiles an action and, if it is accepted, carries out
its program one node per step with a stack of work, for every outcome, die value
and stat; it keeps the branches taken (`chosen`), what the parts of predicates came to
(`held`) and that a reaction window was answered (`reaction_consumed`). **Compiler** is the two of them beside each other.

## 3. Abstractions and bounds

Sessions. Rolls are "low" and "high", and "bad" for a value off the die. A
program has up to three operations, which are inside `onCheck.hit` if the action
rolls. An action has one participant target or one cell. A save-ends effect is
identified by its source. Item bindings, areas, modifiers, resources and spatial
sources are not part of this state (the last three are in TransitionLedger, the
first two in ActionOptions).
The evidence of a submit is what a random source draws; that of an answer is
anything the host may send. A session starts at round 1 and turn 1 with any
living participant. The limit of 32 save candidates is not reached.

Ledger. Damage and drain are by one; effects have a fixed duration (save-ends
ones are AuthoritySession's); a modifier's value is fixed by its id; instance
ids are left out, since definition and source identify an instance; the actor
owns the source it creates; there are no modifiers at the start. Every command
runs to its end or is rejected: no dice, phases or budgets.

Recorded calls. The commands of a session are given by how many values they need
and where they suspend. A save phase beside a waiting slide is left out: the
code has no boundary for it (it reaches an `unreachable!`; section 5).

Calculations. A cell of cost 0 stands for one that is missing, impassable or has
no cost. In ScenarioSetup identities are numbers in the order of their texts.
In the ledger, contributions, shifts and responses come in their canonical order with
the outcome of their predicates; values and predicates are the subject of
ContributionTerms, where texts of a reason are left out and the two kinds of named value
are one. The 32-bit range is -9 .. 9, so that overflow is
reached. The code's limits of 256 and 128 elements are not.

Compiler. A program is a tree whose parts are reached by named steps; formulas have
constants, reads of one stat, dice, sums and halves. Its outcome is a hit, a miss or
a band for each target; what an operation does to the state is left out, except
for the amounts it evaluates. Plan and run name a place by different texts (the parts of
an `all` or `any` are `predicate[i]` in the one and `predicate.predicates[i]` in the other,
and only the run numbers repeats, targets and dice); the model compares the nodes that
they name. The i64 of bounds and plans does not overflow there.

Bounds, all CONSTANTS of the modules:

| bound | meaning | value in the runs |
|---|---|---|
| `MaxRevision` | no command starts at this revision | 3 to 7 |
| `MaxNumber` | sessions made one after the other | 3 |
| `MaxEvidence` | values supplied with one command | 1 to 3 |
| `MaxCalls` | automatic calls a host makes | 3 |
| `MaximumActive`, `MaximumKeys` | the code's own limits, made small | 3, 4 |
| `MaxRequests`, `MaxValues` | the code's own limits, made small | 3, 4 |
| `MaxDice`, `MaxInt` | the code's own limits, made small | 5, 9 |
| `MaxDepth`, `MaxNodes`, `MaxNarrow`, `MaxWide` (compiler) | limits of a formula, i32 and i64, made small | 3, 5, 6, 7 |
| `TermLimits`, `MaxWide` (algorithms) | limits of a contribution and i64, made small | depth 3, 5 nodes, 2 parts; 20 |
| `Limits`, `MaxAmount` | the limits of compile.rs and i32, made small | `MCLimits`, 7 |

They are enough for what the runs are after. Four revisions in a fixed session
let all three participants act and one act again, after it was harmed, hexed and
moved. Seven in a variable session pass two whole rounds, or a round with an
action in every turn; walks with movement reactions, attacks with and without a
parry, hexes and their saves follow each other in any order that the budgets
allow, and the ceiling of two activations and every budget are exhausted.
The
fixed session also owns a slide, so that turns end past a waiting one. Three calls let a command be suspended, answered, and
followed by another; the volley needs as many attempts as there are, the blast
more values than are allowed; two crashes or clones may follow each other, each
with any journal that a storage makes of the entries. Four transactions in the ledger are one that
applies an effect and three that pass the turn, so that counts of one, two and
three all run out, the round wraps, and a curse is replaced by another
definition of its stacking identity. Three derived values form every
cycle and every order up to that size. The programs of the compiler run nest every
kind of node in the others up to three levels, for one and two targets, and each
limit is exceeded by one of them.

Fairness. `LiveSpec` adds weak fairness of `React`, `Slide` and `Save` only: the
host goes on answering what the session asks, as the contract requires of it
(`src/docs/encounter-session-contract.md:75`, a pending phase "blocks other
commands until resolved"). Nothing is assumed about new commands.
`EverySuspensionEnds` therefore says that the session never offers a question
that no answer settles, and not that the host is busy.

Deadlock is not checked: an encounter may be over, and then no command is
accepted; the bounds stop the others.

## 4. The runs

| run | module, cfg | distinct states | question |
|---|---|---|---|
| fixed_session | MCFixedSession | 16,740 | fixed economy: every accepted action saves and passes the turn, also past a slide |
| variable_session | MCVariableSession | 5,459 | variable economy: budgets, parries, movement reactions, save phases |
| variable_live | MCVariableSession, MCVariableLive | 415 | do all suspensions end |
| ledger | MCLedger | 49,534 | two against one over four revisions, both economies, zones of harm and of effects |
| recorded_session | MCRecorded | 590,651 | automatic calls, limits, failing sources, crashes, clones, damaged journals |
| algorithms | MCAlgorithms | 123,420 | calculations, setups and views against independent definitions |
| compiler | MCCompiler | 186,506 | plans of derived values, programs compiled and run |
| slide_phases | MCSlideSession, MCSlidePhases | violation in 4 states | are the phases exclusive |
| composed_reaction | MCSlideSession, MCComposedReaction | violation in 2 | can every reaction be answered |
| variable_current_actor | MCVariableSession, MCVariableActor | violation in 6 | is the acting participant alive |
| ledger_effects | MCLedger, MCLedgerEffects | violation in 3 | do effects keep their duration |
| rejections_replay | MCRecorded, MCRejections | violation | do recorded rejections replay |

What the properties say:

* `LogAccountsForAuthority`: by every path of acceptance, one revision and one
  entry. `ImplementsTransactionLog`: nothing is committed between a suspension
  and its own commit, and dice the host has seen are not rolled again.
* `SuspendedIsCurrent`: a waiting reaction or save phase belongs to the current
  revision, actor and effects; the two exclude each other.
* `BudgetsInRange`, `ActivationsPaidOnce`: a command that is staged, dropped and
  staged again pays once, and guards and responses of other owners count. What an
  entry cost is taken from its own resolution: a double charge inside a single
  resolution would show in `BudgetsInRange` at most.
* `ReactionIsAnswerable`, `EverySuspensionEnds`: no question without an answer.
* `InterruptedStepLands`: whatever the response does, the step ends where its
  trigger said, and nobody else has moved.
* `SlideCommitsOnItsTurn`: the options of a slide are never used in a later turn.
* `TurnPassesInOrder`, `CurrentActorLives`: the turn order.
* `CheckpointRestores`: at every reachable state a checkpoint is accepted and
  gives back the same session, apart from the states the findings are about (two
  phases at once, a slide left behind, a defeated current actor).
* `LedgerRestores`: the same of effects, modifiers and sources: no sequence of
  applications, ageing and triggers leaves what one of the bounds of a restore refuses.
* `EffectTenure`, `SourceTenure`, `ModifierTenure`: what is left of a duration is
  recomputed from the log, as the boundaries crossed since it was applied.
* `TriggersOncePerTransition`, `TurnCanEnd`: a source fires once for each occasion,
  and a turn that triggers never keep from ending.
* `EvidenceIsSupplied`, `PositionAccountsForEvidence`: the entries of automatic
  calls hold exactly what was supplied, and the random position counts it.
* `JournalReplays`: a checkpoint and all entries since make the very session again,
  whatever it waits for. `RecoveryIsHistorical`: if entries were lost, repeated or
  reordered and the replay still succeeds, the result is a moment of the session's
  own past. `OptionsAnswerable`: a pending decision takes the option of its own
  session, and none of an earlier one, of the original of a clone or of the
  trial that a restore makes.
* `RoutesAreLeast` compares the search with all simple routes of the board,
  and holds a push to the straight and legal one among them; `FirstFoundIsBest` says that
  the search never corrects a route.
* `ContributionsEvaluate`: what the compiler accepts has a value (the signed sum of its
  leaves) in its selector's domain and a decided predicate wherever the participants have the
  values it reads; where they lack one, only what no value could change is decided; and
  whoever flanks has a partner who does.
* `AreaIsWhole` decides with the cross products of corners which squares a line
  meets, and holds the projection of an area to them, participant by participant. The
  participants of its inputs also stand where the board has no cell: a line from there
  is refused in any case, a diamond only where the selector requires a line of effect.
* `SetupIsWhole`: an accepted Scenario is built without a failed expectation, its
  checkpoint is accepted, and lookups by identity and by position find one thing.
* `OptionsAreAccepted`: what a view offers is accepted, alone and together, and
  nothing else is, in the encounters that section 5 does not except.
* `LedgerFollowsPolicies`, `BandsMoveOneAtATime`, `PoolAddsUp`,
  `PacketFollowsPhases` do the like for contributions, bands, pools and packets.
* `ReadsPlacedFirst`, `CyclesRefused`: a value is placed once and after what it
  reads; a bundle is refused exactly if some value depends on itself.
* `DerivedFollowFormulas`: the derived values of a session, built or restored, are
  what their formulas mean (quotients by their defining inequalities) and in range.
* `PlanCoversDraws`, `AcceptedProgramsRun`, `AmountsWithinBounds`: a run of an
  accepted program draws what its random plan says, under the conditions the plan
  gives: the branches it has taken, and behind an `all` or an `any` that stops early
  the parts before the dice, each true or each false. It never lacks an outcome,
  nor a bound, a target or its one reaction window except where section 5 says; and its
  damage is inside the bounds it was accepted by.

Each property has a mutant in `PROJECT.json`: a changed definition of the model
(a dropped guard, a missing reset, a swapped order), written beside the one it
replaces and marked `Mutant`, that the run's instance tells apart.

## 5. Where the code disagrees with its documentation

1. **A turn can be ended while a slide waits** (slide_phases; semantic_session.rs:1757).
   `control` does not look at `pending_forced_movement`, although the view reports
   the control as unavailable (line 811), the contract says that a forced-movement
   choice blocks other commands (`encounter-session-contract.md:75`), and
   `checkpoint_phase` calls the phases exclusive in an `unreachable!`
   (replay.rs:1239). A save phase then opens beside the slide, and a checkpoint
   in that state panics. After the turn has ended the slide can neither commit,
   because its options embed the revision and turn, nor be restored: its checkpoint
   names the new revision (replay.rs:1225), at which the command that is submitted
   again (line 1314) offers other options than those that were stored.
   `SlideCommitsOnItsTurn` holds: the stale options are never used.
2. **A reaction window before a slide cannot be answered** (composed_reaction;
   semantic_session.rs:1590). `react` rejects every error of the resolution, also
   the request for a destination that the contract says suspends the transaction
   (`encounter-session-contract.md:139`). The compiler accepts the composition.
3. **A movement reaction may defeat the acting participant**
   (variable_current_actor; semantic_session.rs:1802). Nothing passes the turn on, and
   `submit` and `control` both refuse a defeated actor, while two teams are still
   fighting; the session's checkpoint is refused too (encounter.rs:2761). In the
   fixed economy this cannot happen, which is proved (`FixedActorLives`).
4. **Effects applied by triggers carry a later revision** (ledger_effects;
   execute.rs:3342). The operation stamps an effect with the workspace's revision
   plus one, which is right for an action but one too many after it has advanced
   the revision: the effect ages in its own transaction, not in the next, and
   `restore_state` (replay.rs:1113) refuses the checkpoint. The contract says that
   effects skip every boundary of the transaction that applied them
   (`encounter-session-contract.md:71`). In the run ledger, effects are applied by
   triggers only under the variable economy, in `control`, where the revision
   advances last; there all durations are right.
5. **A recorded rejection may be carried out when it is replayed**
   (rejections_replay; replay.rs:643 and 655). `replay_entry` gives every recorded slide the
   session's own binding and every recorded answer to a movement reaction the id
   that is pending. An answer that was refused because it named another session or
   reaction is then accepted, and the journal refused, while the contract says that
   a replay takes the ordinary paths (`encounter-session-contract.md:190`).
   `JournalReplays` leaves such entries out.

Observed while modelling, without a run of their own:

* A trigger at the start of a turn may defeat the participant whose turn it becomes
  (semantic_session.rs:3580), with the result of item 3. No property says so: the
  rulesets of the ledger have no such trigger (`StartsAreHarmless`), and
  `LedgerRestores` asks about the turn in the fixed economy only.
* An end-of-turn trigger whose program fails with an error of its own rejects the
  end of that turn every time, while the view offers it (lines 3429 and 868).
  `EndsCannotFail` names the contents for which this is excluded.
* An end-of-turn trigger that refreshes a modifier to an identical value ages it in
  its own transition (line 3535, authority.rs:1143): only changed ones are exempt.
* If the source fails after the automatic end of a turn has opened the save
  phase, the replay entry of the opening is lost, and the same call is then only
  rejected (line 2371). `JournalReplays` asks about journals without such a gap.
* `push_path` bounds the cells of a push, `execute_forced_movement` (execute.rs:3931)
  its movement cost: over costly cells the derived route is rejected. No property
  relates the two.
* The check for stale candidates in `movement_paths` (encounter.rs:2249) is never
  taken. This follows from `FirstFoundIsBest`, which is proved.
* The view goes on offering cells and areas once the encounter is completed, cells to a
  current actor that has been defeated, and areas whose selector does not ask for the
  living although one of its participants is dead; `submit` refuses all of these
  (`RPG_ENCOUNTER_COMPLETED`, `RPG_INTENT_TARGET_INACTIVE`), while the README
  (`src/README.md:36`) and the contract (line 105) speak of legal options. These are the
  three exceptions in `OptionsAreAccepted`.
* A for-each inside of another leaves no target bound behind it, so that what
  follows it in the outer one fails (execute.rs:2780). A for-each with a bound below the
  selector's maximum is accepted and fails for more targets. Once a reaction was
  answered every further window of the command fails
  (`RPG_REACTION_MULTIPLE_WINDOWS_UNSUPPORTED`, execute.rs:3769), be it another or the
  same one that a repeat or a for-each comes back to, and the compiler accepts such
  programs. All three are exceptions in `AcceptedProgramsRun`.
* The compiler counts pushes and slides in the text of a program
  (artifact.rs:4114), so that one inside a `repeat` is carried out twice.
* The dice in the formula of an attack modifier or a saving throw's difficulty are in no
  random plan (compile.rs:872). `PlanCoversDraws` is about all others.
* The terms of a damage formula are added in i32 one after the other, so that a sum whose
  bounds fit may still overflow on the way, although the catalog says that the bounds
  exclude it (`first-wave-primitive-catalog.md:576`). This is the exception in
  `AmountsWithinBounds`.
* A contribution is evaluated before its predicate (execute.rs:2269), so that one that does
  not apply still fails the whole check (`RPG_RUNTIME_CONTRIBUTION_VALUE_MISSING`) if the
  actor or the target lacks the value it reads; and Scenario validation lets a participant
  lack one. A selector whose domain is wider than i32 is accepted and may fail with
  `RPG_RUNTIME_CONTRIBUTION_VALUE_OVERFLOW`: the exception in `ContributionsEvaluate`.

## 6. The proofs

Nearly four hundred lemmas and theorems in eight modules; those that a reader should
know of are listed in `PROJECT.json`. All rest on the named assumptions of the modules
(`InitiativeAssumption`, `BoardAssumption`, `ResolutionAssumption`, `SessionAssumption`,
`KeysAssumption`, `TenureAssumption`, `LedgerAssumption`, `RecordedAssumption`), which
TLC evaluates in the runs. The constants are otherwise arbitrary: any set of
participants and teams, any actions, programs, definitions, costs and budgets, and any
bounds.

**TurnEngine_proofs.** Every non-empty set of offsets has a least one, and `NextTurn`
chooses the nearest living participant of the order; the places passed over are those in
between (`NextTurnIsNearestLiving`).

**ActionResolution_proofs.** `Sound(r, s, evidence)` says that a run is well-typed, that
the evidence used and left is the evidence supplied (so it is consumed from the front),
that budgets are in range and that the revision is that of `s`. Each stage keeps it, one
lemma per operation; hence `ResolveEmbeddedSound`, and `ResolveAdvances`: a completed
command is exactly one revision further. `ResolveMoves` follows the same stages with
`Moved`: who may be on another cell than before. A run reads die values from the front
and never looks at the others: with more of them (`Extended`) a stage that did not lack
any does the same, and one that lacked some goes on (one lemma per stage again).
`DeclineResolves`: a command that waits in a window before its damage, carried out again
with what it has drawn and the answer "decline", goes through that window and completes
after at most two more values, whatever they are, if nobody is moved after the window.

**AuthoritySession_proofs.** `IInv` is the conjunction of `TypeOK`, `BudgetsInRange`,
`LogAccountsForAuthority` and `SuspendedIsCurrent`. None of the four is inductive alone:
the log agrees with the revision only if a waiting answer was captured at the current
one, a suspension is resolved into a typed entry only if its captured dice are typed,
budgets stay in range only if the state resolved from has them in range. The argument
classifies each step: it *accepts* one transaction (`Accepts`: one entry, one revision,
the captured dice in front, no reaction or save phase left) or *suspends* one
(`Suspends`: nothing but the phase changes). `SubmitStep`, `ReactStep`, `SlideStep`,
`ControlStep` and `SaveStep` show it for each action; `AcceptsKeeps` and `SuspendsKeeps`
show that the invariant survives either. `TypeCorrect`, `BudgetsNeverOverdrawn`,
`LogIsComplete` and `SuspensionsStayCurrent` follow.

**AuthoritySteps_proofs.** What each step does to the turn: it passes the turn by
`NextTurn` in the new state, or keeps it and ends the encounter or stays in the variable
economy, or changes no state (`NextKinds`). Hence `TurnsPassInOrder`, and
`FixedActorLives` for the fixed economy; for the other that is false (item 3 of section
5). `ActivationsArePaidOnce`: what the participant may still activate, with what the
entries of its turn have paid for (`PaidUpTo`, counted up to a place in the log), is its
budget. An accepted entry pays for itself, one that passes the turn leaves none of the
new turn's to count, and a suspended command has paid for nothing that is in the log.
`SlidesStayOnTheirTurn`: the options of a slide name revision and turn, and no state of
a later turn accepts them. `InterruptedStepsLand`: a resolution moves its actor or the
target it forces and nobody else (`ResolveMoves`), and the participants of an embedded
response are not in the middle of the step. Under the mapping of `Abstract`, an
accepting step is `Commit` of the abstract log, a suspending one `Suspend` or a stutter:
`SessionImplementsLog`. `CheckpointsRestore`: `Restorable` says of a session that its
board is legal, that its log holds nothing but actions of their owners, and that its
phase is what its own command leaves pending when it is submitted again at the state and
turn it was captured in (`AsksAgain`, `OffersAgain`; `StaysRestorable`). A slide may
stay behind when its turn is ended; of that one nothing more is said than that it
belongs to an earlier revision, and `SlideLeftBehind` excepts it.
`ReactionsCanBeDeclined`: a captured command, answered with "decline", completes, the
saves and budgets of the end of the turn included, and what it leaves is accepted. It
assumes `AnswersFit`: no program moves anybody or opens another window after a window,
and the evidence of one command may be as long as two dice and a save of everybody. The
first is not ensured by the code: without it the statement is false, which is item 2 of
section 5. The second is about the model's own bound. TLC evaluates `AnswersFit` for the
content of variable_session (`VariableAnswersFit`).

**BoardRoutes_proofs.** `FirstFoundStays`: on every board, with all costs and obstacles,
the first candidate queued for a cell is the one it keeps. The invariant: what is
explored comes before all that is queued (`ExploredFirst`); each route extends the route
of an explored cell (`FromExplored`); each prefix of a route is the route of a cell, at
less cost (`PrefixClosed`). As a cell costs the same from every side, extending two
routes to one cell keeps their order, unless one is a prefix of the other, and then
their costs differ. `RoutesAreFound`: the search ends with the least route to each cell
in reach, and with no other. `LeastInv` adds that every candidate kept is a route at its
cost within the bound (`FoundWalks`), and that from an explored cell nothing better
leads to a neighbour (`Spread`). When the frontier is empty every cell is explored; then
each part of a simple route in reach, from the shortest on, leads to a cell that was
found, and by nothing better (`PartsAreReached`), and what was found is simple itself.
The cells of a push are a route, and straight, because each is one step in the same
direction from the one before.

**DependencyOrder_proofs.** `PlanIsOrdered`: whatever the targets and their formulas
read, no target is placed before what it reads, and none twice. The count that is kept
for a target has to be the number of its reads that are missing, and `ready` exactly the
unplaced targets that miss none; neither is inductive without the other, since a count
that is too small would make a target ready too early and a target that is ready twice
would be placed twice. `CyclesAreReported`: when nothing is ready, what was left out
reads something left out (`LeftoverIsCircular`), and of a circle the first to be placed
would have had a read placed before it (`CircularIsLeftOver`); so comparing two lengths,
which is all the code does, finds the cycles and nothing else.

**ReplayedSession_proofs.** The invariant says of every session, the original, a clone
or one that a restore has made, that its options carry its own identity, that its phases
exclude each other and that a waiting answer was captured at its revision; of the
journal, that its entries are such as a call can leave and that they account for the
position; of the last checkpoint, that it agrees with the journal before it.
`EvidenceRecorded`: what the draws of a call supplied is what its entries hold.
`PositionsAccount`: the position is the sum of what the entries took and of the start of
the journal, less what the pending phase still holds; sums are over entries up to a
place, and a replay takes entries one by one from what storage left of them.
`OwnOptionsDecide`: identities are never used again, so that a decision with an option
of another session is refused, after any number of clones and restores.
`JournalsReplay`: a second invariant, `JournalInv`, says that every entry is one that
some session has recorded (`Faithful`), and that each begins where the one before it has
ended, unless the opening of a save phase was lost there (`Linked`); a control call in
progress holds the opening that goes on from the end. It is kept by a replay of a
damaged journal too, because what a replay accepts is without gaps (`ReplayChains`).
Sessions that differ in number and bindings only (`Alike`) answer every operation alike,
once its option is given the binding of the session that replays it (`PerformAlike`),
except for a refused option of another session (`Stale`, item 5 of section 5); so the
entries of a journal without gaps replay one by one (`ChainReplays`), from a checkpoint
whose pending command, carried out again, suspends where it did (`Restores`).
`RecoveriesAreHistorical`: the revision of a session, and whether it waits, make its
`Rank`; an operation that changes a session raises it (`PerformRank`), and so does an
entry (`EntryRank`). If the storage lost, repeated or exchanged an entry that changed
something, the next one would begin at another rank than the last one has ended at, so
that the replay fails; what it accepts has the effective entries of the journal, or the
first of them (`StoredHistory`).

**TransitionLedger_proofs.** A transaction is staged: a command, triggers, the triggers
of the ending turn, the ageing, those of the starting turn, each of which runs a program
whose operations read what the earlier ones left. `Balanced(t, s, ...)` is what holds of
a staged transaction all along: it is typed; its effects and sources are those of the
state it started in or of its own, at most one for a stacking identity; what is not its
own has counted the boundary that it passes, once; and what has fired is recorded at its
own revision in every source that it concerns (`FiredOnce`), so that it cannot fire
again. One lemma for each operation and each stage shows that it is kept
(`OperateBalances`, `DispatchBalances`, `AgeBalances`, `PassTurnBalances`). Ageing is
exact because a turn always goes to a participant at another place of the order
(`NextIsAnother`), so that each boundary is met once by each anchor (`PassedCounts`).
Accepting a transaction extends the log by the one entry whose boundaries it has counted
(`AcceptKeeps`).

* `SourcesHoldTenure` and `TriggersFireOnce` hold for all content.
* `EffectsHoldTenure` needs `EffectsAreTimely`: no trigger applies an effect after the
  revision has been advanced. Without it the statement is false, which is item 4 of
  section 5.
* `ModifiersHoldTenure` needs `ModifiersAreTimely`: no trigger at the end of a turn
  applies a modifier. Without it an identical refresh ages at once, as observed in
  section 5.
* `LedgerAlwaysRestores` needs `EffectsAreTimely` and, in the fixed economy,
  `StartsAreHarmless`: no trigger at the start of a turn harms, since it could defeat
  whose turn it becomes.
* `TurnsCanEnd` needs `EndsCannotFail`: no trigger at an end of a turn takes from a
  resource, or applies an effect unless a participant has room for every effect of every
  source. A transaction that passes the turn stays `Quiet`: nothing has failed, and what
  its sources have recorded in it are the keys of the two ends of a turn, so that there
  is room for each of them (`RoomForKey`; two are all the condition asks for), also when
  the programs in between create or remove what the later ones read.

These are conditions on content, which a ruleset may or may not meet, and not
assumptions of the models: the content of the run ledger meets the first three
(`TimelyAssumption` of MCLedger), that of ledger_effects does not. `EndsCannotFail` is
met by the fixed ruleset of the run ledger (`SomeEndsCannotFail`), and not by its
variable one, with effects at both ends of a turn and little room, for which the run
shows `TurnCanEnd`.

Recursive functions and induction. The sums and the runs of programs are recursive
functions on an interval. That one exists and what it is at each place is shown with the
set of the places for which it holds and the least place where it would not
(`LeastExists`, `CountingUp`, `StepsTaken`), so that no induction theorem with an
operator as its parameter is needed.

Only model-checked: `TurnCanEnd` where `EndsCannotFail` does not hold; the calculations
except `FirstFoundIsBest` and `RoutesAreLeast`, and of the compiler everything but the
order of the plan. Most of these compare two computations over trees and sequences of
arbitrary size, and need induction over data. Out of the prover's reach:
`EverySuspensionEnds` (liveness under fairness), statements about `ENABLED`, and what
the RECURSIVE operators of ContributionTerms, ProgramContract and RulesetValues compute
over trees, with all that uses them (Algorithms, ProgramRun, Compiler).

## 7. What is not modelled

* Areas and item bindings inside AuthoritySession: they are gates of a submission
  (ActionOptions) and targets of a program (ProgramRun), so that the state machine
  would gain choices and no transitions.
* Hashes, schema versions, and the classification of another artifact's or
  Scenario's checkpoint: comparisons of texts.
* The rest of the compiler: references between content packs, procedures,
  profiles, contributions to pools and outcome shifts, pool axes, the activation timing of movement
  responses, identifiers and diagnostics. Planned in part.
* Narration, presentation and the projections of a view beyond its options.
* Normalized IR and decoding, TypeScript authoring, the facade, the consumers and
  the scripts: no run-time state and no control of their own.

## 8. Plan

Done, in this order: TurnEngine, BoardRow, ActionResolution, AuthoritySession with
TransactionLog, the proofs of its invariant, turn order and refinement,
Checkpoint, Tenure and TransitionLedger, RecordedSession, the calculations, the
proof about routes; then DependencyOrder, RulesetValues, ProgramContract and
ProgramRun, RestoredLedger, ReplayedSession, BoardSight, ScenarioSetup, ActionOptions,
ContributionTerms and the proof about the plan; then the proofs of activations, slides and
interrupted steps, of the recorded and replayed session, and of the ledger; at last the
proofs of checkpoints, of declined reactions, of least routes and of the ends of turns.

Next, the most important first:

1. Deriving `Compiled` and `SessionAssumption` from ProgramContract, so that nothing
   about an action is assumed.
2. Heterogeneous terms of a random request and healing in the resolution, so that the
   session and the calculations meet.
3. Deriving `AnswersFit` and `EndsCannotFail` for a bundle from its programs, so that the
   compiler could warn of the contents that the conditional theorems except.

Abstract specifications worth stating besides TransactionLog: a *tape* that only
moves forward, for RecordedSession, and a multiset of timers for the ledger.

## 9. Running it

    tlc -workers 2 -config MCVariableSession.cfg MCVariableSession
    tlapm AuthoritySession_proofs.tla

Each run of section 4 takes a few minutes at most. The runs marked as violations end
with the counterexample that section 5 describes.
