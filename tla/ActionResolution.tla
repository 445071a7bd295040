--------------------------- MODULE ActionResolution ---------------------------
(***************************************************************************)
(* Resolution of one authored action against a staged copy of the          *)
(* capability state (crates/rpg-compiler/src/execute.rs with the mutation  *)
(* owners of crates/rpg-core/src/authority.rs).                            *)
(*                                                                         *)
(* A resolution is a run record that is passed from stage to stage.  Its   *)
(* "stop" field says why the run ended early: "evidence" asks the host for *)
(* another die value, "reaction" and "route" suspend the command for a     *)
(* decision, "illegal" is every other rejection.  The staged state of a    *)
(* stopped run is never used: that is the atomicity of the workspace.      *)
(*                                                                         *)
(* A die value is abstracted to what the code compares it with: "low" and  *)
(* "high" (below, or at least, the number that hits or saves) and "bad", a *)
(* value outside the die.                                                  *)
(***************************************************************************)
EXTENDS BoardRow

CONSTANTS MaxVitality,   \* vitality.max of every participant
          Actions,       \* compiled actions, by id
          Economy,       \* "fixed" or "variable" (activation budgets)
          Budgets,       \* activation budget ids of the Ruleset
          InitialAmount, \* initial_amount of each budget
          ResetBoundary, \* "roundStart" or "ownerTurnStart", of each budget
          Allowance,     \* the movement allowance budget: {} or a singleton
          Ceiling        \* accepted_activation_ceiling

ActionIds  == DOMAIN Actions
Rolls      == {"low", "high"}
Values     == Rolls \cup {"bad"}
Decisions  == {"none", "decline", "accept"}
Stops      == {"run", "evidence", "reaction", "route", "illegal"}
Operations == {"none", "window", "strike", "shift", "step", "afflict"}

\* A compiled action: "program" is a sequence of at most three operations,
\* inside onCheck.hit when the action rolls.  "shift" is its one forced movement.
ActionRecords ==
    [timing    : {"action", "reaction"},
     team      : {"hostile", "ally", "any"},
     targets   : {"participant", "cell"},
     range     : Nat,
     costs     : [Budgets -> Nat],
     check     : BOOLEAN,
     program   : [1 .. 3 -> Operations],
     reduction : Nat,
     guard     : [Budgets -> Nat],
     damage    : Nat,
     dice      : BOOLEAN,
     shift     : {"push", "slide"},
     distance  : Nat]

\* What the compiler checks of a program: moveToCell wants a cell target, a
\* push or a slide one participant target and to be the only one.
Compiled(a) ==
    /\ \A k \in 1 .. 3 : a.program[k] = "step" => a.targets = "cell"
    /\ \A k \in 1 .. 3 : a.program[k] = "shift" => a.targets = "participant"
    /\ \A k, l \in 1 .. 3 : a.program[k] = "shift" /\ a.program[l] = "shift" => k = l

\* After a window only strikes and effects: what the theorems about declined
\* reactions ask of a program.  The compiler does not ask it.
Declinable(a) ==
    \A k, l \in 1 .. 3 :
        a.program[k] = "window" /\ k < l => a.program[l] \in {"none", "strike", "afflict"}

ASSUME ResolutionAssumption ==
    /\ MaxVitality \in Nat
    /\ Actions \in [ActionIds -> ActionRecords]
    /\ \A id \in ActionIds : Compiled(Actions[id])
    /\ Economy \in {"fixed", "variable"}
    /\ InitialAmount \in [Budgets -> Nat]
    /\ ResetBoundary \in [Budgets -> {"roundStart", "ownerTurnStart"}]
    /\ Allowance \subseteq Budgets
    /\ Ceiling \in Nat
    \* fixed rulesets declare no budgets
    /\ Economy = "fixed" => Budgets = {}

States ==
    [revision    : Nat,
     vitality    : [Participants -> 0 .. MaxVitality],
     position    : [Participants -> Cells],
     budget      : [Participants -> [Budgets -> Int]],
     activations : Nat,
     effects     : [Participants -> SUBSET Participants]]

\* What a checkpoint is validated against: no budget overdrawn or above its
\* initial amount, no activation beyond the ceiling.
Solvent(s) ==
    /\ \A p \in Participants, b \in Budgets : s.budget[p][b] \in 0 .. InitialAmount[b]
    /\ s.activations <= IF Economy = "fixed" THEN 0 ELSE Ceiling

\* "cells" holds the selected cell of a step or the forced-movement binding.
Intents == [action : ActionIds, actor : Participants, target : Participants,
            cells : SUBSET Cells]

Transitions == [mover : Participants, start : Cells, end : Cells]

Runs ==
    [stop      : Stops,
     state     : States,
     left      : Seq(Values),
     used      : Seq(Rolls),
     hit       : BOOLEAN,
     reduction : Nat,
     decided   : BOOLEAN,
     voluntary : SUBSET Transitions]

-------------------------------------------------------------------------------
(* Stages of a resolution. *)

\* forced_movement_options: the routes of a push or of a slide.
ForcedOptions(s, i) ==
    LET a == Actions[i.action]
    IN  IF a.shift = "push"
        THEN PushRoute(s, i.actor, i.target, a.distance)
        ELSE Reachable(s, i.target, a.distance)

Running(r) == r.stop = "run"

Stop(r, why) == [r EXCEPT !.stop = why]

\* RpgCapabilityWorkspace::stage: a copy of the state, the evidence unread.
Staged(s, evidence) ==
    [stop |-> "run", state |-> s, left |-> evidence, used |-> <<>>,
     hit |-> TRUE, reduction |-> 0, decided |-> FALSE, voluntary |-> {}]

\* take_random: consume one die value, or ask for it.
TakeRandom(r) ==
    CASE r.left = <<>> -> Stop(r, "evidence")
      [] r.left # <<>> /\ Head(r.left) \notin Rolls -> Stop(r, "illegal")
      [] OTHER -> [r EXCEPT !.left = Tail(r.left),
                            !.used = Append(r.used, Head(r.left))]

Rolled(r) == r.used[Len(r.used)]

\* Mutant: one activation more than the ceiling.
PayableAtCeiling(s, p, costs) ==
    /\ s.activations <= Ceiling
    /\ \A b \in Budgets : costs[b] <= s.budget[p][b]

\* activation_rejection
Payable(s, p, costs) ==
    /\ s.activations < Ceiling
    /\ \A b \in Budgets : costs[b] <= s.budget[p][b]

\* spend_activation: the model without budgets has no activations at all.
SpendActivation(r, p, costs) ==
    CASE Economy = "fixed"          -> r
      [] Economy # "fixed" /\ ~Payable(r.state, p, costs) -> Stop(r, "illegal")
      [] OTHER -> [r EXCEPT !.state.activations = @ + 1,
                            !.state.budget[p] = [b \in Budgets |-> @[b] - costs[b]]]

\* validate_intent
LegalIntent(s, i) ==
    LET a == Actions[i.action]
    IN  IF a.targets = "cell"
        THEN /\ i.cells # {}
             /\ \A c \in i.cells : Distance(s.position[i.actor], c) <= a.range
        ELSE /\ CASE a.team = "hostile" -> Team[i.target] # Team[i.actor]
                  [] a.team = "ally"    -> Team[i.target] = Team[i.actor]
                  [] OTHER              -> TRUE
             /\ Distance(s.position[i.actor], s.position[i.target]) <= a.range

ResolveChecks(r, i) ==
    IF ~Running(r) \/ ~Actions[i.action].check
    THEN r
    ELSE LET rolled == TakeRandom(r)
         IN  IF Running(rolled)
             THEN [rolled EXCEPT !.hit = (Rolled(rolled) = "high")]
             ELSE rolled

\* Mutant: the window forgets that the decision was used.
OpenReactionForgets(r, i, decision) ==
    LET a     == Actions[i.action]
        spent == IF decision = "accept" THEN SpendActivation(r, i.target, a.guard) ELSE r
    IN  CASE decision = "none" -> Stop(r, "reaction")
          [] decision # "none" /\ ~Running(spent) -> spent
          [] OTHER -> [spent EXCEPT !.reduction = IF decision = "accept"
                                                  THEN a.reduction ELSE 0]

\* openReaction
OpenReaction(r, i, decision) ==
    LET a     == Actions[i.action]
        spent == IF decision = "accept" THEN SpendActivation(r, i.target, a.guard) ELSE r
    IN  CASE r.decided                          -> Stop(r, "illegal")
          [] ~r.decided /\ decision = "none"    -> Stop(r, "reaction")
          [] ~r.decided /\ decision # "none" /\ ~Running(spent) -> spent
          [] OTHER -> [spent EXCEPT !.decided   = TRUE,
                                    !.reduction = IF decision = "accept"
                                                  THEN a.reduction ELSE 0]

\* The damage of a strike, less the reduction of the reaction.
Amount(rolled, a) ==
    LET raw == a.damage + IF a.dice /\ Rolled(rolled) = "high" THEN 1 ELSE 0
    IN  IF raw <= rolled.reduction THEN 0 ELSE raw - rolled.reduction

\* Mutant: vitality is not stopped at 0.
DamageUnclamped(r, i) ==
    LET a      == Actions[i.action]
        rolled == IF a.dice THEN TakeRandom(r) ELSE r
    IN  IF ~Running(rolled)
        THEN rolled
        ELSE [rolled EXCEPT !.reduction = 0,
                            !.state.vitality[i.target] = @ - Amount(rolled, a)]

\* damage: the reaction's reduction applies once, vitality stops at 0.
Damage(r, i) ==
    LET a      == Actions[i.action]
        rolled == IF a.dice THEN TakeRandom(r) ELSE r
    IN  IF ~Running(rolled)
        THEN rolled
        ELSE [rolled EXCEPT
                !.reduction = 0,
                !.state.vitality[i.target] =
                    IF @ <= Amount(rolled, a) THEN 0 ELSE @ - Amount(rolled, a)]

\* move_entity: a move of no distance or beyond the maximum is refused.
MoveEntity(r, p, c, maximum) ==
    IF Distance(r.state.position[p], c) \in 1 .. maximum
    THEN [r EXCEPT !.state.position[p] = c]
    ELSE Stop(r, "illegal")

\* execute_forced_movement: without a bound route the host has to choose one.
ForcedMovement(r, i) ==
    IF i.cells = {}
    THEN Stop(r, "route")
    ELSE MoveEntity(r, i.target, CHOOSE c \in i.cells : TRUE,
                    Actions[i.action].distance)

\* moveToCell: moves, then pays the movement cost out of the allowance.
MoveToCell(r, i) ==
    LET c     == CHOOSE d \in i.cells : TRUE
        start == r.state.position[i.actor]
        cost  == Distance(start, c)
        moved == MoveEntity(r, i.actor, c, Actions[i.action].distance)
    IN  CASE ~Running(moved) -> moved
          [] Running(moved) /\ \E b \in Allowance : r.state.budget[i.actor][b] < cost
                -> Stop(r, "illegal")
          [] OTHER ->
                [moved EXCEPT
                    !.state.budget[i.actor] =
                        [b \in Budgets |-> IF b \in Allowance THEN @[b] - cost ELSE @[b]],
                    !.voluntary = {[mover |-> i.actor, start |-> start, end |-> c]}]

\* applyEffect of a save-ends effect, one instance per source.
ApplyEffect(r, i) ==
    [r EXCEPT !.state.effects[i.target] = @ \cup {i.actor}]

\* execute_operation, for the k-th step of the program.
Operate(r, i, decision, k) ==
    LET op == Actions[i.action].program[k]
    IN  IF op = "none" \/ ~Running(r) \/ ~r.hit
        THEN r
        ELSE CASE op = "window"  -> OpenReaction(r, i, decision)
               [] op = "strike"  -> Damage(r, i)
               [] op = "shift"   -> ForcedMovement(r, i)
               [] op = "step"    -> MoveToCell(r, i)
               [] op = "afflict" -> ApplyEffect(r, i)

ExecuteProgram(r, i, decision) ==
    Operate(Operate(Operate(r, i, decision, 1), i, decision, 2), i, decision, 3)

\* RPG_REACTION_DECISION_UNUSED
DecisionUsed(r, decision) ==
    IF Running(r) /\ decision # "none" /\ ~r.decided THEN Stop(r, "illegal") ELSE r

\* validate_intent, then the activation of the action itself.
Begin(r, i) ==
    IF LegalIntent(r.state, i)
    THEN SpendActivation(r, i.actor, Actions[i.action].costs)
    ELSE Stop(r, "illegal")

\* resolve_internal without the revision: what an embedded response does.
ResolveEmbedded(s, evidence, i, decision) ==
    DecisionUsed(
        ExecuteProgram(ResolveChecks(Begin(Staged(s, evidence), i), i), i, decision),
        decision)

\* advance_revision of a completed run
AdvanceRevision(r) ==
    IF Running(r) THEN [r EXCEPT !.state.revision = @ + 1] ELSE r

\* resolve_with_context: a completed run advances the state revision.
Resolve(s, evidence, i, decision) == AdvanceRevision(ResolveEmbedded(s, evidence, i, decision))
===============================================================================
