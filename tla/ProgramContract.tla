---------------------------- MODULE ProgramContract ----------------------------
(***************************************************************************)
(* What the compiler asks of an action and its program: the Validator of   *)
(* crates/rpg-compiler/src/compile.rs, then the contract with the Ruleset  *)
(* in crates/rpg-compiler/src/artifact.rs; and what it tells of an         *)
(* accepted one: the plan of its random draws, the bounds of its damage.   *)
(*                                                                         *)
(* A program is [kind, of, ...]: "of" maps the steps <<name, number>> that *)
(* lead from it to its parts.  Formulas and predicates are [op, of, ...]   *)
(* with a sequence of parts.  The i64 of the bounds does not overflow here.*)
(***************************************************************************)
EXTENDS Integers, Sequences, FiniteSets, SequencesExt, FiniteSetsExt

CONSTANTS Limits,    \* the MAX_ constants of compile.rs
          MaxAmount  \* i32::MAX; i32 is -MaxAmount..MaxAmount

ASSUME ContractAssumption ==
    /\ MaxAmount \in Nat
    /\ \A limit \in DOMAIN Limits : Limits[limit] \in Nat

-------------------------------------------------------------------------------
(* Formulas and predicates. *)

PredicateOps == {"always", "compare", "not", "all", "any"}

RECURSIVE Terms(_, _)

\* The terms of a formula or predicate, each at its path.
Terms(f, at) ==
    {[term |-> f, at |-> at]} \cup
        UNION {Terms(f.of[k], Append(at, k)) : k \in DOMAIN f.of}

ValidTerm(rules, t, hasTarget, allowRandom) ==
    CASE t.op = "constant" -> TRUE
      [] t.op = "read" -> /\ t.subject = "target" => hasTarget
                          /\ t.stat \in DOMAIN rules.stats
                          /\ "stats" \in rules.capabilities
      [] t.op = "dice" -> /\ allowRandom
                          /\ t.count \in 1 .. Limits.dice
                          /\ t.sides \in 2 .. Limits.sides
                          /\ "random" \in rules.capabilities
      [] t.op = "add" -> t.of # <<>>
      [] t.op = "half" -> TRUE

\* validate_formula_node: the depth and the number of the terms, and each term.
ValidAmount(rules, f, hasTarget, allowRandom) ==
    LET terms == Terms(f, <<>>)
    IN  /\ Cardinality(terms) <= Limits.expressionNodes
        /\ \A t \in terms : /\ Len(t.at) < Limits.expressionDepth
                            /\ ValidTerm(rules, t.term, hasTarget, allowRandom)

\* validate_predicate_node: each side of a comparison is a formula of its own.
ValidPredicate(rules, predicate, hasTarget) ==
    LET nodes == {t \in Terms(predicate, <<>>) : t.term.op \in PredicateOps}
    IN  /\ Cardinality(nodes) <= Limits.expressionNodes
        /\ \A t \in nodes :
              /\ Len(t.at) < Limits.expressionDepth
              /\ t.term.op \in {"all", "any"} => t.term.of # <<>>
              /\ t.term.op = "compare" =>
                    \A k \in {1, 2} : ValidAmount(rules, t.term.of[k], hasTarget, TRUE)

-------------------------------------------------------------------------------
(* The nodes of a program. *)

Multiplier(p) == IF p.kind \in {"repeat", "forEach"} THEN p.count ELSE 1

\* What has to be chosen for a part of "p" to run.
Condition(p, path, step) ==
    IF p.kind \in {"when", "onCheck", "onOutcome"} THEN {<<path, step>>} ELSE {}

RECURSIVE Visits(_, _, _, _, _)

\* Every node of "p" as the validator and the plan come by it: its path, how
\* often it may run, whether a target is bound to it, and on which conditions.
Visits(p, path, times, bound, under) ==
    {[node |-> p, path |-> path, times |-> times, bound |-> bound, under |-> under]} \cup
        UNION {Visits(p.of[step], Append(path, step), times * Multiplier(p),
                      bound \/ p.kind = "forEach", under \cup Condition(p, path, step)) :
                  step \in DOMAIN p.of}

NodesOf(action) == Visits(action.program, <<>>, 1, FALSE, {})

OfKind(action, kind) == {v \in NodesOf(action) : v.node.kind = kind}

Operations(action, operations) ==
    {v \in OfKind(action, "operation") : v.node.operation \in operations}

\* The formulas that a node evaluates, each at the path of its slot.
Slots(p) ==
    CASE p.kind = "operation" -> {<<<<k>>, p.formulas[k]>> : k \in DOMAIN p.formulas}
      [] p.kind = "when" ->
            UNION {{<<Append(t.at, k), t.term.of[k]>> : k \in {1, 2}} :
                      t \in {c \in Terms(p.predicate, <<>>) : c.term.op = "compare"}}
      [] p.kind \notin {"operation", "when"} -> {}

\* Mutant: the condition of a part counts that part in.
PrecedingInclusive(p, at) ==
    UNION {{<<Append(t.at, k), IF t.term.op = "all" THEN 1 ELSE 0>> : k \in 1 .. at[Len(t.at) + 1]} :
              t \in {u \in Terms(p.predicate, <<>>) :
                        u.term.op \in {"all", "any"} /\ IsStrictPrefix(u.at, at)}}

\* What the parts before a slot of a predicate have to come to for it to be
\* evaluated: true (1) in an "all", false (0) in an "any".
Preceding(p, at) ==
    UNION {{<<Append(t.at, k), IF t.term.op = "all" THEN 1 ELSE 0>> : k \in 1 .. at[Len(t.at) + 1] - 1} :
              t \in {u \in Terms(p.predicate, <<>>) :
                        u.term.op \in {"all", "any"} /\ IsStrictPrefix(u.at, at)}}

-------------------------------------------------------------------------------
(* validate_operation, validate_program. *)

Owner(operation) ==
    CASE operation \in {"damage", "heal"} -> "vitality"
      [] operation = "changeResource" -> "resources"
      [] operation = "applyModifier" -> "modifiers"
      [] operation \in {"applyEffect", "removeEffect"} -> "effects"
      [] operation \in {"move", "moveToCell", "push", "slide"} -> "position"
      [] operation = "createSpatialSource" -> "spatialSources"
      [] operation = "openReaction" -> "reactions"

ReadsOf(operation) ==
    {Owner(operation)} \cup (IF operation = "createSpatialSource" THEN {"position"} ELSE {})

\* Operations on the subject they name need no target when it is the actor.
NeedsTarget(p) ==
    CASE p.operation \in {"changeResource", "move", "createSpatialSource"} -> p.subject = "target"
      [] p.operation = "moveToCell" -> FALSE
      [] p.operation \notin {"changeResource", "move", "createSpatialSource", "moveToCell"} -> TRUE

HasTarget(action, v) == v.bound \/ action.maximum = 1

\* Mutant: an operation on a target is accepted outside of a for-each.
ValidOperationUnbound(rules, action, v) ==
    /\ v.node.operation \in rules.operations
    /\ ReadsOf(v.node.operation) \subseteq rules.capabilities

ValidOperation(rules, action, v) ==
    LET p == v.node
    IN  /\ p.operation \in rules.operations
        /\ ReadsOf(p.operation) \subseteq rules.capabilities
        /\ NeedsTarget(p) => HasTarget(action, v)
        /\ p.operation \in {"push", "slide"} => p.subject = "target"
        /\ p.operation \in {"move", "moveToCell", "push", "slide"} =>
              p.distance \in 1 .. Limits.distance
        /\ p.operation = "moveToCell" => action.kind = "cell"
        /\ p.operation = "damage" => Len(p.formulas) \in 1 .. Limits.parts
        /\ p.operation = "openReaction" =>
              /\ Len(p.options) \in 1 .. Limits.options
              /\ IsInjective(p.options)
        /\ \A slot \in Slots(p) : ValidAmount(rules, slot[2], HasTarget(action, v), TRUE)

\* What the check of an action can come to, as the steps that branch on it.
Results(rules, check) ==
    CASE check.kind = "noRoll" -> {<<"noRoll", 0>>}
      [] check.kind = "attack" -> {<<"hit", 0>>, <<"miss", 0>>}
      [] check.kind = "savingThrow" -> {<<"saved", 0>>, <<"failed", 0>>}
      [] check.kind \in {"scalarTest", "pool"} -> {<<"band", b>> : b \in rules.bands}

Banded(check) == check.kind \in {"scalarTest", "pool"}

Bands(p) == DOMAIN p.of \ {<<"default", 0>>}

\* The branches of an outcome: known bands, and one band left for the default.
ValidBranches(rules, action, p) ==
    /\ Banded(action.check)
    /\ Bands(p) # {}
    /\ Bands(p) \subseteq Results(rules, action.check)
    /\ Cardinality(Bands(p)) < Cardinality(rules.bands)

ValidNode(rules, action, v) ==
    LET p == v.node
    IN  CASE p.kind = "operation" -> ValidOperation(rules, action, v)
          [] p.kind = "sequence" -> DOMAIN p.of # {}
          [] p.kind = "when" -> ValidPredicate(rules, p.predicate, HasTarget(action, v))
          [] p.kind = "repeat" -> p.count \in 1 .. Limits.repeat
          [] p.kind = "forEach" -> p.count \in 1 .. Limits.targets /\ p.count <= action.maximum
          [] p.kind = "onCheck" -> /\ HasTarget(action, v)
                                   /\ ~ Banded(action.check)
                                   /\ DOMAIN p.of \subseteq Results(rules, action.check)
                                   /\ DOMAIN p.of # {}
          [] p.kind = "onOutcome" -> HasTarget(action, v) /\ ValidBranches(rules, action, p)
          [] p.kind = "atomic" -> v.path = <<>>

ValidProgram(rules, action) ==
    LET nodes == NodesOf(action)
    IN  /\ Cardinality(nodes) <= Limits.nodes
        /\ MapThenSumSet(LAMBDA v : v.times, nodes) <= Limits.expanded
        /\ \A v \in nodes : Len(v.path) < Limits.depth /\ ValidNode(rules, action, v)
        /\ action.program.kind = "atomic"
        /\ Cardinality(OfKind(action, "onOutcome")) = IF Banded(action.check) THEN 1 ELSE 0

-------------------------------------------------------------------------------
(* validate_actions, validate_check, validate_activation. *)

ShapeCells(area) ==
    IF area.shape = "diamond" THEN 2 * area.size * (area.size + 1) + 1 ELSE area.size

ValidArea(action, area) ==
    /\ action.range <= Limits.range
    /\ area.minimum <= action.maximum
    /\ area.shape = "diamond" <=> area.origin = "anchor"
    /\ area.shape # "diamond" => area.size >= 1
    /\ ShapeCells(area) <= Limits.cells

ValidTargets(action) ==
    /\ action.maximum \in 1 .. Limits.targets
    /\ action.kind = "area" <=> action.area # {}
    /\ \A area \in action.area : ValidArea(action, area)
    /\ action.kind = "cell" => /\ action.team = "any"
                               /\ action.maximum = 1
                               /\ action.check.kind = "noRoll"

\* validate_check: the check is rolled in a scope, and its formulas are bound
\* to the target it is rolled for.
ValidCheck(rules, action) ==
    LET check == action.check
    IN  /\ check.kind = "noRoll" <=> action.scope = "none"
        /\ check.kind # "noRoll" => "random" \in rules.capabilities
        /\ check.defense => "defenses" \in rules.capabilities
        /\ check.kind # "pool" =>
              \A k \in DOMAIN check.formulas :
                 ValidAmount(rules, check.formulas[k], TRUE, check.kind # "scalarTest")

TermDice(dice) == FoldFunction(LAMBDA term, total : term.count + total, 0, dice)

\* The base dice of a pool, and the scope that the runtime has for it.
ValidPool(rules, action) ==
    action.check.kind = "pool" =>
        LET dice == action.check.dice
        IN  /\ Len(dice) \in 1 .. Limits.poolTerms
            /\ TermDice(dice) <= Limits.poolDice
            /\ \A k \in DOMAIN dice : dice[k].count > 0 /\ dice[k].die \in DOMAIN rules.dice
            /\ \A k \in 1 .. Len(dice) - 1 : dice[k].die < dice[k + 1].die
            /\ action.maximum = 1 /\ action.scope = "shared"

\* validate_activation and validate_activation_contract: of the Ruleset's own
\* budgets, for this timing, at most what a turn starts with.
ValidActivation(rules, activation, timing) ==
    IF rules.budgets = {}
    THEN activation = {}
    ELSE /\ activation # {}
         /\ "activationBudgets" \in rules.capabilities
         /\ \A a \in activation :
               /\ a.timing = timing
               /\ \A k \in 1 .. Len(a.costs) - 1 : a.costs[k].budget < a.costs[k + 1].budget
               /\ \A k \in DOMAIN a.costs :
                     /\ a.costs[k].amount >= 0
                     /\ \E b \in rules.budgets : /\ b.id = a.costs[k].budget
                                                 /\ b.timing = timing
                                                 /\ a.costs[k].amount <= b.initial

\* validate_program_activation_contracts: the options of every reaction.
ValidOptions(rules, action) ==
    \A v \in Operations(action, {"openReaction"}) :
        \A k \in DOMAIN v.node.options :
            ValidActivation(rules, v.node.activations[k], "reaction")

\* is_selected_destination_movement_program
MovesToCell(p) ==
    /\ p.kind = "atomic"
    /\ \A body \in {p.of[step] : step \in DOMAIN p.of} :
          /\ body.kind = "onCheck"
          /\ DOMAIN body.of = {<<"noRoll", 0>>}
          /\ \A branch \in {body.of[step] : step \in DOMAIN body.of} :
                branch.kind = "operation" /\ branch.operation = "moveToCell"

\* area_program_covers_target_maximum
CoversArea(action) ==
    /\ OfKind(action, "forEach") # {}
    /\ \A v \in OfKind(action, "forEach") : v.node.count = action.maximum

\* validate_actions
ValidDeclaration(rules, action) ==
    /\ ValidTargets(action)
    /\ ValidCheck(rules, action)
    /\ action.cost # 0 => action.cost > 0 /\ "resources" \in rules.capabilities
    /\ ValidProgram(rules, action)
    /\ action.kind = "area" => CoversArea(action)
    /\ action.kind = "cell" => MovesToCell(action.program)

-------------------------------------------------------------------------------
(* damage_formula_bounds, validate_damage_packet_contracts. *)

\* Division by two that rounds towards zero.
Halved(n) == IF n < 0 THEN -((-n) \div 2) ELSE n \div 2

\* Mutant: the lower bound of dice forgets that each die shows at least one
\* and the upper one that there are several.
DiceBoundsOfOne(f) == <<f.bonus, f.bonus + f.sides>>

DiceBounds(f) == <<f.bonus + f.count, f.bonus + f.count * f.sides>>

RECURSIVE Bounds(_, _)

\* The least and the greatest value of a formula.
Bounds(rules, f) ==
    CASE f.op = "constant" -> <<f.value, f.value>>
      [] f.op = "read" -> <<rules.stats[f.stat].minimum, rules.stats[f.stat].maximum>>
      [] f.op = "dice" -> DiceBounds(f)
      [] f.op = "half" -> LET b == Bounds(rules, f.of[1]) IN <<Halved(b[1]), Halved(b[2])>>
      [] f.op = "add" ->
            FoldFunction(LAMBDA t, b : <<b[1] + Bounds(rules, t)[1], b[2] + Bounds(rules, t)[2]>>,
                         <<0, 0>>, f.of)

ValidDamage(rules, action) ==
    \A v \in Operations(action, {"damage"}) : \A slot \in Slots(v.node) :
        LET b == Bounds(rules, slot[2]) IN b[1] >= 0 /\ b[2] <= MaxAmount

\* The contract of an action with the Ruleset.
ValidContract(rules, action) ==
    /\ LET forced == Operations(action, {"push", "slide"})
       IN  forced # {} => /\ Cardinality(forced) = 1
                          /\ action.kind = "participant"
                          /\ action.maximum = 1
    /\ rules.allowance => Operations(action, {"move"}) = {}
    /\ action.sight => rules.sight
    /\ ValidActivation(rules, action.activation, "action")
    /\ ValidOptions(rules, action)
    /\ ValidPool(rules, action)
    /\ ValidDamage(rules, action)

Accepted(rules, action) == ValidDeclaration(rules, action) /\ ValidContract(rules, action)

-------------------------------------------------------------------------------
(* collect_action_random_plan *)

\* Mutant: the bodies of a for-each are planned once.
PlannedOnce(v, count) == count

Planned(v, count) == v.times * count

\* What a program may draw: for the dice of a node, at its path, how many,
\* under which branches and after which parts of the predicate they are in.
RandomPlan(action) ==
    UNION {UNION {{[path |-> v.path, slot |-> t.at, sides |-> t.term.sides,
                    count |-> Planned(v, t.term.count), under |-> v.under,
                    after |-> IF v.node.kind = "when"
                              THEN {<<v.path, fact>> : fact \in Preceding(v.node, t.at)}
                              ELSE {}] :
                      t \in {d \in Terms(slot[2], slot[1]) : d.term.op = "dice"}} :
                slot \in Slots(v.node)} :
            v \in NodesOf(action)}

\* The draws of the check itself: one, or one for each target.
CheckPlan(action) ==
    CASE action.check.kind = "noRoll" -> 0
      [] action.check.kind = "pool" -> TermDice(action.check.dice)
      [] action.check.kind \notin {"noRoll", "pool"} ->
            IF action.scope = "shared" THEN 1 ELSE action.maximum
===============================================================================
