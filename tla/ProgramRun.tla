------------------------------ MODULE ProgramRun -------------------------------
(***************************************************************************)
(* An action is compiled and its program carried out for the targets of an *)
(* intent (crates/rpg-compiler/src/execute.rs, execute_program).           *)
(*                                                                         *)
(* The call stack of execute_program is the sequence "work".  Targets are  *)
(* 1..targets; 0 is the actor, or no current target.  The die values are   *)
(* those an honest source may give, the outcomes of the check any it has.  *)
(***************************************************************************)
EXTENDS ProgramContract

CONSTANT Cases \* [rules, action]: the actions compiled

VARIABLES
    case,     \* the action in hand, with its Ruleset
    targets,  \* target_ids of the intent: how many
    stats,    \* the stats of the actor and of the targets
    outcomes, \* what the check came to for each target
    current,  \* current_target
    work,     \* what is left of the program
    chosen,   \* the branches taken
    held,     \* what the parts of predicates came to, as <<path, <<part, 1 or 0>>>>
    drawn,    \* the dice drawn at each path and slot
    dealt,    \* the amounts of damage evaluated
    moved,    \* pushes and slides carried out
    reaction_consumed, \* a reaction window was answered
    executed, \* nodes carried out
    status    \* [phase, path, slot]: where a failed run failed

programVars ==
    <<case, targets, stats, outcomes, current, work, chosen, held, drawn, dealt, moved,
      reaction_consumed, executed, status>>

At(phase) == [phase |-> phase, path |-> <<>>, slot |-> <<>>]

Nothing == [kind |-> "nothing", of |-> <<>>]

\* A part of the program to carry out, and the target to bind before it.
Run(p, path) == [binds |-> {}, program |-> p, path |-> path]

Bind(target) == [binds |-> {target}, program |-> Nothing, path |-> <<>>]

ProgramInit ==
    /\ case \in Cases
    /\ targets = 0 /\ stats = <<>> /\ outcomes = <<>> /\ current = 0 /\ work = <<>>
    /\ chosen = {} /\ held = {} /\ drawn = <<>> /\ dealt = {} /\ moved = 0
    /\ reaction_consumed = FALSE /\ executed = 0
    /\ status = At("prepared")

\* compile_normalized: refused with its diagnostics, or compiled.
CompileAction ==
    /\ status.phase = "prepared"
    /\ status' = At(IF Accepted(case.rules, case.action) THEN "compiled" ELSE "declined")
    /\ UNCHANGED <<case, targets, stats, outcomes, current, work, chosen, held, drawn, dealt,
                   moved, reaction_consumed, executed>>

Least(action) == IF action.area = {} THEN 1 ELSE (CHOOSE a \in action.area : TRUE).minimum

\* The values that an entity may have of the stats of the Ruleset.
Endowments(rules) ==
    [DOMAIN rules.stats -> UNION {rules.stats[s].minimum .. rules.stats[s].maximum :
                                     s \in DOMAIN rules.stats}]

Endowed(rules) ==
    {e \in Endowments(rules) :
        \A s \in DOMAIN e : e[s] \in {rules.stats[s].minimum, rules.stats[s].maximum}}

\* validate_intent and resolve_checks: an outcome for each target, and none
\* of them is the current target afterwards.
Resolve ==
    /\ status.phase = "compiled"
    /\ \E n \in Least(case.action) .. case.action.maximum :
       \E actor, target \in Endowed(case.rules) :
       \E results \in [1 .. n -> Results(case.rules, case.action.check)] :
          /\ targets' = n
          /\ stats' = [who \in 0 .. n |-> IF who = 0 THEN actor ELSE target]
          /\ outcomes' = results
    /\ current' = 0
    /\ work' = <<Run(case.action.program, <<>>)>>
    /\ status' = At("running")
    /\ UNCHANGED <<case, chosen, held, drawn, dealt, moved, reaction_consumed, executed>>

-------------------------------------------------------------------------------
(* eval_formula, eval_predicate *)

\* target_id: the current target, or the only one there is; 0 if it is missing.
Target == CASE current # 0 -> current
            [] current = 0 -> IF targets = 1 THEN 1 ELSE 0

Good(value, draws) ==
    [ok |-> TRUE, value |-> value, drawn |-> draws, facts |-> {}, reason |-> ""]

Bad(reason, draws) ==
    [ok |-> FALSE, value |-> 0, drawn |-> draws, facts |-> {}, reason |-> reason]

\* checked_add of i32
Narrow(value, draws) ==
    IF value \in -MaxAmount .. MaxAmount THEN Good(value, draws) ELSE Bad("overflow", draws)

Added(left, right) ==
    IF right.ok THEN Narrow(left.value + right.value, left.drawn \cup right.drawn)
                ELSE [right EXCEPT !.drawn = left.drawn \cup right.drawn]

RECURSIVE Amounts(_, _)

\* What a formula at a slot may come to, and the dice it draws.
Amounts(f, at) ==
    CASE f.op = "constant" -> {Good(f.value, {})}
      [] f.op = "read" ->
            LET who == IF f.subject = "actor" THEN 0 ELSE Target
            IN  IF f.subject = "target" /\ Target = 0 THEN {Bad("targetMissing", {})}
                ELSE {Good(stats[who][f.stat], {})}
      [] f.op = "dice" ->
            {Narrow(f.bonus + total, {<<at, f.count, f.sides>>}) :
                total \in f.count .. f.count * f.sides}
      [] f.op = "half" ->
            {IF r.ok THEN Good(Halved(r.value), r.drawn) ELSE r : r \in Amounts(f.of[1], Append(at, 1))}
      [] f.op = "add" ->
            LET sums[k \in 0 .. Len(f.of)] ==
                    IF k = 0 THEN {Good(0, {})}
                    ELSE UNION {IF sum.ok
                                THEN {Added(sum, r) : r \in Amounts(f.of[k], Append(at, k))}
                                ELSE {sum} : sum \in sums[k - 1]}
            IN  sums[Len(f.of)]

Compares(comparison, left, right) ==
    CASE comparison = "equal" -> left = right
      [] comparison = "lessThan" -> left < right
      [] comparison = "greaterThanOrEqual" -> left >= right

Truth(holds, draws) == Good(IF holds THEN 1 ELSE 0, draws)

RECURSIVE Truths(_, _)

\* What a predicate may come to (1 or 0), and what its parts came to: "all" and
\* "any" stop at the first that decides.
Truths(f, at) ==
    CASE f.op = "always" -> {Truth(TRUE, {})}
      [] f.op = "compare" ->
            UNION {IF left.ok
                   THEN {IF right.ok
                         THEN Truth(Compares(f.comparison, left.value, right.value),
                                    left.drawn \cup right.drawn)
                         ELSE Bad(right.reason, left.drawn \cup right.drawn) :
                            right \in Amounts(f.of[2], Append(at, 2))}
                   ELSE {left} : left \in Amounts(f.of[1], Append(at, 1))}
      [] f.op = "not" ->
            {IF r.ok THEN [r EXCEPT !.value = 1 - r.value] ELSE r :
                r \in Truths(f.of[1], Append(at, 1))}
      [] f.op \in {"all", "any"} ->
            LET undecided == IF f.op = "all" THEN 1 ELSE 0
                part(k, next) == IF next.ok THEN {<<Append(at, k), next.value>>} ELSE {}
                upTo[k \in 0 .. Len(f.of)] ==
                    IF k = 0 THEN {Good(undecided, {})}
                    ELSE UNION {IF r.ok /\ r.value = undecided
                                THEN {[next EXCEPT !.drawn = r.drawn \cup next.drawn,
                                                   !.facts = r.facts \cup next.facts \cup part(k, next)] :
                                        next \in Truths(f.of[k], Append(at, k))}
                                ELSE {r} : r \in upTo[k - 1]}
            IN  upTo[Len(f.of)]

-------------------------------------------------------------------------------
(* execute_program *)

Reached(kind) ==
    /\ status.phase = "running"
    /\ work # <<>>
    /\ Head(work).binds = {}
    /\ Head(work).program.kind = kind

Item == Head(work)

Node == Item.program

Part(step) == Run(Node.of[step], Append(Item.path, step))

Continue(parts) ==
    /\ work' = parts \o Tail(work)
    /\ executed' = executed + 1
    /\ UNCHANGED <<case, targets, stats, outcomes, current>>

\* The dice of an evaluation, and what it found.
Draw(r) ==
    LET keys == {<<Item.path, d[1], d[3]>> : d \in r.drawn}
        Count(key) == (IF key \in DOMAIN drawn THEN drawn[key] ELSE 0)
                         + SumSet({d[2] : d \in {e \in r.drawn : <<Item.path, e[1], e[3]>> = key}})
    IN  /\ drawn' = [key \in DOMAIN drawn \cup keys |-> Count(key)]
        /\ held' = held \cup {<<Item.path, fact>> : fact \in r.facts}

Fail(reason, slot) ==
    /\ status' = [phase |-> reason, path |-> Item.path, slot |-> slot]
    /\ UNCHANGED <<case, targets, stats, outcomes, current, work, chosen, dealt, moved,
                   reaction_consumed, executed>>

\* eval_nonnegative_formula for amounts, eval_formula for the others.
Counted(p, r) ==
    IF r.ok /\ r.value < 0 /\ p.operation \in {"damage", "heal"}
    THEN Bad("negative", r.drawn) ELSE r

\* The formulas of an operation in their order, up to the first that fails.
Evaluated(p) ==
    LET upTo[k \in 0 .. Len(p.formulas)] ==
            IF k = 0 THEN {[last |-> Good(0, {}), values |-> <<>>]}
            ELSE UNION {IF before.last.ok
                        THEN {[last |-> [r EXCEPT !.drawn = before.last.drawn \cup r.drawn],
                               values |-> Append(before.values, r.value)] :
                                r \in {Counted(p, a) : a \in Amounts(p.formulas[k], <<k>>)}}
                        ELSE {before} : before \in upTo[k - 1]}
    IN  upTo[Len(p.formulas)]

\* An operation: its target, then its formulas.
RunOperation ==
    /\ Reached("operation") /\ Node.operation # "openReaction"
    /\ IF NeedsTarget(Node) /\ Target = 0
       THEN Fail("targetMissing", <<>>) /\ UNCHANGED <<held, drawn>>
       ELSE \E result \in Evaluated(Node) :
              /\ Draw(result.last)
              /\ IF ~ result.last.ok
                 THEN Fail(result.last.reason, <<Len(result.values)>>)
                 ELSE /\ Continue(<<>>)
                      /\ dealt' = dealt \cup (IF Node.operation # "damage" THEN {}
                                    ELSE {<<Item.path, k, result.values[k]>> :
                                            k \in DOMAIN result.values})
                      /\ moved' = moved + (IF Node.operation \in {"push", "slide"} THEN 1 ELSE 0)
                      /\ UNCHANGED <<chosen, reaction_consumed, status>>

\* One command opens one reaction window, also where a loop comes by the same
\* operation again.  The decision of the run is one that answers it.
RunOpenReaction ==
    /\ Reached("operation") /\ Node.operation = "openReaction"
    /\ CASE reaction_consumed -> Fail("multipleWindows", <<>>)
         [] ~ reaction_consumed /\ Target = 0 -> Fail("targetMissing", <<>>)
         [] ~ reaction_consumed /\ Target # 0 ->
                /\ Continue(<<>>)
                /\ reaction_consumed' = TRUE
                /\ UNCHANGED <<chosen, dealt, moved, status>>
    /\ UNCHANGED <<held, drawn>>

RunSequence ==
    /\ Reached("sequence")
    /\ Continue([k \in 1 .. Cardinality(DOMAIN Node.of) |-> Part(<<"steps", k>>)])
    /\ UNCHANGED <<chosen, held, drawn, dealt, moved, reaction_consumed, status>>

\* The branch, if there is one, and the choice it stands under.
Take(step) ==
    /\ chosen' = chosen \cup {<<Item.path, step>>}
    /\ Continue(IF step \in DOMAIN Node.of THEN <<Part(step)>> ELSE <<>>)
    /\ UNCHANGED <<dealt, moved, reaction_consumed, status>>

RunWhen ==
    /\ Reached("when")
    /\ \E r \in Truths(Node.predicate, <<>>) :
          /\ Draw(r)
          /\ IF ~ r.ok THEN Fail(r.reason, <<>>)
             ELSE Take(IF r.value = 1 THEN <<"then", 0>> ELSE <<"otherwise", 0>>)

RunRepeat ==
    /\ Reached("repeat")
    /\ Continue([k \in 1 .. Node.count |-> Part(<<"body", 0>>)])
    /\ UNCHANGED <<chosen, held, drawn, dealt, moved, reaction_consumed, status>>

\* The body for one target after the other, and none is current afterwards,
\* whatever was before.
RunForEach ==
    /\ Reached("forEach")
    /\ IF targets > Node.count
       THEN Fail("targetBound", <<>>)
       ELSE /\ Continue([k \in 1 .. 2 * targets + 1 |->
                           IF k = 2 * targets + 1 THEN Bind(0)
                           ELSE IF k % 2 = 1 THEN Bind((k + 1) \div 2)
                           ELSE Part(<<"body", 0>>)])
            /\ UNCHANGED <<chosen, dealt, moved, reaction_consumed, status>>
    /\ UNCHANGED <<held, drawn>>

BindTarget ==
    /\ status.phase = "running"
    /\ work # <<>> /\ Item.binds # {}
    /\ current' \in Item.binds
    /\ work' = Tail(work)
    /\ UNCHANGED <<case, targets, stats, outcomes, chosen, held, drawn, dealt, moved,
                   reaction_consumed, executed, status>>

RunOnCheck ==
    /\ Reached("onCheck")
    /\ CASE Target = 0 -> Fail("targetMissing", <<>>)
         [] Target # 0 -> IF outcomes[Target][1] = "band"
                          THEN Fail("branchIncompatible", <<>>)
                          ELSE Take(outcomes[Target])
    /\ UNCHANGED <<held, drawn>>

RunOnOutcome ==
    /\ Reached("onOutcome")
    /\ CASE Target = 0 -> Fail("targetMissing", <<>>)
         [] Target # 0 -> IF outcomes[Target][1] # "band"
                          THEN Fail("branchIncompatible", <<>>)
                          ELSE Take(IF outcomes[Target] \in DOMAIN Node.of
                                    THEN outcomes[Target] ELSE <<"default", 0>>)
    /\ UNCHANGED <<held, drawn>>

RunAtomic ==
    /\ Reached("atomic")
    /\ Continue(<<Part(<<"body", 0>>)>>)
    /\ UNCHANGED <<chosen, held, drawn, dealt, moved, reaction_consumed, status>>

\* Ok, and the workspace is committed.
Finish ==
    /\ status.phase = "running" /\ work = <<>>
    /\ status' = At("done")
    /\ UNCHANGED <<case, targets, stats, outcomes, current, work, chosen, held, drawn, dealt,
                   moved, reaction_consumed, executed>>

ProgramNext ==
    \/ CompileAction \/ Resolve \/ RunOperation \/ RunOpenReaction \/ RunSequence \/ RunWhen
    \/ RunRepeat \/ RunForEach \/ BindTarget \/ RunOnCheck \/ RunOnOutcome \/ RunAtomic \/ Finish

-------------------------------------------------------------------------------
(* Properties. *)

\* resolve_checks: a shared roll is drawn whether or not there is a target,
\* the dice of a pool for each.
CheckDraws ==
    CASE case.action.check.kind = "noRoll" -> 0
      [] case.action.check.kind = "pool" -> targets * TermDice(case.action.check.dice)
      [] case.action.check.kind \notin {"noRoll", "pool"} ->
            IF case.action.scope = "shared" THEN 1 ELSE targets

\* What a run of an accepted program draws is in the plan that was published
\* with it: as many dice of those sides at most, in branches that have been
\* chosen, and in a predicate after parts that have come to what the plan asks
\* of them (collect_action_random_plan).  The dice in the formula of a check are
\* in no plan.
PlanCoversDraws ==
    status.phase = "running" =>
        /\ CheckDraws <= CheckPlan(case.action)
        /\ \A key \in DOMAIN drawn :
              \E entry \in RandomPlan(case.action) :
                  /\ <<entry.path, entry.slot, entry.sides>> = key
                  /\ drawn[key] <= entry.count
                  /\ entry.under \subseteq chosen
                  /\ entry.after \subseteq held

\* The loops around a path.
Around(path, kind) ==
    {v \in OfKind(case.action, kind) : IsStrictPrefix(v.path, path)}

\* With more than one target, a for-each inside of a for-each around "path":
\* it leaves no target bound for what follows it there.
Unbound(path) ==
    targets > 1 /\ \E v \in OfKind(case.action, "forEach") :
                      Around(v.path, "forEach") \cap Around(path, "forEach") # {}

\* An accepted program fails for want of a bound, a target or an outcome only
\* where the compiler does not look: more targets than a for-each of less than
\* the maximum, no target of an area at all, a target lost to an inner
\* for-each, a reaction window after the first, be it another or the same one
\* in a loop.  It carries out no more nodes than it was counted for, and one
\* push or slide unless a repeat is around it.
AcceptedProgramsRun ==
    /\ status.phase # "branchIncompatible"
    /\ status.phase = "targetBound" =>
          \E v \in OfKind(case.action, "forEach") :
              v.path = status.path /\ v.node.count < targets
                 /\ v.node.count < case.action.maximum /\ case.action.kind # "area"
    /\ status.phase = "targetMissing" => targets = 0 \/ Unbound(status.path)
    /\ status.phase = "multipleWindows" =>
          MapThenSumSet(LAMBDA v : v.times, Operations(case.action, {"openReaction"})) > 1
    /\ executed <= Limits.expanded
    /\ moved > 1 => \E v \in Operations(case.action, {"push", "slide"}) : Around(v.path, "repeat") # {}

\* A sum that may leave i32 on the way to a result that does not.
RECURSIVE Strains(_, _)

Strains(rules, f) ==
    \/ \E b \in {Bounds(rules, f)} : b[1] < -MaxAmount \/ b[2] > MaxAmount
    \/ \E k \in DOMAIN f.of : Strains(rules, f.of[k])
    \/ f.op = "add" /\ \E k \in 1 .. Len(f.of) - 1 :
          \E b \in {Bounds(rules, [f EXCEPT !.of = SubSeq(f.of, 1, k)])} :
              b[1] < -MaxAmount \/ b[2] > MaxAmount

\* The damage of an accepted program is inside the bounds it was accepted by
\* and never negative, whatever the dice and the stats; only a sum whose terms
\* leave i32 on the way may fail.
AmountsWithinBounds ==
    LET formula(path, k) ==
            (CHOOSE v \in NodesOf(case.action) : v.path = path).node.formulas[k]
    IN  /\ \A amount \in dealt :
              LET b == Bounds(case.rules, formula(amount[1], amount[2]))
              IN  amount[3] \in b[1] .. b[2] /\ amount[3] >= 0
        /\ status.phase \in {"negative", "overflow"} =>
              \A v \in Operations(case.action, {"damage"}) :
                  v.path = status.path =>
                      status.phase = "overflow"
                         /\ Strains(case.rules, v.node.formulas[status.slot[1]])
===============================================================================
