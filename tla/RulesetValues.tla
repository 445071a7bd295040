----------------------------- MODULE RulesetValues -----------------------------
(***************************************************************************)
(* Ruleset values: the compiler turns the formulas of the derived ones     *)
(* into a plan (crates/rpg-compiler/src/artifact.rs), a Scenario supplies  *)
(* the others, and a restored checkpoint must hold what the plan gives     *)
(* (crates/rpg-runtime/src/encounter.rs).                                  *)
(*                                                                         *)
(* One participant stands for all: each is evaluated by itself.  i64 and   *)
(* i32 are the ranges -MaxWide..MaxWide and -MaxNarrow..MaxNarrow.         *)
(***************************************************************************)
EXTENDS DependencyOrder

CONSTANTS Rulesets,  \* a value of a key: [formula : {} or a singleton, minimum, maximum]
          Supplies,  \* the values a Scenario lists: partial functions
          MaxDepth,  \* MAX_RULESET_VALUE_FORMULA_DEPTH
          MaxNodes,  \* MAX_RULESET_VALUE_FORMULA_NODES
          MaxNarrow,
          MaxWide

ASSUME ValuesAssumption ==
    /\ \A r \in Rulesets : DOMAIN r \subseteq Keys
    /\ MaxDepth \in Nat /\ MaxNodes \in Nat
    /\ MaxNarrow \in Nat /\ MaxWide \in Nat

VARIABLES
    ruleset,  \* provides.values
    supplied, \* the values of the Scenario that are not derived
    values,   \* the values of the participant
    phase     \* where the bundle, and then its Scenario, has got to

valueVars == <<orderVars, ruleset, supplied, values, phase>>

None == [k \in {} |-> 0]

Derived == {k \in DOMAIN ruleset : ruleset[k].formula # {}}

Formula(k) == CHOOSE e \in ruleset[k].formula : TRUE

Operands(e) == IF e.op \in {"subtract", "floorDivide"} THEN <<e.left, e.right>> ELSE <<>>

-------------------------------------------------------------------------------
(* validate_ruleset_value_expression *)

RECURSIVE Nodes(_), WithinDepth(_, _), Reads(_)

Nodes(e) ==
    IF Operands(e) = <<>> THEN 1 ELSE 1 + Nodes(e.left) + Nodes(e.right)

WithinDepth(e, depth) ==
    /\ depth <= MaxDepth
    /\ \A k \in DOMAIN Operands(e) : WithinDepth(Operands(e)[k], depth + 1)

\* What a formula reads: the owner and the key of each read.
Reads(e) ==
    IF e.op = "read"
    THEN {<<e.owner, e.key>>}
    ELSE UNION {Reads(Operands(e)[k]) : k \in DOMAIN Operands(e)}

ValidFormula(e) ==
    /\ WithinDepth(e, 1)
    /\ Nodes(e) <= MaxNodes
    /\ \A read \in Reads(e) : read[1] = "this" /\ read[2] \in DOMAIN ruleset

ReadKeys(k) == {read[2] : read \in Reads(Formula(k))}

-------------------------------------------------------------------------------
(* evaluate_ruleset_value_expression: a number or an error. *)

Value(n) == [ok |-> TRUE, value |-> n]

Error == [ok |-> FALSE, value |-> 0]

Checked(n) == IF n \in -MaxWide .. MaxWide THEN Value(n) ELSE Error

Magnitude(n) == IF n < 0 THEN -n ELSE n

\* checked_div, which rounds towards zero, and the correction of its result.
Truncated(n, d) ==
    LET q == Magnitude(n) \div Magnitude(d)
    IN  IF (n < 0) = (d < 0) THEN q ELSE -q

\* Mutant: the quotient is not corrected.
TruncatedDivision(n, d) == Checked(Truncated(n, d))

FloorDivision(n, d) ==
    LET q == Truncated(n, d)
        r == n - q * d
    IN  IF r # 0 /\ (r > 0) # (d > 0) THEN Checked(q - 1) ELSE Checked(q)

RECURSIVE Evaluate(_, _)

Evaluate(e, known) ==
    CASE e.op = "constant" -> Value(e.value)
      [] e.op = "read" -> IF e.key \in DOMAIN known THEN Value(known[e.key])
                                                    ELSE Error
      [] Operands(e) # <<>> ->
            LET left  == Evaluate(e.left, known)
                right == Evaluate(e.right, known)
            IN  CASE ~ left.ok -> left
                  [] left.ok /\ ~ right.ok -> right
                  [] left.ok /\ right.ok /\ e.op = "subtract" ->
                        Checked(left.value - right.value)
                  [] left.ok /\ right.ok /\ e.op = "floorDivide" ->
                        IF right.value = 0 THEN Error
                        ELSE FloorDivision(left.value, right.value)

\* One target of CompiledRulesetValuePlan::evaluate: its numeric domain, then i32.
EvaluateTarget(k, known) ==
    LET result == Evaluate(Formula(k), known)
    IN  CASE ~ result.ok -> result
          [] result.ok /\ result.value \notin ruleset[k].minimum .. ruleset[k].maximum ->
                Error
          [] result.ok /\ result.value \in ruleset[k].minimum .. ruleset[k].maximum ->
                IF result.value \in -MaxNarrow .. MaxNarrow THEN result ELSE Error

\* The plan evaluated to its end over the values "known".
Plan(known) ==
    LET step[n \in 0 .. Len(order)] ==
            IF n = 0 THEN [ok |-> TRUE, values |-> known]
            ELSE LET before == step[n - 1]
                     result == EvaluateTarget(order[n], before.values)
                 IN  IF before.ok /\ result.ok
                     THEN [ok |-> TRUE,
                           values |-> [k \in DOMAIN before.values \cup {order[n]} |->
                              IF k = order[n] THEN result.value ELSE before.values[k]]]
                     ELSE [before EXCEPT !.ok = FALSE]
    IN  step[Len(order)]

-------------------------------------------------------------------------------
(* The compiler. *)

\* compile_ruleset_value_plan: the formulas are validated one by one; what is
\* kept of the reads are the derived ones.
CompileFormulas ==
    /\ phase = "prepared"
    /\ IF \A k \in Derived : ValidFormula(Formula(k))
       THEN /\ StartOrder([k \in Derived |-> ReadKeys(k) \cap Derived])
            /\ phase' = "ordering"
       ELSE /\ phase' = "refused"
            /\ UNCHANGED orderVars
    /\ UNCHANGED <<ruleset, supplied, values>>

OrderNext ==
    /\ phase = "ordering"
    /\ PlaceFirst
    /\ UNCHANGED <<ruleset, supplied, values, phase>>

\* Mutant: the plan is accepted as it is.
FinishUnchecked ==
    /\ phase = "ordering"
    /\ Ordered
    /\ phase' = "compiled"
    /\ UNCHANGED <<orderVars, ruleset, supplied, values>>

FinishOrder ==
    /\ phase = "ordering"
    /\ Ordered
    /\ phase' = IF Cyclic THEN "refused" ELSE "compiled"
    /\ UNCHANGED <<orderVars, ruleset, supplied, values>>

-------------------------------------------------------------------------------
(* The Scenario. *)

\* validate_initial_ruleset_value_source: not derived, declared, in its domain.
ValidSupply(given) ==
    \A k \in DOMAIN given :
        /\ k \in DOMAIN ruleset \ Derived
        /\ given[k] \in ruleset[k].minimum .. ruleset[k].maximum

\* A participant whose capabilities are valid; another Scenario is refused.
Propose ==
    /\ phase = "compiled"
    /\ \E given \in Supplies :
          /\ ValidSupply(given)
          /\ supplied' = given
          /\ values' = given
    /\ phase' = "deriving"
    /\ UNCHANGED <<orderVars, ruleset>>

Due == 1 + Cardinality(DOMAIN values \ DOMAIN supplied)

\* The next target of the plan, in its order.
Derive ==
    /\ phase = "deriving"
    /\ Due <= Len(order)
    /\ LET result == EvaluateTarget(order[Due], values)
       IN  IF result.ok
           THEN /\ values' = [k \in DOMAIN values \cup {order[Due]} |->
                                IF k = order[Due] THEN result.value ELSE values[k]]
                /\ UNCHANGED phase
           ELSE /\ phase' = "failed"
                /\ UNCHANGED values
    /\ UNCHANGED <<orderVars, ruleset, supplied>>

\* build_encounter: the participant holds what was supplied and derived.
Build ==
    /\ phase = "deriving"
    /\ Due > Len(order)
    /\ phase' = "live"
    /\ UNCHANGED <<orderVars, ruleset, supplied, values>>

\* validate_derived_state: the derived values of a restored entity are
\* those its other values give.
ValidDerived(stored) ==
    LET known    == [k \in DOMAIN stored \ Derived |-> stored[k]]
        expected == Plan(known)
    IN  /\ expected.ok
        /\ \A k \in Derived : k \in DOMAIN stored /\ stored[k] = expected.values[k]

\* A checkpoint in which one value differs, or is absent, is restored.
Restore ==
    /\ phase = "live"
    /\ \E k \in DOMAIN values :
       \E stored \in {[values EXCEPT ![k] = n] : n \in -MaxNarrow .. MaxNarrow}
                     \cup {[j \in DOMAIN values \ {k} |-> values[j]]} :
          /\ ValidDerived(stored)
          /\ values' = stored
          /\ supplied' = [j \in DOMAIN stored \ Derived |-> stored[j]]
    /\ UNCHANGED <<orderVars, ruleset, phase>>

ValuesInit ==
    /\ ruleset \in Rulesets
    /\ supplied = None /\ values = None
    /\ phase = "prepared"
    /\ dependencies = None /\ remaining = None /\ ready = {} /\ order = <<>>

ValuesNext ==
    \/ CompileFormulas \/ OrderNext \/ FinishOrder
    \/ Propose \/ Derive \/ Build \/ Restore

-------------------------------------------------------------------------------
(* Properties. *)

\* The derived values that "k" depends on, however indirectly.
Behind(k) ==
    LET reach[n \in 0 .. Cardinality(Derived)] ==
            IF n = 0 THEN {k}
            ELSE reach[n - 1] \cup UNION {ReadKeys(j) \cap Derived : j \in reach[n - 1]}
    IN  UNION {ReadKeys(j) \cap Derived : j \in reach[Cardinality(Derived)]}

\* A bundle is refused for a cycle exactly if some derived value depends on
\* itself, and an accepted plan has every derived value in it
\* (compile_ruleset_value_plan).
CyclesRefused ==
    LET circular == \E k \in Derived : k \in Behind(k)
    IN  /\ phase = "refused" /\ (\A k \in Derived : ValidFormula(Formula(k))) => circular
        /\ phase \notin {"prepared", "ordering", "refused"} => ~ circular /\ Placed = Derived

\* What integer floor division means.
IsFloor(q, n, d) ==
    /\ d > 0 => q * d <= n /\ n < (q + 1) * d
    /\ d < 0 => q * d >= n /\ n > (q + 1) * d

RECURSIVE Means(_, _)

\* "n" is what formula "e" means over the values of the participant.
Means(e, n) ==
    CASE e.op = "constant" -> n = e.value
      [] e.op = "read" -> e.key \in DOMAIN values /\ n = values[e.key]
      [] e.op = "subtract" ->
            \E l, r \in -MaxWide .. MaxWide : Means(e.left, l) /\ Means(e.right, r) /\ n = l - r
      [] e.op = "floorDivide" ->
            \E l, r \in -MaxWide .. MaxWide :
               Means(e.left, l) /\ Means(e.right, r) /\ r # 0 /\ IsFloor(n, l, r)

\* A participant of a running session, built or restored, has every derived
\* value, equal to what its formula means over the values beside it and inside
\* its numeric domain and the runtime integer.
DerivedFollowFormulas ==
    phase = "live" =>
        \A k \in Derived :
            /\ k \in DOMAIN values
            /\ Means(Formula(k), values[k])
            /\ values[k] \in ruleset[k].minimum .. ruleset[k].maximum
            /\ values[k] \in -MaxNarrow .. MaxNarrow
===============================================================================
