------------------------------ MODULE ScalarTest ------------------------------
(***************************************************************************)
(* The ordered scalar test of crates/rpg-compiler/src/execute.rs: the      *)
(* contribution ledger with its stacking policies, the margin bands, the   *)
(* natural-die rules and the ledger of outcome-band shifts.                *)
(*                                                                         *)
(* Contributions and shifts are given in their canonical order, with the   *)
(* outcome of their predicates; every rejection is the same "rejected".    *)
(***************************************************************************)
EXTENDS Integers, Sequences

CONSTANTS MaxInt,  \* i32::MAX
          Policy   \* the stacking policy of each group

ASSUME ScalarAssumption ==
    /\ MaxInt \in Nat
    /\ \A g \in DOMAIN Policy : Policy[g] \in {"sum", "greatest", "least", "signedExtremes"}

\* What checked_add accepts.
InDomain(n) == -MaxInt - 1 <= n /\ n <= MaxInt

-------------------------------------------------------------------------------
(* The contribution ledger. *)

\* The first of "indices" that no later value replaces, if there is one.
SelectFirstExtreme(indices, values, Replaces(_, _)) ==
    LET selected[k \in 0 .. Len(values)] ==
            IF k = 0 THEN {}
            ELSE IF /\ k \in indices
                    /\ \A s \in selected[k - 1] : Replaces(values[k], values[s])
                 THEN {k}
                 ELSE selected[k - 1]
    IN  selected[Len(values)]

\* Mutant: the last of equal extremes is retained.
RetainedLast(policy, indices, values) ==
    CASE policy = "sum" -> indices
      [] policy = "greatest" ->
            SelectFirstExtreme(indices, values, LAMBDA a, b : a >= b)
      [] policy = "least" ->
            SelectFirstExtreme(indices, values, LAMBDA a, b : a <= b)
      [] policy = "signedExtremes" ->
            SelectFirstExtreme({k \in indices : values[k] > 0}, values, LAMBDA a, b : a > b)
            \cup SelectFirstExtreme({k \in indices : values[k] < 0}, values, LAMBDA a, b : a < b)

\* retained_contribution_indices
Retained(policy, indices, values) ==
    CASE policy = "sum" -> indices
      [] policy = "greatest" ->
            SelectFirstExtreme(indices, values, LAMBDA a, b : a > b)
      [] policy = "least" ->
            SelectFirstExtreme(indices, values, LAMBDA a, b : a < b)
      [] policy = "signedExtremes" ->
            SelectFirstExtreme({k \in indices : values[k] > 0}, values, LAMBDA a, b : a > b)
            \cup SelectFirstExtreme({k \in indices : values[k] < 0}, values, LAMBDA a, b : a < b)

\* The applicable candidates that their groups retain.
RetainedOf(candidates) ==
    LET values == [k \in DOMAIN candidates |-> candidates[k].value]
    IN  UNION {Retained(Policy[g],
                        {k \in DOMAIN candidates :
                            candidates[k].applies /\ candidates[k].group = g},
                        values) : g \in DOMAIN Policy}

\* The running totals of the ledger, the base first.
Totals(base, candidates) ==
    LET total[k \in 0 .. Len(candidates)] ==
            IF k = 0 THEN base
            ELSE total[k - 1]
                    + IF k \in RetainedOf(candidates) THEN candidates[k].value ELSE 0
    IN  total

\* evaluate_contribution_ledger: the retained candidates and the final value.
Ledger(base, candidates, selector) ==
    LET total == Totals(base, candidates)
        final == total[Len(candidates)]
    IN  IF /\ \A k \in DOMAIN total : InDomain(total[k])
           /\ selector.minimum <= final /\ final <= selector.maximum
        THEN [ok |-> TRUE, retained |-> RetainedOf(candidates), final |-> final]
        ELSE [ok |-> FALSE, retained |-> {}, final |-> 0]

-------------------------------------------------------------------------------
(* Outcome bands, numbered 1 .. "bands" from the worst. *)

\* shifted_band_index
Shifted(band, shift, bands) ==
    IF band + shift < 1 THEN 1 ELSE IF band + shift > bands THEN bands ELSE band + shift

\* Mutant: the shifts are added up and clamped once.
FinalBandAtOnce(band, shifts, bands) ==
    LET sum[k \in 0 .. Len(shifts)] ==
            IF k = 0 THEN 0
            ELSE sum[k - 1] + IF shifts[k].applies THEN shifts[k].shift ELSE 0
    IN  Shifted(band, sum[Len(shifts)], bands)

\* evaluate_outcome_band_shift_ledger
FinalBand(band, shifts, bands) ==
    LET final[k \in 0 .. Len(shifts)] ==
            IF k = 0 THEN band
            ELSE IF shifts[k].applies
                 THEN Shifted(final[k - 1], shifts[k].shift, bands)
                 ELSE final[k - 1]
    IN  final[Len(shifts)]

Fits(rule, n) == rule.minimum <= n /\ n <= rule.maximum

\* The first rule of a table that fits, if there is one.
FirstFitting(rules, n) ==
    {k \in DOMAIN rules : Fits(rules[k], n) /\ \A j \in 1 .. k - 1 : ~ Fits(rules[j], n)}

\* The band after the natural-die rules: set, shifted, or as it is.
AfterNatural(test, base) ==
    LET fitting == FirstFitting(test.natural, test.roll)
    IN  IF fitting = {}
        THEN base
        ELSE LET rule == test.natural[CHOOSE k \in fitting : TRUE]
             IN  IF rule.effect = "setBand"
                 THEN rule.amount
                 ELSE Shifted(base, rule.amount, test.bands)

Rejected == [ok |-> FALSE, retained |-> {}, total |-> 0, base |-> 0, final |-> 0]

\* resolve_ordered_scalar
Resolved(test) ==
    LET ledger == Ledger(test.modifier, test.contributions, test.selector)
        total  == test.roll + ledger.final
        margin == total - test.difficulty
        tables == FirstFitting(test.margins, margin)
    IN  IF \/ ~ Fits(test.profile, test.modifier)
           \/ ~ Fits(test.profile, test.difficulty)
           \/ ~ ledger.ok
           \/ ~ InDomain(total)
           \/ ~ InDomain(margin)
           \/ tables = {}
        THEN Rejected
        ELSE LET base == test.margins[CHOOSE k \in tables : TRUE].band
             IN  [ok |-> TRUE, retained |-> ledger.retained, total |-> total, base |-> base,
                  final |-> FinalBand(AfterNatural(test, base), test.shifts, test.bands)]
===============================================================================
