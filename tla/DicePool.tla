------------------------------- MODULE DicePool -------------------------------
(***************************************************************************)
(* The heterogeneous pool of crates/rpg-compiler/src/execute.rs: which     *)
(* dice are drawn after contributions have added, removed and replaced     *)
(* some, and what the axes come to after cancellation.                     *)
(*                                                                         *)
(* Contributions are given in their canonical order, with the outcome of   *)
(* their predicates.  The limits of 256 contributions and 128 reductions   *)
(* are not reached.                                                        *)
(***************************************************************************)
EXTENDS ScalarTest

CONSTANTS Dice,    \* die types of the profile
          Axes,    \* result axes of the profile
          MaxDice  \* the 256 dice a pool may hold

ASSUME PoolAssumption == MaxDice \in Nat \ {0}

Nothing == [d \in Dice |-> 0]

\* The sum of a function over its finite domain.
Total(f) ==
    LET sum[s \in SUBSET DOMAIN f] ==
            IF s = {} THEN 0
            ELSE LET x == CHOOSE x \in s : TRUE IN f[x] + sum[s \ {x}]
    IN  sum[DOMAIN f]

\* stacking_value: the delta, the value or the count, by which groups compare.
RetainedEffects(contributions) ==
    LET values == [k \in DOMAIN contributions |-> contributions[k].effect.amount]
    IN  UNION {Retained(Policy[g],
                        {k \in DOMAIN contributions :
                            contributions[k].applies /\ contributions[k].group = g},
                        values) : g \in DOMAIN Policy}

\* What the retained contributions of "kind" add to each of "targets".
Grouped(contributions, kind, targets) ==
    [x \in targets |->
        LET those == {k \in RetainedEffects(contributions) :
                         contributions[k].effect.kind = kind /\ contributions[k].effect.of = x}
        IN  Total([k \in those |-> contributions[k].effect.amount])]

\* Mutant: the fallback is added while there are dice to exchange.
ReplaceUnitSwapped(dice, effect) ==
    LET added == IF dice[effect.of] = 0 THEN effect.to ELSE effect.fallback
        taken == IF dice[effect.of] = 0 THEN dice ELSE [dice EXCEPT ![effect.of] = @ - 1]
    IN  [taken EXCEPT ![added] = @ + 1]

\* One unit of a replacement: exchange a die of the pool or add the fallback.
ReplaceUnit(dice, effect) ==
    IF dice[effect.of] = 0
    THEN [dice EXCEPT ![effect.fallback] = @ + 1]
    ELSE [dice EXCEPT ![effect.of] = @ - 1, ![effect.to] = @ + 1]

\* The units of the retained replacements, contribution by contribution.
Units(contributions) ==
    LET unit[k \in 0 .. Len(contributions)] ==
            IF k = 0 THEN <<>>
            ELSE IF /\ k \in RetainedEffects(contributions)
                    /\ contributions[k].effect.kind = "replaceOrAddDie"
                 THEN unit[k - 1] \o [n \in 1 .. contributions[k].effect.amount
                                          |-> contributions[k].effect]
                 ELSE unit[k - 1]
    IN  unit[Len(contributions)]

BoundedPool(dice) == Total(dice) \in 1 .. MaxDice

\* The construction of the pool: the pools after each replacement unit.
Construction(base, contributions) ==
    LET deltas == Grouped(contributions, "addDice", Dice)
        units  == Units(contributions)
        pool[n \in 0 .. Len(units)] ==
            IF n = 0 THEN [d \in Dice |-> base[d] + deltas[d]]
            ELSE ReplaceUnit(pool[n - 1], units[n])
    IN  IF /\ \A d \in Dice : base[d] + deltas[d] \in 0 .. MaxDice
           /\ \A n \in 0 .. Len(units) : BoundedPool(pool[n])
        THEN [ok |-> TRUE, dice |-> pool[Len(units)]]
        ELSE [ok |-> FALSE, dice |-> Nothing]

-------------------------------------------------------------------------------
(* The axes of the drawn faces. *)

\* A cancellation takes the lesser of its axes away from both.
Cancelled(net, pair) ==
    LET lesser == IF net[pair.positive] < net[pair.negative]
                  THEN net[pair.positive]
                  ELSE net[pair.negative]
    IN  [net EXCEPT ![pair.positive] = @ - lesser, ![pair.negative] = @ - lesser]

\* The net axes of the drawn and the automatic ones, each pair cancelled in turn.
NetAxes(raw, automatic, contributions, pairs) ==
    LET added == Grouped(contributions, "addAxis", Axes)
        net[n \in 0 .. Len(pairs)] ==
            IF n = 0 THEN [a \in Axes |-> raw[a] + automatic[a] + added[a]]
            ELSE Cancelled(net[n - 1], pairs[n])
    IN  IF /\ \A a \in Axes : /\ InDomain(automatic[a] + added[a])
                            /\ InDomain(net[0][a])
           /\ \A n \in DOMAIN pairs :
                 net[n - 1][pairs[n].positive] >= 0 /\ net[n - 1][pairs[n].negative] >= 0
        THEN [ok |-> TRUE, axes |-> net[Len(pairs)]]
        ELSE [ok |-> FALSE, axes |-> [a \in Axes |-> 0]]
===============================================================================
