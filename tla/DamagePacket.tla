----------------------------- MODULE DamagePacket -----------------------------
(***************************************************************************)
(* The damage packet of crates/rpg-compiler/src/execute.rs: each part runs *)
(* through the responses of the target, the pending reduction of a         *)
(* reaction joins those of the first part, and the sum is applied once.    *)
(*                                                                         *)
(* Responses are given in their canonical order: immunities, flat          *)
(* adjustments, scales.  The 64-bit sums do not overflow on the bounded    *)
(* inputs and the order of flat adjustments does not matter, so the place  *)
(* of the reduction among them is left out.                                *)
(***************************************************************************)
EXTENDS Integers, Sequences

\* The response that a pending reduction adds.
Reduction(part, value) ==
    [type |-> part.type, required |-> {}, bypass |-> {},
     effect |-> [kind |-> "flat", value |-> -value, numerator |-> 1, denominator |-> 1]]

\* A response counts for a part of its type and tags that nothing bypasses.
Eligible(response, part) ==
    /\ response.type = part.type
    /\ response.required \subseteq part.tags
    /\ response.bypass \cap part.tags = {}

\* The amount of a part after the eligible ones of "responses".
FinalAmount(part, responses) ==
    LET eligible == SelectSeq(responses, LAMBDA r : Eligible(r, part))
        flat[k \in 0 .. Len(eligible)] ==
            IF k = 0 THEN part.amount
            ELSE flat[k - 1]
                    + IF eligible[k].effect.kind = "flat" THEN eligible[k].effect.value ELSE 0
        scaled[k \in 0 .. Len(eligible)] ==
            IF k = 0 THEN IF flat[Len(eligible)] > 0 THEN flat[Len(eligible)] ELSE 0
            ELSE IF eligible[k].effect.kind = "scale"
                 THEN (scaled[k - 1] * eligible[k].effect.numerator)
                         \div eligible[k].effect.denominator
                 ELSE scaled[k - 1]
    IN  IF \E k \in DOMAIN eligible : eligible[k].effect.kind = "immune"
        THEN 0
        ELSE scaled[Len(eligible)]

\* Mutant: the reduction joins the responses of every part.
AmountsReducedEach(parts, responses, reduction) ==
    [k \in DOMAIN parts |->
        FinalAmount(parts[k],
                    IF reduction > 0
                    THEN Append(responses, Reduction(parts[k], reduction))
                    ELSE responses)]

\* The final amounts of the parts of a packet.
Amounts(parts, responses, reduction) ==
    [k \in DOMAIN parts |->
        FinalAmount(parts[k],
                    IF k = 1 /\ reduction > 0
                    THEN Append(responses, Reduction(parts[k], reduction))
                    ELSE responses)]

\* resolve_damage_packet: the vitality that the packet leaves.
AfterPacket(vitality, parts, responses, reduction) ==
    LET amounts == Amounts(parts, responses, reduction)
        sum[k \in 0 .. Len(parts)] == IF k = 0 THEN 0 ELSE sum[k - 1] + amounts[k]
    IN  IF sum[Len(parts)] < vitality THEN vitality - sum[Len(parts)] ELSE 0
===============================================================================
