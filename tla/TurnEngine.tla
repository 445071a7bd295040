------------------------------ MODULE TurnEngine ------------------------------
(***************************************************************************)
(* The turn order of an encounter: who may act, when the encounter is over *)
(* and who acts next (crates/rpg-runtime/src/encounter.rs).  A capability  *)
(* state "s" only has to have a "vitality" field here.                     *)
(***************************************************************************)
EXTENDS Integers, Sequences

CONSTANTS Participants, \* participant ids, in the order the code sorts them
          Team,         \* the team of each participant
          Initiative    \* RpgTurnState.initiative_order

\* validate_turn: the order names every participant exactly once.
ASSUME InitiativeAssumption ==
    /\ Participants \subseteq Nat
    /\ Initiative \in Seq(Participants)
    /\ Len(Initiative) > 0
    /\ \A p \in Participants : \E i \in DOMAIN Initiative : Initiative[i] = p
    /\ \A i, j \in DOMAIN Initiative : Initiative[i] = Initiative[j] => i = j

Turns == [round : Nat \ {0}, turn : Nat \ {0}, actor : Participants]

Living(s) == {p \in Participants : s.vitality[p] > 0}

\* encounter_outcome: two teams with a living member keep it going.
InProgress(s) == \E p, q \in Living(s) : Team[p] # Team[q]

Place(p) == CHOOSE i \in DOMAIN Initiative : Initiative[i] = p

\* The place reached "k" steps after place "i", going round the order.
After(i, k) == ((i - 1 + k) % Len(Initiative)) + 1

\* How many steps after "p" a living participant stands (Len: "p" itself).
LivingOffsets(s, p) ==
    {k \in DOMAIN Initiative : Initiative[After(Place(p), k)] \in Living(s)}

Nearest(ks) == CHOOSE k \in ks : \A j \in ks : k <= j

\* Mutant: the round counts the turns of whoever is first in the order.
NextTurnCountsFirst(t, s) ==
    LET offsets == LivingOffsets(s, t.actor)
        next    == After(Place(t.actor), Nearest(offsets))
    IN  IF offsets = {}
        THEN t
        ELSE [round |-> IF next = 1 THEN t.round + 1 ELSE t.round,
              turn  |-> t.turn + 1,
              actor |-> Initiative[next]]

\* Mutant: the next in the order, living or not.
NextTurnOfAnyone(t, s) ==
    LET next == After(Place(t.actor), 1)
    IN  [round |-> IF next <= Place(t.actor) THEN t.round + 1 ELSE t.round,
         turn  |-> t.turn + 1,
         actor |-> Initiative[next]]

\* next_turn: the next living participant; a new round when the order wraps.
NextTurn(t, s) ==
    LET offsets == LivingOffsets(s, t.actor)
        next    == After(Place(t.actor), Nearest(offsets))
    IN  IF offsets = {}
        THEN t
        ELSE [round |-> IF next <= Place(t.actor) THEN t.round + 1 ELSE t.round,
              turn  |-> t.turn + 1,
              actor |-> Initiative[next]]

\* For properties: the places passed over between two places of the order.
PassedOver(i, j) ==
    IF i < j THEN i + 1 .. j - 1 ELSE (i + 1 .. Len(Initiative)) \cup (1 .. j - 1)
===============================================================================
