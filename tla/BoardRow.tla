------------------------------- MODULE BoardRow -------------------------------
(***************************************************************************)
(* Board geometry for the session modules: one row of cells of traversal   *)
(* cost 1 (crates/rpg-runtime/src/encounter.rs), so that distance, cost of *)
(* movement and route all follow from the two end cells.  A capability     *)
(* state "s" has to have a "position" field here.                          *)
(***************************************************************************)
EXTENDS TurnEngine

CONSTANT Width \* board cells are 1 .. Width

ASSUME BoardAssumption == Width \in Nat

Cells == 1 .. Width

Distance(c, d) == IF c < d THEN d - c ELSE c - d

Between(c, d) == {x \in Cells : (c < x /\ x <= d) \/ (d <= x /\ x < c)}

Occupied(s, p) == {s.position[q] : q \in Participants \ {p}}

\* movement_paths: cells reached without entering a cell someone stands on.
Reachable(s, p, distance) ==
    {c \in Cells : /\ c # s.position[p]
                   /\ Distance(s.position[p], c) <= distance
                   /\ Between(s.position[p], c) \cap Occupied(s, p) = {}}

\* push_path: the farthest such cell straight away from the source, if any.
PushRoute(s, source, p, distance) ==
    {c \in Reachable(s, p, distance) :
        /\ s.position[source] < s.position[p] <=> s.position[p] < c
        /\ s.position[source] # s.position[p]
        /\ \A d \in Reachable(s, p, distance) :
              (s.position[p] < d <=> s.position[p] < c)
                  => Distance(s.position[p], d) <= Distance(s.position[p], c)}

\* runtime_board_rejection: everyone on the board, no two on one cell.
BoardLegal(s) ==
    \A p, q \in Participants : p # q => s.position[p] # s.position[q]
===============================================================================
