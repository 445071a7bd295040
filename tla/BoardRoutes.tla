------------------------------ MODULE BoardRoutes ------------------------------
(***************************************************************************)
(* Routes on the board (crates/rpg-runtime/src/encounter.rs): the          *)
(* best-first search of movement_paths, one candidate at a time, and the   *)
(* straight route of push_path.                                            *)
(*                                                                         *)
(* A cell is its place in row-major order, which is the order of the       *)
(* (y, x, id) triples that routes are compared by.  A cell of cost 0       *)
(* stands for one that is missing, impassable or without a cost: neither   *)
(* function enters it.                                                     *)
(***************************************************************************)
EXTENDS Integers, Sequences

CONSTANTS BoardWidth,
          BoardHeight,
          Boards   \* [cost, origin, source, occupied, reach]: the inputs

Cells == 0 .. BoardWidth * BoardHeight - 1

ASSUME BoardAssumption ==
    /\ BoardWidth \in Nat \ {0}
    /\ BoardHeight \in Nat \ {0}
    /\ Boards \subseteq [cost : [Cells -> Nat], origin : Cells, source : Cells,
                         occupied : SUBSET Cells, reach : Nat]
    /\ \A b \in Boards : b.source \in b.occupied /\ b.origin \notin b.occupied

VARIABLES
    board,    \* the input: costs, the mover at "origin", the others, the bound
    frontier, \* candidates to explore
    best      \* the best candidate known of each cell that was reached

routeVars == <<board, frontier, best>>

\* A RouteCandidate; its position is the end of its route.
Candidates == [cost : Nat, route : Seq(Cells)]

Row(c)    == c \div BoardWidth
Column(c) == c % BoardWidth

End(r) == IF r = <<>> THEN board.origin ELSE r[Len(r)]

Enterable(c) == c \notin board.occupied /\ board.cost[c] > 0

Neighbours(c) ==
    {d \in Cells : \/ Row(d) = Row(c) /\ Column(d) \in {Column(c) - 1, Column(c) + 1}
                   \/ Column(d) = Column(c) /\ Row(d) \in {Row(c) - 1, Row(c) + 1}}

\* The order of vectors: at the first difference, or the shorter first.
RouteBefore(r, s) ==
    \/ \E k \in DOMAIN r \cap DOMAIN s :
          r[k] < s[k] /\ \A j \in 1 .. k - 1 : r[j] = s[j]
    \/ Len(r) < Len(s) /\ \A j \in DOMAIN r : r[j] = s[j]

\* The derived order of RouteCandidate, and of (cost, order) pairs.
Before(c, d) ==
    \/ c.cost < d.cost
    \/ c.cost = d.cost /\ RouteBefore(c.route, d.route)

\* Mutant: the frontier is explored in the order of the routes, whatever they cost.
ForemostByRoute ==
    {c \in frontier : \A d \in frontier \ {c} : RouteBefore(c.route, d.route)}

\* frontier.pop_first: the one candidate before all others.
Foremost == {c \in frontier : \A d \in frontier \ {c} : Before(c, d)}

Extend(c, cell) == [cost |-> c.cost + board.cost[cell], route |-> Append(c.route, cell)]

\* Mutant: a route that uses the whole bound is out of reach.
ImprovedBelow(c) ==
    {cell \in Neighbours(End(c.route)) :
        /\ Enterable(cell)
        /\ Extend(c, cell).cost < board.reach
        /\ cell \in DOMAIN best => Before(Extend(c, cell), best[cell])}

\* The neighbours to which "c" leads better than what is known.
Improved(c) ==
    {cell \in Neighbours(End(c.route)) :
        /\ Enterable(cell)
        /\ Extend(c, cell).cost <= board.reach
        /\ cell \in DOMAIN best => Before(Extend(c, cell), best[cell])}

-------------------------------------------------------------------------------
Start == [cost |-> 0, route |-> <<>>]

SearchInit ==
    /\ board \in Boards
    /\ frontier = {Start}
    /\ best = [c \in {board.origin} |-> Start]

\* One round of the search; a candidate that was improved on since it was
\* queued leads nowhere.
Explore ==
    /\ \E c \in Foremost :
       \E cells \in {IF Before(best[End(c.route)], c) THEN {} ELSE Improved(c)} :
          /\ frontier' = (frontier \ {c}) \cup {Extend(c, cell) : cell \in cells}
          /\ best' = [cell \in DOMAIN best \cup cells |->
                         IF cell \in cells THEN Extend(c, cell) ELSE best[cell]]
    /\ UNCHANGED board

SearchSpec == SearchInit /\ [][Explore]_routeVars

\* The first candidate queued for a cell is its best one: as a cell costs the
\* same from every side, exploring in the order of cost and cells never has to
\* correct a route, and the stale candidates movement_paths would pass over do
\* not occur.
FirstFoundIsBest ==
    [][\A c \in DOMAIN best : c \in DOMAIN best' /\ best'[c] = best[c]]_routeVars

-------------------------------------------------------------------------------
(* Pushing the mover away from "source". *)

Sign(n) == IF n > 0 THEN 1 ELSE IF n < 0 THEN -1 ELSE 0

StepX == Sign(Column(board.origin) - Column(board.source))
StepY == Sign(Row(board.origin) - Row(board.source))

\* The cell "k" steps straight away from "source".
PushedTo(k) == board.origin + k * (StepX + BoardWidth * StepY)

CanBePushed(k) ==
    /\ Column(board.origin) + k * StepX \in 0 .. BoardWidth - 1
    /\ Row(board.origin) + k * StepY \in 0 .. BoardHeight - 1
    /\ Enterable(PushedTo(k))

\* push_path: the cells entered up to the first that cannot be, none when no
\* push is possible.
PushRoute(distance) ==
    LET entered == CHOOSE n \in 0 .. distance :
                       /\ \A k \in 1 .. n : CanBePushed(k)
                       /\ n < distance => ~ CanBePushed(n + 1)
    IN  IF (StepX = 0) = (StepY = 0) THEN <<>> ELSE [k \in 1 .. entered |-> PushedTo(k)]

-------------------------------------------------------------------------------
(* What the search and a push have to find. *)

CostOf(r) ==
    LET cost[k \in 0 .. Len(r)] == IF k = 0 THEN 0 ELSE cost[k - 1] + board.cost[r[k]]
    IN  cost[Len(r)]

\* The routes that go on from "r" to a cell it has not visited.
Lengthened(r) ==
    {Append(r, c) :
        c \in {d \in Neighbours(End(r)) :
                  Enterable(d) /\ d # board.origin /\ \A k \in DOMAIN r : r[k] # d}}

\* Every route of the mover that visits no cell twice.
SimpleRoutes ==
    LET longest == BoardWidth * BoardHeight - 1
        routes[n \in 0 .. longest] ==
            IF n = 0 THEN {<<>>} ELSE UNION {Lengthened(r) : r \in routes[n - 1]}
    IN  UNION {routes[n] : n \in 1 .. longest}

\* The cells that some route within the bound reaches are those found, each with the
\* least route by cost and then by the order of its cells (movement_paths).
LeastRoutes ==
    LET within == {r \in SimpleRoutes : CostOf(r) <= board.reach}
    IN  /\ DOMAIN best \ {board.origin} = {End(r) : r \in within}
        /\ \A c \in DOMAIN best \ {board.origin} :
              /\ best[c].route \in within
              /\ End(best[c].route) = c
              /\ best[c].cost = CostOf(best[c].route)
              /\ \A r \in within :
                    End(r) = c /\ r # best[c].route
                        => Before(best[c], [cost |-> CostOf(r), route |-> r])

\* A push is a straight way off the source that ends only at an obstacle or
\* at its distance, and where its cost is within the distance a slide of the
\* same distance would offer the cell at no greater cost (push_path).
StraightPush ==
    LET r == PushRoute(board.reach)
        away(c) == <<Column(c) - Column(board.source), Row(c) - Row(board.source)>>
        length(v) == (IF v[1] < 0 THEN -v[1] ELSE v[1]) + (IF v[2] < 0 THEN -v[2] ELSE v[2])
        aligned == 0 \in {away(board.origin)[1], away(board.origin)[2]}
    IN  /\ ~ aligned => r = <<>>
        /\ \A k \in DOMAIN r :
              /\ Enterable(r[k])
              /\ 0 \in {away(r[k])[1], away(r[k])[2]}
              /\ length(away(r[k])) = length(away(board.origin)) + k
        /\ aligned /\ Len(r) < board.reach =>
              \A c \in Neighbours(End(r)) :
                  length(away(c)) = length(away(End(r))) + 1
                  /\ 0 \in {away(c)[1], away(c)[2]} => ~ Enterable(c)
        /\ r # <<>> /\ CostOf(r) <= board.reach =>
              End(r) \in DOMAIN best /\ best[End(r)].cost <= CostOf(r)

\* The search ends with the least route to every cell within the bound and no other
\* cell, and a push takes one of the routes there are (movement_paths beside push_path).
RoutesAreLeast == DOMAIN best # {} /\ frontier = {} => LeastRoutes /\ StraightPush
===============================================================================
