------------------------------- MODULE BoardSight -------------------------------
(***************************************************************************)
(* Lines of effect and areas (crates/rpg-runtime/src/encounter.rs): the    *)
(* walk of line_of_effect_supercover over the cells between two centres,   *)
(* and what area_projection makes of an anchor.  An area command names its *)
(* anchor alone; cells and participants are derived from it at submission. *)
(*                                                                         *)
(* An input has the authored "cells", each with whether it blocks, the     *)
(* "participants" with their position, team and vitality, an "actor" among *)
(* them, a "selector", the "anchor" and the participants a caller "named". *)
(***************************************************************************)
EXTENDS Integers, FiniteSets

X(p) == p[1]
Y(p) == p[2]

Magnitude(n) == IF n < 0 THEN -n ELSE n

Direction(n) == IF n > 0 THEN 1 ELSE IF n < 0 THEN -1 ELSE 0

Apart(p, q) == Magnitude(X(p) - X(q)) + Magnitude(Y(p) - Y(q))

-------------------------------------------------------------------------------
(* Lines of effect. *)

\* Mutant: the cells beside a corner are slipped between.
SupercoverThroughCorners(s, e) ==
    LET dx == Magnitude(X(e) - X(s))
        dy == Magnitude(Y(e) - Y(s))
        at(t) == <<X(s) + Direction(X(e) - X(s)) * t[1], Y(s) + Direction(Y(e) - Y(s)) * t[2]>>
        next(t) == LET x == (2 * t[1] + 1) * dy
                       y == (2 * t[2] + 1) * dx
                   IN  CASE x = y -> <<t[1] + 1, t[2] + 1>>
                         [] x < y -> <<t[1] + 1, t[2]>>
                         [] x > y -> <<t[1], t[2] + 1>>
        walk[n \in 0 .. dx + dy] ==
            IF n = 0 THEN <<0, 0>>
            ELSE IF walk[n - 1] = <<dx, dy>> THEN <<dx, dy>> ELSE next(walk[n - 1])
    IN  {at(walk[n]) : n \in 1 .. dx + dy}

\* line_of_effect_supercover: the next border is the one that the line crosses
\* first; at a corner it crosses two, and both cells beside it count.
Supercover(s, e) ==
    LET dx == Magnitude(X(e) - X(s))
        dy == Magnitude(Y(e) - Y(s))
        at(t) == <<X(s) + Direction(X(e) - X(s)) * t[1], Y(s) + Direction(Y(e) - Y(s)) * t[2]>>
        x(t) == (2 * t[1] + 1) * dy
        y(t) == (2 * t[2] + 1) * dx
        next(t) == <<t[1] + (IF x(t) <= y(t) THEN 1 ELSE 0),
                     t[2] + (IF y(t) <= x(t) THEN 1 ELSE 0)>>
        beside(t) == IF x(t) = y(t)
                     THEN {at(<<t[1] + 1, t[2]>>), at(<<t[1], t[2] + 1>>)}
                     ELSE {}
        walk[n \in 0 .. dx + dy] ==
            IF n = 0 THEN <<0, 0>>
            ELSE IF walk[n - 1] = <<dx, dy>> THEN <<dx, dy>> ELSE next(walk[n - 1])
        steps == {walk[n] : n \in 0 .. dx + dy} \ {<<dx, dy>>}
    IN  UNION {{at(next(t))} \cup beside(t) : t \in steps}

\* line_of_effect_projection: the ends do not block, and a cell that is not
\* there does.
Sight(q, s, e) ==
    LET between == Supercover(s, e) \ {s, e}
    IN  IF \/ {s, e} \ DOMAIN q.cells # {}
           \/ between \ DOMAIN q.cells # {}
        THEN "missing"
        ELSE IF \E c \in between : q.cells[c].blocks THEN "blocked" ELSE "clear"

-------------------------------------------------------------------------------
(* Areas. *)

\* The offsets of a diamond.
Diamond(r) == {d \in (-r .. r) \X (-r .. r) : Magnitude(X(d)) + Magnitude(Y(d)) <= r}

\* Mutant: a line leaves from where the actor stands, cell or no cell.
AimedFromAnywhere(q) ==
    LET at == q.participants[q.actor].position
    IN  /\ (X(q.anchor) = X(at)) # (Y(q.anchor) = Y(at))
        /\ Apart(at, q.anchor) <= q.selector.size

\* A line leaves from an authored cell, straight to an anchor it can reach.
Aimed(q) ==
    LET at == q.participants[q.actor].position
    IN  /\ at \in DOMAIN q.cells
        /\ (X(q.anchor) = X(at)) # (Y(q.anchor) = Y(at))
        /\ Apart(at, q.anchor) <= q.selector.size

Shape(q) ==
    LET s  == q.selector
        at == q.participants[q.actor].position
        x  == Direction(X(q.anchor) - X(at))
        y  == Direction(Y(q.anchor) - Y(at))
    IN  CASE s.shape = "diamond" ->
                {<<X(q.anchor) + X(d), Y(q.anchor) + Y(d)>> : d \in Diamond(s.size)}
          [] s.shape = "line" ->
                IF Aimed(q) THEN {<<X(at) + x * k, Y(at) + y * k>> : k \in 1 .. s.size} ELSE {}

Origin(q) ==
    IF q.selector.shape = "diamond" THEN q.anchor ELSE q.participants[q.actor].position

InSight(q, s, e) == q.selector.sight => Sight(q, s, e) = "clear"

Included(q) == {c \in Shape(q) \cap DOMAIN q.cells : InSight(q, Origin(q), c)}

TeamAllows(q, p) ==
    CASE q.selector.team = "hostile" -> q.participants[p].team # q.participants[q.actor].team
      [] q.selector.team = "ally"    -> q.participants[p].team = q.participants[q.actor].team
      [] q.selector.team = "any"     -> TRUE

Standing(q, cells) == {p \in DOMAIN q.participants : q.participants[p].position \in cells}

\* Who is in the area and why not: out of sight, of the wrong team, or dead.
Refusal(q, p) ==
    CASE q.participants[p].position \notin Included(q) ->
            Sight(q, Origin(q), q.participants[p].position)
      [] q.participants[p].position \in Included(q) /\ ~TeamAllows(q, p) -> "team"
      [] /\ q.participants[p].position \in Included(q)
         /\ TeamAllows(q, p)
         /\ q.selector.living
         /\ q.participants[p].vitality <= 0 -> "dead"
      [] OTHER -> "none"

\* area_projection
Projection(q) ==
    LET s        == q.selector
        at       == q.participants[q.actor].position
        present  == Standing(q, Shape(q) \cap DOMAIN q.cells)
        targets  == {p \in present : Refusal(q, p) = "none"}
        accepted == /\ q.anchor \in DOMAIN q.cells
                    /\ Apart(at, q.anchor) <= s.range
                    /\ InSight(q, at, q.anchor)
                    /\ Shape(q) # {}
                    /\ q.anchor \in Included(q)
                    /\ Cardinality(targets) \in s.minimum .. s.maximum
    IN  [ok       |-> accepted,
         cells    |-> IF accepted THEN Included(q) ELSE {},
         targets  |-> IF accepted THEN targets ELSE {},
         filtered |-> IF accepted
                      THEN {[id |-> p, reason |-> Refusal(q, p)] : p \in present \ targets}
                      ELSE {}]

\* prepare_area_command: a caller names no participants of its own.
Prepared(q) ==
    IF q.named = {}
    THEN Projection(q)
    ELSE [ok |-> FALSE, cells |-> {}, targets |-> {}, filtered |-> {}]
===============================================================================
