---------------------------- MODULE ActionOptions ----------------------------
(***************************************************************************)
(* What a session offers and what it accepts                               *)
(* (crates/rpg-runtime/src/semantic_session.rs, encounter_view beside      *)
(* submit and control; crates/rpg-compiler/src/execute.rs, preflight).     *)
(* The view lists, for each action of the current actor and each item it   *)
(* may be used with, the participants, cells or anchors that are legal;    *)
(* submit decides again from the bare identities that come back.           *)
(*                                                                         *)
(* A view is a session with one of its actions: "cells" with the cost to   *)
(* enter them (0: closed) and whether they block, the "participants", the  *)
(* "actor", what the actor has "worn", "owned" of the action, the "limits" *)
(* its effects set, its movement "allowance", whether it can "pay", the    *)
(* "phase" and the "number" and "revision" of the session; of the action   *)
(* its "slots" ({} for one without an item), "timing", "distance" of a     *)
(* chosen destination, "moves", "tagged" and "selector".                   *)
(***************************************************************************)
EXTENDS BoardSight

Place(v, p) == v.participants[p].position

Lives(v, p) == v.participants[p].vitality > 0

LivingTeams(v) == {v.participants[p].team : p \in {r \in DOMAIN v.participants : Lives(v, r)}}

InProgress(v) == Cardinality(LivingTeams(v)) > 1

\* item_bindings_for_actor: the pieces of equipment the action may be used with.
Bindings(v) == {w \in v.worn : w.slot \in v.slots /\ w.definition = "blade"}

\* The items the action of the actor is listed with: a response is not, and one
\* that needs an item and finds none is listed without.
Listed(v) ==
    IF ~ v.owned \/ v.timing = "reaction"
    THEN {}
    ELSE IF Bindings(v) = {} THEN {{}} ELSE {{w} : w \in Bindings(v)}

\* The identity that goes with an option and comes back with a proposal.
OptionBinding(v, item) ==
    [session |-> v.number, revision |-> v.revision, actor |-> v.actor, item |-> item]

\* An intent: targets are participants, or the places of cells.
Intent(v, item, targets, cells) ==
    [binding |-> OptionBinding(v, item), targets |-> targets, cells |-> cells]

-------------------------------------------------------------------------------
(* Legality, which both ask about. *)

\* living_intent_rejection: a cell among the targets has no life.
LivingIntent(v, i) ==
    /\ Lives(v, v.actor)
    /\ v.selector.kind # "cell" => \A t \in i.targets : Lives(v, t)

ValidTargets(v, i) ==
    LET s == v.selector
    IN  CASE s.kind = "participant" ->
               /\ i.cells = {}
               /\ \A t \in i.targets :
                     /\ t \in DOMAIN v.participants
                     /\ TeamAllows(v, t)
                     /\ Apart(Place(v, v.actor), Place(v, t)) <= s.range
          [] s.kind = "cell" ->
               /\ i.cells = i.targets
               /\ \A c \in i.cells : Apart(Place(v, v.actor), c) <= s.range
          [] s.kind = "area" ->
               /\ i.cells # {}
               /\ \A t \in i.targets :
                     /\ Place(v, t) \in i.cells
                     /\ TeamAllows(v, t)
                     /\ s.living => Lives(v, t)

\* validate_intent
ValidIntent(v, i) ==
    /\ Cardinality(i.targets) >= IF v.selector.kind = "area" THEN v.selector.minimum ELSE 1
    /\ Cardinality(i.targets) <= v.selector.maximum
    /\ ValidTargets(v, i)

\* validate_condition_restrictions: a limit set by an effect of the actor.
Restricted(v) ==
    \/ "forbidTag" \in v.limits /\ v.tagged
    \/ "requireTag" \in v.limits /\ ~ v.tagged
    \/ "forbidMovement" \in v.limits /\ v.moves

\* preflight: the action is compiled for each of its items, or for none.
Preflight(v, i) ==
    /\ v.slots = {} <=> i.binding.item = {}
    /\ ValidIntent(v, i)
    /\ ~ Restricted(v)
    /\ v.pay

\* The cells some route within the bound leads to (movement_paths).
Destinations(v, bound) ==
    LET others == {Place(v, p) : p \in DOMAIN v.participants}
        open == {c \in DOMAIN v.cells \ others : v.cells[c].cost > 0}
        reached[n \in 0 .. bound] ==
            IF n = 0 THEN {<<Place(v, v.actor), 0>>}
            ELSE reached[n - 1] \cup
                 {e \in open \X (0 .. bound) :
                    \E r \in reached[n - 1] :
                        Apart(r[1], e[1]) = 1 /\ e[2] = r[2] + v.cells[e[1]].cost}
    IN  {e[1] : e \in reached[bound]} \ {Place(v, v.actor)}

Smallest(a, b) == IF a < b THEN a ELSE b

-------------------------------------------------------------------------------
(* What is offered. *)

Clear(v, at) == v.selector.sight => Sight(v, Place(v, v.actor), at) = "clear"

\* candidate_ids_for_binding, filtered by sight, life and preflight.
OfferedParticipants(v, item) ==
    LET chosen(p) == Intent(v, item, {p}, {})
    IN  {chosen(p) : p \in {r \in DOMAIN v.participants :
            /\ TeamAllows(v, r)
            /\ Apart(Place(v, v.actor), Place(v, r)) <= v.selector.range
            /\ Clear(v, Place(v, r))
            /\ LivingIntent(v, chosen(r))
            /\ Preflight(v, chosen(r))}}

\* Mutant: the view reads the distance of the action and not what is left of it.
OfferedCellsAtDistance(v, item) ==
    LET chosen(c) == Intent(v, item, {c}, {c})
    IN  {chosen(c) : c \in {d \in Destinations(v, v.distance) :
            Clear(v, d) /\ Preflight(v, chosen(d))}}

\* The routes within the distance and the allowance.
OfferedCells(v, item) ==
    LET chosen(c) == Intent(v, item, {c}, {c})
    IN  {chosen(c) : c \in {d \in Destinations(v, Smallest(v.distance, v.allowance)) :
            Clear(v, d) /\ Preflight(v, chosen(d))}}

Anchored(v, a) == [v EXCEPT !.anchor = a]

\* An anchor whose projection passes; a proposal names the anchor alone.
OfferedAreas(v, item) ==
    {Intent(v, item, {}, {a}) : a \in {b \in DOMAIN v.cells :
        LET area == Projection(Anchored(v, b))
        IN  /\ Clear(v, b)
            /\ area.ok
            /\ Preflight(v, Intent(v, item, area.targets, area.cells))}}

\* The options of the action, none while a phase waits.
Offered(v) ==
    IF v.phase # "none"
    THEN {}
    ELSE UNION {CASE v.selector.kind = "participant" -> OfferedParticipants(v, item)
                  [] v.selector.kind = "cell"        -> OfferedCells(v, item)
                  [] v.selector.kind = "area"        -> OfferedAreas(v, item) :
                item \in Listed(v)}

ControlOffered(v) == v.phase = "none" /\ InProgress(v) /\ Lives(v, v.actor)

-------------------------------------------------------------------------------
(* What is accepted. *)

\* action_option_binding_rejection, before the command is made.
BoundHere(v, i) ==
    /\ i.binding.session = v.number
    /\ i.binding.revision = v.revision
    /\ i.binding.actor = v.actor
    /\ i.binding.item \in Listed(v)

\* item_binding_rejection
ItemFits(v, i) ==
    /\ v.slots = {} <=> i.binding.item = {}
    /\ i.binding.item \subseteq Bindings(v)

\* cell_binding_rejection: of cells that are there; the place itself is read
\* off the board, and a proposal for participants has no cells.
CellsFit(v, i) ==
    /\ v.selector.kind = "participant" => i.cells = {}
    /\ v.selector.kind # "participant" => i.cells \subseteq DOMAIN v.cells

\* prepare_area_command: an intent for one anchor becomes one for its area.
AreaPrepared(v, i) ==
    IF v.selector.kind # "area"
    THEN {i}
    ELSE {Intent(v, i.binding.item, Projection(q).targets, Projection(q).cells) :
            q \in {Anchored(v, a) : a \in {b \in i.cells \cap DOMAIN v.cells :
                                          Cardinality(i.cells) = 1 /\ i.targets = {}
                                          /\ Projection(Anchored(v, b)).ok}}}

\* prepare_movement_intent: the route is found again.
MovementFits(v, i) ==
    v.selector.kind = "cell" =>
        i.targets \subseteq Destinations(v, Smallest(v.distance, v.allowance))

\* line_of_effect_rejection: an area has looked for itself.
LineFits(v, i) ==
    CASE v.selector.kind = "participant" -> \A t \in i.targets : Clear(v, Place(v, t))
      [] v.selector.kind = "cell"        -> \A c \in i.cells : Clear(v, c)
      [] v.selector.kind = "area"        -> TRUE

\* submit_bound and submit, up to the resolution.
Accepts(v, i) ==
    /\ BoundHere(v, i)
    /\ v.phase = "none"
    /\ InProgress(v)
    /\ v.owned
    /\ ItemFits(v, i)
    /\ v.timing # "reaction"
    /\ \E j \in AreaPrepared(v, i) :
          /\ LivingIntent(v, j)
          /\ CellsFit(v, j)
          /\ Preflight(v, j)
          /\ MovementFits(v, j)
          /\ LineFits(v, j)

\* control, when no save waits: it does not look for a slide.
ControlAccepted(v) ==
    /\ v.phase \notin {"reaction", "save"}
    /\ InProgress(v)
    /\ Lives(v, v.actor)
===============================================================================
