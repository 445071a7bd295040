-------------------------------- MODULE Tenure --------------------------------
(***************************************************************************)
(* What outlives the command that made it: named effects, modifiers and    *)
(* fixed spatial sources, with the owners that apply, age and expire them  *)
(* (crates/rpg-core/src/authority.rs).                                     *)
(*                                                                         *)
(* Effects and sources are identified by definition and source entity      *)
(* (the stacking rules leave at most one such instance), so that instance  *)
(* ids are left out.  Definitions are numbered in the order of their ids.  *)
(***************************************************************************)
EXTENDS BoardRow, FiniteSets

CONSTANTS EffectDefinitions, \* sequence of [stacking_id, stacking, anchor, count]
          SourceDefinitions, \* the same fields, with [radius, filter, triggers]
          Modifiers,         \* [id -> [stacking_group, turns]]
          MaximumActive,     \* MAXIMUM_ACTIVE_RPG_EFFECTS and .._SPATIAL_SOURCES
          MaximumKeys        \* MAXIMUM_RPG_SPATIAL_TRIGGER_KEYS

Anchors    == {"globalTurnTransition", "roundTransition", "sourceTurnStart", "targetTurnStart"}
Policies   == {"replace", "refresh", "independentBySource"}
Boundaries == <<"enter", "startTurn", "endTurn", "exit">>

\* A stacking identity has one policy; a source has no target whose turn counts.
ASSUME TenureAssumption ==
    /\ \A d, e \in DOMAIN EffectDefinitions :
          EffectDefinitions[d].stacking_id = EffectDefinitions[e].stacking_id
              => EffectDefinitions[d].stacking = EffectDefinitions[e].stacking
    /\ \A d, e \in DOMAIN SourceDefinitions :
          SourceDefinitions[d].stacking_id = SourceDefinitions[e].stacking_id
              => SourceDefinitions[d].stacking = SourceDefinitions[e].stacking
    /\ \A d \in DOMAIN EffectDefinitions :
          /\ EffectDefinitions[d].stacking \in Policies
          /\ EffectDefinitions[d].anchor \in Anchors
          /\ EffectDefinitions[d].count \in Nat \ {0}
    /\ DOMAIN SourceDefinitions \subseteq Nat
    /\ \A d \in DOMAIN SourceDefinitions :
          /\ SourceDefinitions[d].stacking \in Policies
          /\ SourceDefinitions[d].anchor \in Anchors \ {"targetTurnStart"}
          /\ SourceDefinitions[d].count \in Nat \ {0}
          /\ SourceDefinitions[d].radius \in Nat \ {0}
          /\ SourceDefinitions[d].filter \in {"all", "allies", "hostiles"}
          /\ DOMAIN SourceDefinitions[d].triggers \subseteq {Boundaries[k] : k \in 1 .. 4}
    /\ \A m \in DOMAIN Modifiers : Modifiers[m].turns \in Nat \ {0}
    /\ MaximumActive \in Nat \ {0}
    /\ MaximumKeys \in Nat \ {0}

ActiveEffects ==
    [definition : DOMAIN EffectDefinitions, source : Participants,
     remaining : Nat \ {0}, application_revision : Nat \ {0}]

ActiveModifiers ==
    [id : DOMAIN Modifiers, remaining : Nat \ {0}]

\* Trigger keys remember what was dispatched in the transition "trigger_revision".
TriggerKeys ==
    [boundary : 1 .. 4, cell : Cells, participant : Participants]

ActiveSources ==
    [definition : DOMAIN SourceDefinitions, source : Participants, owner : Participants,
     origin : Cells, cells : SUBSET Cells, remaining : Nat \ {0}, application_revision : Nat \ {0},
     trigger_revision : Nat, trigger_keys : SUBSET TriggerKeys]

-------------------------------------------------------------------------------
(* Application and stacking. *)

\* The active instances that a new one of definition "d" takes the place of.
Displaced(definitions, present, d, source) ==
    {e \in present :
        /\ definitions[e.definition].stacking_id = definitions[d].stacking_id
        /\ definitions[d].stacking = "independentBySource" => e.source = source}

\* One new instance in the place of the displaced ones, under every policy.
Stacked(definitions, present, new) ==
    (present \ Displaced(definitions, present, new.definition, new.source)) \cup {new}

\* A new instance that displaces none needs room.
HasRoom(definitions, present, d, source) ==
    \/ Displaced(definitions, present, d, source) # {}
    \/ Cardinality(present) < MaximumActive

\* RpgModifiersOwner::apply: replace and refresh leave the same modifier.
WithModifier(present, m) ==
    {n \in present : Modifiers[n.id].stacking_group # Modifiers[m].stacking_group}
        \cup {[id |-> m, remaining |-> Modifiers[m].turns]}

-------------------------------------------------------------------------------
(* Boundaries of a turn transition. *)

\* Whether the transition from turn "t" to turn "u" counts for an anchor.
Crosses(anchor, source, target, t, u) ==
    CASE anchor = "globalTurnTransition" -> t.actor # u.actor \/ t.round # u.round
      [] anchor = "roundTransition"      -> t.round # u.round
      [] anchor = "sourceTurnStart"      -> source = u.actor
      [] anchor = "targetTurnStart"      -> target = u.actor

\* Mutant: an instance expires one boundary after its last count.
AgedToZero(present, due) ==
    (present \ due) \cup {[e EXCEPT !.remaining = @ - 1] : e \in {d \in due : d.remaining > 0}}

\* The instances that are "due" count down; at the last count they expire.
Aged(present, due) ==
    (present \ due) \cup {[e EXCEPT !.remaining = @ - 1] : e \in {d \in due : d.remaining > 1}}

\* Mutant: what was applied in this very transition ages too.
DueEffectsAtOnce(effects, target, t, u, revision) ==
    {e \in effects : Crosses(EffectDefinitions[e.definition].anchor, e.source, target, t, u)}

\* RpgEffectsOwner::advance_boundaries, of one target
DueEffects(effects, target, t, u, revision) ==
    {e \in effects :
        /\ Crosses(EffectDefinitions[e.definition].anchor, e.source, target, t, u)
        /\ e.application_revision # revision}

\* Mutant: a source counts the turn that ends as the one that starts.
DueSourcesSwapped(sources, t, u, revision) ==
    {e \in sources :
        /\ Crosses(SourceDefinitions[e.definition].anchor, e.source, e.source, u, t)
        /\ e.application_revision # revision}

\* RpgSpatialSourcesOwner::advance_boundaries
DueSources(sources, t, u, revision) ==
    {e \in sources :
        /\ Crosses(SourceDefinitions[e.definition].anchor, e.source, e.source, t, u)
        /\ e.application_revision # revision}

\* RpgModifiersOwner::advance_turn: those that the transition left as they
\* were in the "previous" state and that it did not refresh.
DueModifiers(modifiers, previous, refreshed) ==
    {m \in modifiers \cap previous : Modifiers[m.id].stacking_group \notin refreshed}

-------------------------------------------------------------------------------
(* Trigger bookkeeping. *)

\* Mutant: a source may fire in the transition that created it.
RecordsAtOnce(e, key, revision) ==
    e.trigger_revision = revision => key \notin e.trigger_keys

\* record_trigger records a key once per transition, and none in the
\* transition that created or refreshed the source.
Records(e, key, revision) ==
    /\ e.application_revision # revision
    /\ e.trigger_revision = revision => key \notin e.trigger_keys

\* The keys of an earlier transition are forgotten.
Recorded(e, key, revision) ==
    [e EXCEPT !.trigger_revision = revision,
              !.trigger_keys = IF e.trigger_revision = revision THEN @ \cup {key} ELSE {key}]
===============================================================================
