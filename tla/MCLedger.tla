------------------------------- MODULE MCLedger -------------------------------
(***************************************************************************)
(* A duel, or two against one, on a row of five cells with effects of      *)
(* several stacking policies and anchors, two modifiers of one group and   *)
(* two zones.  Under the fixed economy of MCRulesets the zone of effects   *)
(* is left out, under the variable one the zone of harm.                   *)
(***************************************************************************)
EXTENDS RestoredLedger

Duel           == {1, 2}
DuelTeam       == <<"a", "b">>
DuelInitiative == <<2, 1>>
DuelVitality   == <<2, 2>>
DuelPosition   == <<2, 4>>
DuelResource   == <<1, 1>>

Trio           == {1, 2, 3}
TrioTeam       == <<"a", "b", "a">>
TrioInitiative == <<2, 1, 3>>
TrioVitality   == <<1, 1, 1>>
TrioPosition   == <<2, 4, 1>>
TrioResource   == <<1, 1, 1>>

MCEffects ==
    <<[stacking_id |-> "curse", stacking |-> "refresh",
       anchor |-> "targetTurnStart", count |-> 2],
      [stacking_id |-> "haze", stacking |-> "independentBySource",
       anchor |-> "globalTurnTransition", count |-> 3],
      [stacking_id |-> "curse", stacking |-> "refresh",
       anchor |-> "roundTransition", count |-> 1]>>

MCModifiers ==
    [ward  |-> [stacking_group |-> "guard", turns |-> 3],
     stand |-> [stacking_group |-> "guard", turns |-> 1]]

Op(kind) == [kind |-> kind, definition |-> 1, id |-> "ward", at |-> "target"]

Body(team, program) == [team |-> team, range |-> 2, program |-> program]

MCProcedures ==
    [curse |-> [team |-> "hostile", range |-> 5, distance |-> 0,
                program |-> <<Op("effect")>>],
     haze  |-> [team |-> "any", range |-> 2, distance |-> 0,
                program |-> <<[Op("effect") EXCEPT !.definition = 2]>>],
     ward  |-> [team |-> "ally", range |-> 5, distance |-> 0,
                program |-> <<Op("modifier"), [Op("effect") EXCEPT !.definition = 3]>>],
     walk  |-> [team |-> "any", range |-> 5, distance |-> 2,
                program |-> <<Op("step")>>],
     zone  |-> [team |-> "any", range |-> 2, distance |-> 0,
                program |-> <<Op("source")>>],
     mist  |-> [team |-> "any", range |-> 2, distance |-> 0,
                program |-> <<[Op("source") EXCEPT !.definition = 2]>>]]

Diamond(triggers) ==
    [stacking_id |-> "zone", stacking |-> "replace", anchor |-> "sourceTurnStart",
     count |-> 2, radius |-> 1, filter |-> "all", triggers |-> triggers]

\* Its triggers apply no effect.
ZoneOfHarm ==
    Diamond([enter     |-> Body("any", <<[Op("modifier") EXCEPT !.id = "stand"], Op("drain")>>),
             startTurn |-> Body("any", <<[Op("modifier") EXCEPT !.id = "stand"]>>),
             endTurn   |-> Body("hostile", <<Op("damage")>>),
             exit      |-> Body("any", <<Op("removeEffect")>>)])

\* The variable economy carries its triggers out within one revision.
ZoneOfEffects ==
    Diamond([enter     |-> Body("any", <<[Op("modifier") EXCEPT !.id = "stand"], Op("damage")>>),
             startTurn |-> Body("hostile", <<Op("effect")>>),
             endTurn   |-> Body("any", <<[Op("effect") EXCEPT !.definition = 2]>>),
             exit      |-> Body("any", <<Op("removeEffect"), Op("drain")>>)])

MCSources == <<ZoneOfHarm, ZoneOfEffects>>

Plain == {"curse", "haze", "ward", "walk"}

MCRulesets ==
    {[economy |-> "fixed", actions |-> Plain \cup {"zone"}],
     [economy |-> "variable", actions |-> Plain \cup {"mist"}]}

FixedMist == {[economy |-> "fixed", actions |-> Plain \cup {"mist"}]}

\* What the theorems about tenure suppose; FixedMist shows what happens without.
ASSUME TimelyAssumption ==
    Rulesets # FixedMist => EffectsAreTimely /\ ModifiersAreTimely /\ StartsAreHarmless

\* One of the rulesets is of the kind whose turns the theorem says can end; of
\* the other, with effects at both ends of a turn, the run says it.
ASSUME SomeEndsCannotFail == Rulesets # FixedMist => \E r \in Rulesets : EndsCannotFail(r)
===============================================================================
