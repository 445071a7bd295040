---------------------------- MODULE ScenarioSetup ----------------------------
(***************************************************************************)
(* Setting an encounter up (crates/rpg-runtime/src/encounter.rs): what a   *)
(* Scenario lists is validated against the compiled bundle, the entities   *)
(* and the turn are built from it, each entity by the restore functions of *)
(* the capability state (crates/rpg-core/src/authority.rs), and a          *)
(* checkpoint taken at once is validated against the same Scenario.        *)
(*                                                                         *)
(* Identities are numbers in the order of their texts, 0 the empty one.    *)
(* A bundle is [definitions, features, slots, owners, domains, content,    *)
(* derived, budgets, sight]: the kind and the visibility of a definition,  *)
(* the features of a class, the slots of an item, the capabilities with an *)
(* owner, the domain of each supplied stat or defence, the resources and   *)
(* modifiers of the content, the value that each derived one equals, the   *)
(* initial budgets, and whether the line-of-effect model is there.         *)
(***************************************************************************)
EXTENDS Integers, Sequences, FiniteSets

CONSTANTS MaxExtent,     \* MAXIMUM_BOARD_EXTENT
          MaxTurns,      \* MAXIMUM_RPG_MODIFIER_TURNS
          ObstructionId  \* RPG_LINE_OF_EFFECT_OBSTRUCTION_ID

LOCAL Entries(s) == {s[k] : k \in DOMAIN s}

LOCAL Distinct(s) == Cardinality(Entries(s)) = Len(s)

\* Unique and none of them empty.
Identities(s) == Distinct(s) /\ 0 \notin Entries(s)

Increasing(s) == \A k \in DOMAIN s : s[k] > IF k = 1 THEN 0 ELSE s[k - 1]

Each(f, s) == [k \in DOMAIN s |-> s[k][f]]

Bounded(c) == 0 <= c.current /\ c.current <= c.max

-------------------------------------------------------------------------------
(* The board. *)

InBoard(b, at) == at[1] \in 0 .. b.width - 1 /\ at[2] \in 0 .. b.height - 1

Traversals(cell) == {k \in DOMAIN cell.facts : cell.facts[k].kind = "traversal"}

BlocksPosition(b, at) ==
    \E cell \in Entries(b.cells) :
        /\ cell.position = at
        /\ \E k \in Traversals(cell) : ~ cell.facts[k].passable

ValidFact(bundle, fact) ==
    /\ fact.version > 0
    /\ fact.id = ObstructionId => fact.kind = "obstruction"
    /\ fact.definition # 0 =>
          /\ fact.definition \in DOMAIN bundle.definitions
          /\ bundle.definitions[fact.definition].kind = "support"
    /\ fact.kind = "traversal" => fact.cost > 0
    /\ fact.kind = "identifier" => fact.value # 0
    /\ fact.kind = "obstruction" =>
          /\ fact.id = ObstructionId /\ fact.version = 1 /\ fact.definition = 0
          /\ bundle.sight

ValidCell(bundle, b, cell) ==
    /\ InBoard(b, cell.position)
    /\ Identities(Each("id", cell.facts))
    /\ Cardinality(Traversals(cell)) <= 1
    /\ \A fact \in Entries(cell.facts) : ValidFact(bundle, fact)

\* validate_board. Two obstructions in a cell would share their identity.
ValidBoard(bundle, b) ==
    /\ b.width \in 1 .. MaxExtent /\ b.height \in 1 .. MaxExtent
    /\ Identities(Each("id", b.cells))
    /\ Distinct(Each("position", b.cells))
    /\ \A cell \in Entries(b.cells) : ValidCell(bundle, b, cell)

-------------------------------------------------------------------------------
(* A participant. *)

Exported(bundle, d, kind) ==
    /\ d \in DOMAIN bundle.definitions
    /\ bundle.definitions[d] = [kind |-> kind, exported |-> TRUE]

ValidDefinitions(bundle, p) ==
    /\ Distinct(p.definitions)
    /\ \A d \in Entries(p.definitions) :
          d \in DOMAIN bundle.definitions /\ bundle.definitions[d].exported
    /\ \E d \in Entries(p.definitions) : bundle.definitions[d].kind = "action"

\* validate_participant_character_selection; class 0 is no class.
ValidSelection(bundle, p) ==
    /\ p.class = 0 => p.features = <<>>
    /\ p.class # 0 => Exported(bundle, p.class, "class")
    /\ Increasing(p.features)
    /\ \A d \in Entries(p.features) :
          /\ Exported(bundle, d, "feature")
          /\ p.class \in DOMAIN bundle.features => d \in bundle.features[p.class]

\* The last item listed under an instance identity: item_instances.insert.
ItemOf(p, instance) ==
    LET listed == {k \in DOMAIN p.items : p.items[k].id = instance}
    IN  p.items[CHOOSE k \in listed : \A j \in listed : j <= k].definition

\* validate_participant_items
ValidItems(bundle, p) ==
    /\ Identities(Each("id", p.items))
    /\ \A item \in Entries(p.items) : Exported(bundle, item.definition, "item")
    /\ Identities(Each("slot", p.equipment))
    /\ Distinct(Each("item", p.equipment))
    /\ \A e \in Entries(p.equipment) :
          /\ e.item \in Entries(Each("id", p.items))
          /\ ItemOf(p, e.item) \in DOMAIN bundle.slots =>
                e.slot \in bundle.slots[ItemOf(p, e.item)]

\* What a listed capability is known by: its owner and an identity.
Identity(c) ==
    CASE c.kind = "vitality" -> <<"vitality", 1>>
      [] c.kind \in {"stat", "defense", "resource"} -> <<c.kind, c.id>>
      [] c.kind = "modifier" -> <<"modifier", c.group>>

ValidCapability(bundle, c) ==
    /\ c.kind \in bundle.owners \cup {"vitality"}
    /\ c.kind \in {"vitality", "resource"} => Bounded(c)
    /\ c.kind \in {"stat", "defense"} =>
          /\ <<c.kind, c.id>> \in DOMAIN bundle.domains
          /\ c.value \in bundle.domains[<<c.kind, c.id>>]
    /\ c.kind \in {"resource", "modifier"} => <<c.kind, c.id>> \in bundle.content
    /\ c.kind = "modifier" => c.id # 0 /\ c.turns \in 1 .. MaxTurns
    /\ Identity(c)[2] # 0

\* The stats and defences a participant lists, the last one of each.
Supplied(p) ==
    LET listed(i) == {k \in DOMAIN p.capabilities : Identity(p.capabilities[k]) = i}
        last(i) == p.capabilities[CHOOSE k \in listed(i) : \A j \in listed(i) : j <= k]
    IN  [i \in {Identity(c) : c \in {e \in Entries(p.capabilities) :
                                        e.kind \in {"stat", "defense"}}}
            |-> last(i).value]

\* CompiledRulesetValuePlan::evaluate, each derived value equal to another one.
Derives(bundle, p) ==
    \A i \in DOMAIN bundle.derived : bundle.derived[i] \in DOMAIN Supplied(p)

DerivedValues(bundle, p) ==
    [i \in DOMAIN bundle.derived |-> Supplied(p)[bundle.derived[i]]]

Vitalities(p) == {k \in DOMAIN p.capabilities : p.capabilities[k].kind = "vitality"}

\* Mutant: a capability may be listed twice.
ValidCapabilitiesRepeated(bundle, p) ==
    /\ \A c \in Entries(p.capabilities) : ValidCapability(bundle, c)
    /\ Cardinality(Vitalities(p)) = 1
    /\ Derives(bundle, p)

\* validate_participant_capabilities
ValidCapabilities(bundle, p) ==
    /\ \A c \in Entries(p.capabilities) : ValidCapability(bundle, c)
    /\ Distinct([k \in DOMAIN p.capabilities |-> Identity(p.capabilities[k])])
    /\ Cardinality(Vitalities(p)) = 1
    /\ Derives(bundle, p)

ValidParticipant(bundle, b, p) ==
    /\ 0 \notin {p.id, p.label, p.team}
    /\ InBoard(b, p.position)
    /\ ~ BlocksPosition(b, p.position)
    /\ ValidDefinitions(bundle, p)
    /\ ValidSelection(bundle, p)
    /\ ValidItems(bundle, p)
    /\ ValidCapabilities(bundle, p)

-------------------------------------------------------------------------------
(* The Scenario. *)

FirstVitality(p) ==
    p.capabilities[CHOOSE k \in Vitalities(p) : \A j \in Vitalities(p) : k <= j]

\* validate_turn
ValidTurn(s) ==
    LET ids == Entries(Each("id", s.participants))
    IN  /\ Distinct(s.turn.order)
        /\ Entries(s.turn.order) = ids
        /\ s.turn.current \in ids
        /\ \A p \in Entries(s.participants) :
              p.id = s.turn.current => Vitalities(p) # {} /\ FirstVitality(p).current > 0
        /\ s.turn.round > 0 /\ s.turn.turn > 0

\* validate_scenario, with validate_binding of its source of die values.
ValidScenario(bundle, s) ==
    /\ s.bundle = bundle.id
    /\ 0 \notin Entries(s.source)
    /\ ValidBoard(bundle, s.board)
    /\ s.participants # <<>>
    /\ Distinct(Each("id", s.participants))
    /\ Distinct(Each("position", s.participants))
    /\ \A p \in Entries(s.participants) : ValidParticipant(bundle, s.board, p)
    /\ ValidTurn(s)

-------------------------------------------------------------------------------
(* The encounter built, and the functions that build an entity. *)

RestoresVitality(p) == p.id # 0 /\ Vitalities(p) # {} /\ Bounded(FirstVitality(p))

\* restore_character_selection
RestoresSelection(p) == Increasing(p.features) /\ (p.class = 0 => p.features = <<>>)

\* restore_stat, restore_defense, restore_resource and restore_modifier, each
\* of which refuses an identity that its map holds.
RestoresCapability(p, k) ==
    LET c == p.capabilities[k]
    IN  \/ c.kind = "vitality"
        \/ /\ Identity(c)[2] # 0
           /\ \A j \in 1 .. k - 1 : Identity(p.capabilities[j]) # Identity(c)
           /\ c.kind = "resource" => Bounded(c)
           /\ c.kind = "modifier" => c.id # 0 /\ c.turns \in 1 .. MaxTurns

\* None of the calls of build_encounter that expect a result fails.
Builds(bundle, p) ==
    /\ RestoresVitality(p)
    /\ RestoresSelection(p)
    /\ \A k \in DOMAIN p.capabilities : RestoresCapability(p, k)
    /\ \A i \in DOMAIN bundle.budgets : i # 0 /\ bundle.budgets[i] >= 0
    /\ Derives(bundle, p)
    /\ \A i \in DOMAIN bundle.derived : i \notin DOMAIN Supplied(p)

Entity(bundle, p) ==
    [team |-> p.team, position |-> p.position, class |-> p.class, features |-> p.features,
     vitality |-> FirstVitality(p).current, budgets |-> bundle.budgets,
     derived |-> DerivedValues(bundle, p)]

\* An entity of that identity would take the place of an earlier one.
LOCAL LastNamed(s, i) ==
    LET named == {k \in DOMAIN s : s[k].id = i}
    IN  s[CHOOSE k \in named : \A j \in named : j <= k]

\* build_encounter of a Scenario: refused, failed or the state it starts with.
Setup(bundle, s) ==
    IF ~ ValidScenario(bundle, s) THEN [outcome |-> "refused"]
    ELSE IF \E p \in Entries(s.participants) : ~ Builds(bundle, p) THEN [outcome |-> "panics"]
    ELSE [outcome |-> "built",
          entities |-> [i \in Entries(Each("id", s.participants)) |->
                          Entity(bundle, LastNamed(s.participants, i))],
          turn |-> s.turn]

-------------------------------------------------------------------------------
(* A checkpoint of that state, validated before it is restored. *)

\* runtime_board_rejection
ValidPositions(b, entities) ==
    /\ \A i \in DOMAIN entities :
          InBoard(b, entities[i].position) /\ ~ BlocksPosition(b, entities[i].position)
    /\ \A i, j \in DOMAIN entities : i # j => entities[i].position # entities[j].position

\* encounter_outcome: there are living participants of two teams.
Undecided(entities) ==
    \E i, j \in DOMAIN entities :
        /\ entities[i].team # entities[j].team
        /\ entities[i].vitality > 0 /\ entities[j].vitality > 0

\* validate_restored_encounter, with neither a spatial source nor an entry in the log.
ValidRestored(bundle, s, made) ==
    LET ids == Entries(Each("id", s.participants))
    IN  /\ DOMAIN made.entities = ids
        /\ \A p \in Entries(s.participants) :
              /\ made.entities[p.id].class = p.class
              /\ made.entities[p.id].features = p.features
              /\ DOMAIN made.entities[p.id].budgets = DOMAIN bundle.budgets
              /\ \A i \in DOMAIN bundle.budgets :
                    made.entities[p.id].budgets[i] \in 0 .. bundle.budgets[i]
        /\ made.turn.order = s.turn.order
        /\ made.turn.current \in ids
        /\ made.turn.round > 0 /\ made.turn.turn > 0
        /\ Undecided(made.entities) => made.entities[made.turn.current].vitality > 0
        /\ ValidPositions(s.board, made.entities)
===============================================================================
