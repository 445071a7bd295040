--------------------------- MODULE TransitionLedger ---------------------------
(***************************************************************************)
(* The consequences of accepted transactions over many turns: an action    *)
(* applies effects, modifiers and spatial sources, routes and turns that   *)
(* touch a source dispatch its triggers, and every turn transition ages    *)
(* what is active (crates/rpg-runtime/src/semantic_session.rs, the part of *)
(* commit_resolved and control that AuthoritySession leaves out).          *)
(*                                                                         *)
(* Dice, budgets, reactions, forced movement and saves are the matter of   *)
(* AuthoritySession; here every command runs to its end or is rejected.    *)
(***************************************************************************)
EXTENDS Tenure

CONSTANTS Procedures,  \* [action -> [team, range, distance, program]]
          Rulesets,    \* set of [economy, actions]; a session has one of them.
                       \* "fixed": an accepted action ends the turn
          Vitality0,
          Position0,
          Resource0,   \* the one resource, of each participant
          MaxRevision  \* bound: no command starts at this revision

EndTurn == "endTurn"

Kinds == {"damage", "drain", "effect", "removeEffect", "modifier", "source", "step"}

\* What a compiled operation applies or creates is defined.
Operations ==
    {op \in [kind : Kinds, definition : Nat, id : DOMAIN Modifiers, at : {"actor", "target"}] :
        /\ op.kind = "effect" => op.definition \in DOMAIN EffectDefinitions
        /\ op.kind = "source" => op.definition \in DOMAIN SourceDefinitions}

\* moveToCell wants a cell target
Steps(procedure) == \E k \in DOMAIN procedure.program : procedure.program[k].kind = "step"

ASSUME LedgerAssumption ==
    /\ EndTurn \notin DOMAIN Procedures
    /\ Rulesets \subseteq [economy : {"fixed", "variable"}, actions : SUBSET DOMAIN Procedures]
    /\ Vitality0 \in [Participants -> Nat]
    /\ Position0 \in [Participants -> Cells]
    /\ Resource0 \in [Participants -> Nat]
    /\ MaxRevision \in Nat
    /\ \A a \in DOMAIN Procedures : Procedures[a].program \in Seq(Operations)
    /\ \A d \in DOMAIN SourceDefinitions : \A b \in DOMAIN SourceDefinitions[d].triggers :
          SourceDefinitions[d].triggers[b].program \in Seq(Operations)
    \* trigger procedures do not move and do not create sources
    /\ \A d \in DOMAIN SourceDefinitions :
          \A b \in DOMAIN SourceDefinitions[d].triggers :
             LET body == SourceDefinitions[d].triggers[b].program
             IN  \A k \in DOMAIN body : body[k].kind \notin {"step", "source"}
    \* an action with a cell target has no participant to work on
    /\ \A a \in DOMAIN Procedures : Steps(Procedures[a]) =>
          \A k \in DOMAIN Procedures[a].program :
             LET op == Procedures[a].program[k]
             IN  op.kind = "step" \/ (op.kind = "source" /\ op.at = "actor")

VARIABLES
    rules, \* the ruleset of the session
    state, \* revision, vitality, position, resource, effects, modifiers, sources
    turn,  \* encounter.turn
    log    \* encounter.log: the turn passed, modifiers applied, triggers evaluated

vars == <<rules, state, turn, log>>

States ==
    [revision  : Nat,
     vitality  : [Participants -> Nat],
     position  : [Participants -> Cells],
     resource  : [Participants -> Nat],
     effects   : [Participants -> SUBSET ActiveEffects],
     modifiers : [Participants -> SUBSET ActiveModifiers],
     sources   : SUBSET ActiveSources]

-------------------------------------------------------------------------------
(* A transaction: staged state and the events that matter here. *)

Staged(s) ==
    [ok |-> TRUE, state |-> s, moves |-> {}, modified |-> {}, fired |-> <<>>]

Fail(t) == [t EXCEPT !.ok = FALSE]

TeamAllows(team, actor, target) ==
    CASE team = "hostile" -> Team[actor] # Team[target]
      [] team = "ally"    -> Team[actor] = Team[target]
      [] team = "any"     -> TRUE

\* validate_intent
LegalIntent(s, procedure, actor, target) ==
    /\ TeamAllows(procedure.team, actor, target)
    /\ Distance(s.position[actor], s.position[target]) <= procedure.range

\* The cells entered on the way from one cell to another, in their order.
Path(c, d) == [k \in 1 .. Distance(c, d) |-> IF c < d THEN c + k ELSE c - k]

\* CreateSpatialSource: a diamond around the source entity, fixed from then on.
NewSource(s, d, owner, source) ==
    [definition |-> d, source |-> source, owner |-> owner, origin |-> s.position[source],
     cells |-> {c \in Cells : Distance(s.position[source], c) <= SourceDefinitions[d].radius},
     remaining |-> SourceDefinitions[d].count,
     application_revision |-> s.revision + 1,
     trigger_revision |-> 0, trigger_keys |-> {}]

NewEffect(s, d, source) ==
    [definition |-> d, source |-> source, remaining |-> EffectDefinitions[d].count,
     application_revision |-> s.revision + 1]

\* execute_operation.  A source is owned by the actor and stands where "at",
\* the actor or the target, stands.
Operate(t, op, actor, target, cell) ==
    LET s == t.state
    IN  CASE op.kind = "damage" ->
                [t EXCEPT !.state.vitality[target] = IF @ > 1 THEN @ - 1 ELSE 0]
          [] op.kind = "drain" ->
                IF s.resource[target] = 0
                THEN Fail(t)
                ELSE [t EXCEPT !.state.resource[target] = @ - 1]
          [] op.kind = "effect" ->
                IF HasRoom(EffectDefinitions, s.effects[target], op.definition, actor)
                THEN [t EXCEPT !.state.effects[target] =
                         Stacked(EffectDefinitions, @, NewEffect(s, op.definition, actor))]
                ELSE Fail(t)
          [] op.kind = "removeEffect" ->
                [t EXCEPT !.state.effects[target] = {e \in @ : e.definition # op.definition}]
          [] op.kind = "modifier" ->
                [t EXCEPT !.state.modifiers[target] = WithModifier(@, op.id),
                          !.modified = @ \cup {<<target, op.id>>}]
          [] op.kind = "source" ->
                LET at == IF op.at = "actor" THEN actor ELSE target
                IN  IF HasRoom(SourceDefinitions, s.sources, op.definition, at)
                    THEN [t EXCEPT !.state.sources =
                             Stacked(SourceDefinitions, @, NewSource(s, op.definition, actor, at))]
                    ELSE Fail(t)
          [] op.kind = "step" ->
                [t EXCEPT !.state.position[actor] = cell,
                          !.moves = @ \cup {[mover |-> actor, start |-> s.position[actor],
                                             route |-> Path(s.position[actor], cell)]}]

\* execute_program: the first operation that fails ends it.
Further(t, op, actor, target, cell) ==
    IF t.ok THEN Operate(t, op, actor, target, cell) ELSE t

RunProgram(t, program, actor, target, cell) ==
    LET run[k \in 0 .. Len(program)] ==
            IF k = 0 THEN t ELSE Further(run[k - 1], program[k], actor, target, cell)
    IN  run[Len(program)]

-------------------------------------------------------------------------------
(* Spatial triggers. *)

Code(boundary) == CHOOSE k \in 1 .. 4 : Boundaries[k] = boundary

Candidates(e, boundary, cell, participant) ==
    IF boundary \in DOMAIN SourceDefinitions[e.definition].triggers
    THEN {[boundary |-> Code(boundary), definition |-> e.definition, source |-> e.source,
           cell |-> cell, participant |-> participant]}
    ELSE {}

\* append_spatial_movement_triggers: a route enters a source at its first
\* cell inside and leaves it at its last one.
MovementCandidates(t) ==
    UNION {UNION {
        LET way == <<m.start>> \o m.route
        IN  IF way[k] \notin e.cells /\ way[k + 1] \in e.cells
            THEN Candidates(e, "enter", way[k + 1], m.mover)
            ELSE IF way[k] \in e.cells /\ way[k + 1] \notin e.cells
            THEN Candidates(e, "exit", way[k], m.mover)
            ELSE {} : k \in DOMAIN m.route, e \in t.state.sources} : m \in t.moves}

\* spatial_turn_trigger_candidates
TurnCandidates(t, boundary, participant) ==
    UNION {Candidates(e, boundary, t.state.position[participant], participant) :
              e \in {f \in t.state.sources : t.state.position[participant] \in f.cells}}

\* The canonical order: boundary, definition, source, cell, participant.
Precedes(a, b) ==
    LET rank(c) == <<c.boundary, c.definition, c.source, c.cell, c.participant>>
    IN  \E k \in 1 .. 5 : /\ rank(a)[k] < rank(b)[k]
                          /\ \A j \in 1 .. k - 1 : rank(a)[j] = rank(b)[j]

\* spatial_source_target_matches
FilterMatches(filter, owner, participant) ==
    \/ filter = "all"
    \/ filter = "allies" /\ Team[owner] = Team[participant]
    \/ filter = "hostiles" /\ Team[owner] # Team[participant]

\* Mutant: a trigger that does not apply fails the command.
DispatchStrict(t, c, revision) ==
    LET e    == CHOOSE f \in t.state.sources : f.definition = c.definition
                                               /\ f.source = c.source
        body == SourceDefinitions[c.definition].triggers[Boundaries[c.boundary]]
    IN  IF /\ FilterMatches(SourceDefinitions[c.definition].filter, e.owner, c.participant)
           /\ LegalIntent(t.state, body, e.owner, c.participant)
        THEN RunProgram(t, body.program, e.owner, c.participant, 0)
        ELSE Fail(t)

\* One candidate: recorded or suppressed, applicable or not, and then run as
\* an embedded resolution of the owner against the participant.
Dispatch(t, c, revision) ==
    LET e      == CHOOSE f \in t.state.sources : f.definition = c.definition
                                                 /\ f.source = c.source
        body   == SourceDefinitions[c.definition].triggers[Boundaries[c.boundary]]
        key    == [boundary |-> c.boundary, cell |-> c.cell, participant |-> c.participant]
        stored == [t EXCEPT !.state.sources = (@ \ {e}) \cup {Recorded(e, key, revision)}]
        noted(u, how) == [u EXCEPT !.fired = Append(@, <<c, how>>)]
    IN  CASE ~Records(e, key, revision) -> noted(t, "suppressed")
          [] /\ Records(e, key, revision)
             /\ e.trigger_revision = revision
             /\ Cardinality(e.trigger_keys) >= MaximumKeys -> Fail(t)
          [] OTHER ->
                IF /\ FilterMatches(SourceDefinitions[c.definition].filter, e.owner, c.participant)
                   /\ LegalIntent(t.state, body, e.owner, c.participant)
                THEN noted(RunProgram(stored, body.program, e.owner, c.participant, 0), "applied")
                ELSE noted(stored, "inapplicable")

\* append_spatial_trigger_candidates: any error of a trigger fails the command.
DispatchFirst(r, revision) ==
    LET c == CHOOSE x \in r.left : \A d \in r.left \ {x} : Precedes(x, d)
    IN  IF r.left = {} \/ ~r.done.ok
        THEN r
        ELSE [done |-> Dispatch(r.done, c, revision), left |-> r.left \ {c}]

RunTriggers(t, candidates, revision) ==
    LET run[k \in 0 .. Cardinality(candidates)] ==
            IF k = 0 THEN [done |-> t, left |-> candidates] ELSE DispatchFirst(run[k - 1], revision)
    IN  run[Cardinality(candidates)].done

-------------------------------------------------------------------------------
(* append_turn_events *)

\* Mutant: the modifiers the action refreshed are aged as well.
AgeEverything(t, previous, refreshed, next, revision) ==
    [t EXCEPT
        !.state.effects = [p \in Participants |->
            Aged(@[p], DueEffects(@[p], p, turn, next, revision))],
        !.state.sources = Aged(@, DueSources(@, turn, next, revision)),
        !.state.modifiers = [p \in Participants |->
            Aged(@[p], DueModifiers(@[p], previous.modifiers[p], {}))]]

\* Effects, sources and modifiers age together, against the state before the
\* transaction and the modifiers its action applied.
Age(t, previous, refreshed, next, revision) ==
    [t EXCEPT
        !.state.effects = [p \in Participants |->
            Aged(@[p], DueEffects(@[p], p, turn, next, revision))],
        !.state.sources = Aged(@, DueSources(@, turn, next, revision)),
        !.state.modifiers = [p \in Participants |->
            Aged(@[p], DueModifiers(@[p], previous.modifiers[p],
                    {Modifiers[m[2]].stacking_group : m \in {n \in refreshed : n[1] = p}}))]]

\* The next turn is chosen before the triggers of the ending turn run.
PassTurn(t, previous, next, revision) ==
    LET ended == RunTriggers(t, TurnCandidates(t, "endTurn", turn.actor), revision)
        aged  == Age(ended, previous, t.modified, next, revision)
    IN  IF ended.ok
        THEN RunTriggers(aged, TurnCandidates(aged, "startTurn", next.actor), revision)
        ELSE ended

-------------------------------------------------------------------------------
(* Commands. *)

Entry(action, next, t) ==
    [actor |-> turn.actor, action |-> action, from |-> turn, to |-> next,
     modified |-> t.modified, fired |-> t.fired]

Accept(action, t, next) ==
    /\ t.ok
    /\ BoardLegal(t.state)
    /\ state' = t.state
    /\ turn' = next
    /\ log' = Append(log, Entry(action, next, t))
    /\ UNCHANGED rules

\* The action and the triggers of its movement; the revision advances between.
Acted(action, target, cell) ==
    LET procedure == Procedures[action]
        run       == RunProgram(Staged(state), procedure.program, turn.actor, target, cell)
        advanced  == [run EXCEPT !.state.revision = @ + 1]
    IN  IF run.ok
        THEN RunTriggers(advanced, MovementCandidates(advanced), state.revision + 1)
        ELSE run

ActorMayAct ==
    /\ state.revision < MaxRevision
    /\ InProgress(state)
    /\ turn.actor \in Living(state)

\* submit and commit_resolved
Act(action, target, cell) ==
    /\ ActorMayAct
    /\ IF Steps(Procedures[action])
       THEN /\ target = turn.actor
            /\ cell \in Reachable(state, turn.actor, Procedures[action].distance)
       ELSE /\ cell = 0
            /\ target \in Living(state)
            /\ LegalIntent(state, Procedures[action], turn.actor, target)
    /\ \E t \in {Acted(action, target, cell)} :
          IF t.ok /\ rules.economy = "fixed" /\ InProgress(t.state)
          THEN \E next \in {NextTurn(turn, t.state)} :
                  \E u \in {PassTurn(t, state, next, state.revision + 1)} :
                     Accept(action, u, next)
          ELSE Accept(action, t, turn)

\* control: the revision advances after the transition.
ControlEndTurn ==
    /\ ActorMayAct
    /\ \E next \in {NextTurn(turn, state)} :
          \E u \in {PassTurn(Staged(state), state, next, state.revision + 1)} :
             Accept(EndTurn, [u EXCEPT !.state.revision = @ + 1], next)

Init ==
    /\ rules \in Rulesets
    /\ state = [revision |-> 0, vitality |-> Vitality0, position |-> Position0,
                resource |-> Resource0,
                effects |-> [p \in Participants |-> {}],
                modifiers |-> [p \in Participants |-> {}], sources |-> {}]
    /\ \E p \in Participants :
          /\ Vitality0[p] > 0
          /\ turn = [round |-> 1, turn |-> 1, actor |-> p]
    /\ log = <<>>

Next ==
    \/ \E action \in rules.actions, target \in Participants, cell \in {0} \cup Cells :
          Act(action, target, cell)
    \/ ControlEndTurn

Spec == Init /\ [][Next]_vars

-------------------------------------------------------------------------------
(* Properties. *)

\* The values the code's types admit; each accepted transaction advances the
\* revision once and leaves one entry in the log.
TypeOK ==
    /\ rules \in Rulesets
    /\ state \in States
    /\ turn \in Turns
    /\ Len(log) = state.revision

\* The entries after entry "k" whose turn transition counts for an anchor.
CrossedSince(k, anchor, source, target) ==
    {j \in k + 1 .. Len(log) :
        /\ log[j].from # log[j].to
        /\ Crosses(anchor, source, target, log[j].from, log[j].to)}

\* An effect has what is left of its duration after every boundary since the
\* transaction that applied it, counted in the log: none is skipped or counted
\* twice, and the boundaries of its own transaction do not count
\* (docs/encounter-session-contract.md, "Effects applied or refreshed in the
\* same transaction skip every boundary in that transaction").
EffectTenure ==
    \A p \in Participants : \A e \in state.effects[p] :
        /\ e.application_revision \in 1 .. Len(log)
        /\ e.remaining = EffectDefinitions[e.definition].count
              - Cardinality(CrossedSince(e.application_revision,
                                EffectDefinitions[e.definition].anchor, e.source, p))

\* The same for spatial sources.
SourceTenure ==
    \A e \in state.sources :
        /\ e.application_revision \in 1 .. Len(log)
        /\ e.trigger_revision \in 0 .. Len(log)
        /\ e.remaining = SourceDefinitions[e.definition].count
              - Cardinality(CrossedSince(e.application_revision,
                                SourceDefinitions[e.definition].anchor, e.source, e.source))

\* A modifier counts the turns that have passed since the transaction that
\* last applied one of its id, and not the turn that transaction passes.
ModifierTenure ==
    \A p \in Participants : \A m \in state.modifiers[p] :
        LET applied == {k \in DOMAIN log : <<p, m.id>> \in log[k].modified}
            passed  == {j \in DOMAIN log : /\ log[j].from # log[j].to
                                           /\ \A k \in applied : k < j}
        IN  /\ applied # {}
            /\ m.remaining = Modifiers[m.id].turns - Cardinality(passed)

\* In one transaction a source fires at most once for a boundary, cell and
\* participant, and not at all in the transaction that created or refreshed it.
TriggersOncePerTransition ==
    [][\A i \in DOMAIN log' \ DOMAIN log :
         LET fired == log'[i].fired
         IN  \A k \in DOMAIN fired : fired[k][2] = "applied" =>
                /\ \A l \in DOMAIN fired : fired[l] = fired[k] => l = k
                /\ \A e \in state'.sources :
                      /\ e.definition = fired[k][1].definition
                      /\ e.source = fired[k][1].source
                      => e.application_revision < i]_vars

\* The sources that the actions of a ruleset create.
CreatedBy(r) ==
    {d \in DOMAIN SourceDefinitions :
        \E a \in r.actions : \E k \in DOMAIN Procedures[a].program :
            /\ Procedures[a].program[k].kind = "source"
            /\ Procedures[a].program[k].definition = d}

\* No trigger "b" of a source of ruleset "r" does what "kind" names.
NeverDoes(r, b, kind) ==
    \A d \in CreatedBy(r) : b \in DOMAIN SourceDefinitions[d].triggers =>
        LET body == SourceDefinitions[d].triggers[b].program
        IN  \A k \in DOMAIN body : body[k].kind # kind

\* No trigger applies an effect once its transaction has advanced the revision.
EffectsAreTimely ==
    \A r \in Rulesets :
        /\ \A b \in {"enter", "exit"} : NeverDoes(r, b, "effect")
        /\ r.economy = "fixed" => \A b \in {"startTurn", "endTurn"} : NeverDoes(r, b, "effect")

\* No trigger applies a modifier between the action of a transaction and its ageing.
ModifiersAreTimely == \A r \in Rulesets : NeverDoes(r, "endTurn", "modifier")

\* Where an action ends the turn, no trigger harms who is about to act.
StartsAreHarmless ==
    \A r \in Rulesets : r.economy = "fixed" => NeverDoes(r, "startTurn", "damage")

\* A participant has room for every effect of every source at once.
EffectsFit ==
    /\ IsFiniteSet(DOMAIN EffectDefinitions)
    /\ Cardinality(DOMAIN EffectDefinitions) * Cardinality(Participants) <= MaximumActive

\* No trigger at the end or the start of a turn takes what may not be there,
\* or applies an effect for which there may be no room.
EndsCannotFail(r) ==
    /\ MaximumKeys > 1
    /\ \A b \in {"startTurn", "endTurn"} :
          /\ NeverDoes(r, b, "drain")
          /\ EffectsFit \/ NeverDoes(r, b, "effect")

\* The participant whose turn it is can end it.
TurnCanEnd ==
    ActorMayAct =>
        PassTurn(Staged(state), state, NextTurn(turn, state), state.revision + 1).ok
===============================================================================
