--------------------------- MODULE AuthoritySession ---------------------------
(***************************************************************************)
(* One authority session (crates/rpg-runtime/src/semantic_session.rs): the *)
(* capability state, the turn, the encounter log and the three phases in   *)
(* which a command waits for a decision of the host.                       *)
(*                                                                         *)
(* A phase field of the code, an Option, is a set that is empty or a       *)
(* singleton.  A rejected command changes nothing, so rejections are the   *)
(* stuttering steps.  The host is the environment: it chooses every        *)
(* command, decision and die value.                                        *)
(***************************************************************************)
EXTENDS ActionResolution, FiniteSets

CONSTANTS Owned,        \* participant_definitions: the actions of each participant
          Sentries,     \* participants with a movement-reaction registration
          Registration, \* [reach, response, budget, cost, maximum_uses]
          Vitality0,    \* initial vitality of each participant
          Position0,    \* initial cell of each participant
          MaxRevision,  \* bound: no command starts at this revision
          MaxEvidence   \* bound: values the host supplies with one command

EndTurn == "endTurn"

ASSUME SessionAssumption ==
    /\ Owned \in [Participants -> SUBSET ActionIds]
    /\ Sentries \subseteq Participants
    /\ Registration \in [reach : Nat, response : ActionIds, budget : STRING,
                         cost : Nat \ {0}, maximum_uses : Nat]
    \* the compiler wants an owner-turn budget of exactly the registered uses
    /\ Sentries # {} =>
          /\ Registration.budget \in Budgets
          /\ ResetBoundary[Registration.budget] = "ownerTurnStart"
          /\ InitialAmount[Registration.budget]
                = Registration.cost * Registration.maximum_uses
    /\ Vitality0 \in [Participants -> 0 .. MaxVitality]
    /\ Position0 \in [Participants -> Cells]
    /\ \E p \in Participants : Vitality0[p] > 0
    /\ \A p, q \in Participants : p # q => Position0[p] # Position0[q]
    /\ MaxRevision \in Nat
    /\ MaxEvidence \in Nat
    /\ EndTurn \notin ActionIds

VARIABLES
    state,                   \* RpgCapabilityState
    turn,                    \* encounter.turn
    log,                     \* encounter.log, with the die values its events carry
    accepted_random_values,  \* position of the session in its random stream
    pending,                 \* suspended on a reaction
    pending_forced_movement, \* suspended on the destination of a slide
    pending_turn_save        \* suspended on the end-turn saves

phases == <<pending, pending_forced_movement, pending_turn_save>>
vars   == <<state, turn, log, accepted_random_values, phases>>

\* Evidence of one command: from a random source, or raw values of the host.
Drawn == UNION {[1 .. n -> Rolls] : n \in 0 .. MaxEvidence}
Raw   == UNION {[1 .. n -> Values] : n \in 0 .. MaxEvidence}

-------------------------------------------------------------------------------
(* Movement reactions. *)

\* The trigger-time context of the first owner, by id, whose reach is left.
MovementContexts ==
    [owner : Participants, start : Cells, end : Cells,
     authority_revision : Nat, round : Nat, turn : Nat]

Leaves(o, m) ==
    /\ Distance(state.position[o], m.start) <= Registration.reach
    /\ Distance(state.position[o], m.end) > Registration.reach

MayRespond(o) ==
    LET remaining == state.budget[o][Registration.budget]
    IN  /\ o \in Living(state)
        /\ Registration.response \in Owned[o]
        /\ remaining >= Registration.cost
        /\ (InitialAmount[Registration.budget] - remaining) \div Registration.cost
              < Registration.maximum_uses

\* movement_reaction_pending, over the voluntary transition of a finished run.
MovementReaction(r) ==
    LET candidates == {c \in Sentries \X r.voluntary :
                          c[1] # c[2].mover /\ MayRespond(c[1]) /\ Leaves(c[1], c[2])}
    IN  {[owner |-> c[1], start |-> c[2].start, end |-> c[2].end,
          authority_revision |-> state.revision,
          round |-> turn.round, turn |-> turn.turn] :
            c \in {d \in candidates : \A e \in candidates : d[1] <= e[1]}}

-------------------------------------------------------------------------------
(* The end of a turn. *)

\* Mutant: the activation count of the last turn is kept.
AdvanceTurnKeepsCount(s, next) ==
    [s EXCEPT
        !.budget = [p \in Participants |-> [b \in Budgets |->
            IF ResetBoundary[b] = "ownerTurnStart" /\ p = next.actor
            THEN InitialAmount[b]
            ELSE @[p][b]]]]

\* append_turn_events: budgets of the boundary refill, the activation count restarts.
AdvanceTurn(s, next) ==
    [s EXCEPT
        !.activations = 0,
        !.budget = [p \in Participants |-> [b \in Budgets |->
            IF \/ ResetBoundary[b] = "roundStart" /\ next.round # turn.round
               \/ ResetBoundary[b] = "ownerTurnStart" /\ p = next.actor
            THEN InitialAmount[b]
            ELSE @[p][b]]]]

\* The index of candidate "c" in the canonical (source id) order of the saves.
Rank(c, candidates) == Cardinality({d \in candidates : d <= c})

\* The effects of "p" that outlive one save each; a save succeeds on "high".
AfterSaves(s, p, values) ==
    [s EXCEPT !.effects[p] = {c \in s.effects[p] : values[Rank(c, s.effects[p])] = "low"}]

\* append_automatic_turn_saves: the saves of the acting participant, out of
\* the evidence the run has left.
AutomaticSaves(r) ==
    LET count  == Cardinality(r.state.effects[turn.actor])
        values == SubSeq(r.left, 1, count)
    IN  CASE Len(r.left) < count -> Stop(r, "evidence")
          [] Len(r.left) >= count /\ values \notin Seq(Rolls) -> Stop(r, "illegal")
          [] OTHER -> [r EXCEPT !.state = AfterSaves(r.state, turn.actor, values),
                                !.left  = SubSeq(r.left, count + 1, Len(r.left)),
                                !.used  = r.used \o values]

-------------------------------------------------------------------------------
(* Accepting a transaction. *)

Entries == [state_revision : Nat, actor : Participants,
            action : ActionIds \cup {EndTurn},
            evidence : Seq(Rolls), activations : Int]

\* record and record_control
Record(revision, actor, action, evidence, activations) ==
    log' = Append(log, [state_revision |-> revision, actor |-> actor,
                        action |-> action, evidence |-> evidence,
                        activations |-> activations])

\* The fixed economy ends the turn with every accepted action.
EndsTurn(r) == Economy = "fixed" /\ InProgress(r.state)

Saved(r) == IF EndsTurn(r) THEN AutomaticSaves(r) ELSE r

\* What commit_resolved still checks of a resolved run.
Acceptable(r) ==
    /\ Running(r)
    /\ BoardLegal(r.state)
    /\ Running(Saved(r))
    /\ Saved(r).left = <<>>

\* commit_resolved
Commit(r, i) ==
    LET saved == Saved(r)
        next  == IF EndsTurn(r) THEN NextTurn(turn, saved.state) ELSE turn
    IN  /\ Acceptable(r)
        /\ state' = IF EndsTurn(r) THEN AdvanceTurn(saved.state, next) ELSE saved.state
        /\ turn' = next
        /\ accepted_random_values' = accepted_random_values + Len(saved.used)
        /\ Record(saved.state.revision, i.actor, i.action, saved.used,
                  saved.state.activations - state.activations)

-------------------------------------------------------------------------------
(* submit_with_prepared_area *)

NoPhase == pending = {} /\ pending_forced_movement = {} /\ pending_turn_save = {}

\* prepare_movement_intent: how far a step of the actor may reach now.
StepReach(i) ==
    {c \in Reachable(state, i.actor, Actions[i.action].distance) :
        \A b \in Allowance :
            Distance(state.position[i.actor], c) <= state.budget[i.actor][b]}

\* The checks of submit that come before resolution, the phases apart.
Eligible(i) ==
    LET a == Actions[i.action]
    IN  /\ InProgress(state)
        /\ i.actor = turn.actor
        /\ i.action \in Owned[i.actor]
        /\ Economy = "variable" => a.timing = "action"
        /\ i.actor \in Living(state)
        /\ IF a.targets = "cell"
           THEN i.cells # {} /\ i.cells \subseteq StepReach(i)
           ELSE i.cells = {} /\ i.target \in Living(state)

Submittable(i) ==
    /\ NoPhase
    /\ state.revision < MaxRevision
    /\ Eligible(i)

\* The intents a host can phrase: one cell for a step, one participant otherwise.
Proposals ==
    {i \in [action : ActionIds, actor : Participants, target : Participants,
            cells : {{}} \cup {{c} : c \in Cells}] :
        IF Actions[i.action].targets = "cell"
        THEN i.cells # {} /\ i.target = i.actor
        ELSE i.cells = {}}

\* "r" is the run of the submitted command "i".  One that resolves is
\* committed at once.
SubmitAccepted(i, r) ==
    /\ MovementReaction(r) = {}
    /\ Commit(r, i)
    /\ UNCHANGED phases

\* A push has one derived route; the command is resolved again with it.
SubmitPush(i, r, evidence) ==
    LET options == ForcedOptions(state, i)
        bound   == [i EXCEPT !.cells = options]
    IN  /\ r.stop = "route"
        /\ Actions[i.action].shift = "push"
        /\ options # {}
        /\ \E again \in {Resolve(state, evidence, bound, "none")} : Commit(again, bound)
        /\ UNCHANGED phases

\* What openReaction or a provoking step leaves pending, if anything.
Reactions(i, r, evidence) ==
    IF r.stop = "reaction" \/ (Running(r) /\ MovementReaction(r) # {})
    THEN {[expected_revision |-> state.revision, intent |-> i, random_values |-> evidence,
           movement |-> IF Running(r) THEN MovementReaction(r) ELSE {}]}
    ELSE {}

\* A random source supplied exactly the evidence the run asked for so far.
SubmitAwaitingReaction(i, r, evidence) ==
    /\ r.left = <<>>
    /\ Reactions(i, r, evidence) # {}
    /\ pending' = Reactions(i, r, evidence)
    /\ UNCHANGED <<state, turn, log, accepted_random_values,
                   pending_forced_movement, pending_turn_save>>

\* handle_forced_movement_request: what a slide leaves pending, if anything.
Slides(i, r, evidence) ==
    IF /\ r.stop = "route"
       /\ Actions[i.action].shift = "slide"
       /\ ForcedOptions(state, i) # {}
    THEN {[intent |-> i, random_values |-> evidence, options |-> ForcedOptions(state, i),
           authority_revision |-> state.revision, turn |-> turn]}
    ELSE {}

SubmitAwaitingForcedMovement(i, r, evidence) ==
    /\ r.left = <<>>
    /\ Slides(i, r, evidence) # {}
    /\ pending_forced_movement' = Slides(i, r, evidence)
    /\ UNCHANGED <<state, turn, log, accepted_random_values, pending, pending_turn_save>>

-------------------------------------------------------------------------------
(* react and react_to_movement *)

\* The trigger has to be the captured one, in the captured turn.
MovementCurrent(p, r) ==
    /\ Running(r)
    /\ MovementReaction(r) = p.movement
    /\ \A c \in p.movement : /\ c.authority_revision = state.revision
                             /\ c.round = turn.round
                             /\ c.turn = turn.turn

ResponseIntent(c, mover) ==
    [action |-> Registration.response, actor |-> c.owner, target |-> mover, cells |-> {}]

\* Mutant: the mover is left where the response met it.
RespondLeavesMover(r, c, mover) ==
    LET back     == MoveEntity(r, mover, c.start, 64)
        response == ResolveEmbedded(back.state, r.left, ResponseIntent(c, mover), "none")
    IN  IF Running(response) THEN [response EXCEPT !.used = r.used \o response.used] ELSE response

\* Mutant: the response advances the revision as a command of its own.
RespondAdvances(r, c, mover) ==
    LET back     == MoveEntity(r, mover, c.start, 64)
        response == Resolve(back.state, r.left, ResponseIntent(c, mover), "none")
        forward  == MoveEntity(response, mover, c.end, 64)
    IN  IF Running(forward) THEN [forward EXCEPT !.used = r.used \o response.used] ELSE forward

\* The mover is put back where it left from, the response resolves there
\* without a revision of its own, and the mover is put on its destination.
Respond(r, c, mover) ==
    LET back     == MoveEntity(r, mover, c.start, 64)
        response == ResolveEmbedded(back.state, r.left, ResponseIntent(c, mover), "none")
        forward  == MoveEntity(response, mover, c.end, 64)
    IN  CASE ~Running(back) -> back
          [] Running(back) /\ ~Running(response) -> response
          [] OTHER -> [forward EXCEPT !.used = r.used \o response.used]

\* Mutant: the dice rolled before the suspension are rolled again.
AnswerDamageRerolls(p, decision, evidence) ==
    Resolve(state, evidence, p.intent, decision)

\* A before-damage answer is a decision the command is resolved with.
AnswerDamage(p, decision, evidence) ==
    Resolve(state, p.random_values \o evidence, p.intent, decision)

\* The answer to a movement reaction, of a command whose run is "r" this time;
\* "accept" is the option "respond".
AnswerMovement(p, decision, r) ==
    CASE ~MovementCurrent(p, r)                        -> Stop(r, "illegal")
      [] MovementCurrent(p, r) /\ decision = "accept" ->
            Respond(r, CHOOSE c \in p.movement : TRUE, p.intent.actor)
      [] OTHER                                         -> r

\* The whole command is resolved again from the current state, with the
\* captured evidence and the evidence the answer brings.
Answer(p, decision, evidence) ==
    IF p.movement = {}
    THEN AnswerDamage(p, decision, evidence)
    ELSE AnswerMovement(p, decision,
                        Resolve(state, p.random_values \o evidence, p.intent, "none"))

ReactAccepted(p, decision, evidence) ==
    /\ p \in pending
    /\ pending_turn_save = {}
    /\ p.expected_revision = state.revision
    /\ \E r \in {Answer(p, decision, evidence)} : Commit(r, p.intent)
    /\ pending' = {}
    /\ UNCHANGED <<pending_forced_movement, pending_turn_save>>

-------------------------------------------------------------------------------
(* resolve_forced_movement *)

\* Mutant: only the destinations are projected again.
OptionsReachable(p) == ForcedOptions(state, p.intent) = p.options

\* The options embed the revision and the turn they were projected at, so
\* projecting them again compares those as well.
OptionsCurrent(p) ==
    /\ ForcedOptions(state, p.intent) = p.options
    /\ p.authority_revision = state.revision
    /\ p.turn = turn

ResolveForcedMovement(p, destination, evidence) ==
    LET bound == [p.intent EXCEPT !.cells = {destination}]
    IN  /\ p \in pending_forced_movement
        /\ pending = {}
        /\ pending_turn_save = {}
        /\ destination \in p.options
        /\ OptionsCurrent(p)
        /\ \E r \in {Resolve(state, p.random_values \o evidence, bound, "none")} : Commit(r, bound)
        /\ pending_forced_movement' = {}
        /\ UNCHANGED <<pending, pending_turn_save>>

-------------------------------------------------------------------------------
(* control and resolve_pending_turn_save *)

\* Mutant: a pending reaction does not stop the turn from ending.
ControllableAnytime ==
    /\ pending_turn_save = {}
    /\ state.revision < MaxRevision
    /\ InProgress(state)
    /\ turn.actor \in Living(state)

\* The checks of control.  It does not look at pending_forced_movement.
Controllable ==
    /\ pending = {}
    /\ pending_turn_save = {}
    /\ state.revision < MaxRevision
    /\ InProgress(state)
    /\ turn.actor \in Living(state)

\* End the turn in the capability state "s", which the saves may have changed.
EndTurnFrom(s, evidence) ==
    LET next == NextTurn(turn, s)
    IN  /\ state' = [AdvanceTurn(s, next) EXCEPT !.revision = @ + 1]
        /\ turn' = next
        /\ accepted_random_values' = accepted_random_values + Len(evidence)
        /\ Record(state.revision + 1, turn.actor, EndTurn, evidence, 0)

ControlAccepted ==
    /\ Controllable
    /\ state.effects[turn.actor] = {}
    /\ EndTurnFrom(state, <<>>)
    /\ UNCHANGED phases

\* What the end of the turn leaves pending, if anything.
TurnSaves ==
    IF state.effects[turn.actor] # {}
    THEN {[expected_revision |-> state.revision, actor |-> turn.actor,
           candidates |-> state.effects[turn.actor]]}
    ELSE {}

ControlAwaitingTurnSave ==
    /\ Controllable
    /\ TurnSaves # {}
    /\ pending_turn_save' = TurnSaves
    /\ UNCHANGED <<state, turn, log, accepted_random_values,
                   pending, pending_forced_movement>>

\* Exactly one die value per candidate, all of them on the die.  The revision
\* is compared with the pending transition only.
ResolvePendingTurnSave(p, evidence) ==
    /\ p \in pending_turn_save
    /\ pending = {}
    /\ state.effects[p.actor] = p.candidates
    /\ Len(evidence) = Cardinality(p.candidates)
    /\ \A k \in DOMAIN evidence : evidence[k] \in Rolls
    /\ \E s \in {AfterSaves(state, p.actor, evidence)} : EndTurnFrom(s, evidence)
    /\ pending_turn_save' = {}
    /\ UNCHANGED <<pending, pending_forced_movement>>

-------------------------------------------------------------------------------
(* Specification. *)

\* build_encounter and from_scenario
Init ==
    /\ state = [revision |-> 0, vitality |-> Vitality0, position |-> Position0,
                budget |-> [p \in Participants |-> InitialAmount],
                activations |-> 0, effects |-> [p \in Participants |-> {}]]
    /\ \E p \in Participants :
          /\ Vitality0[p] > 0
          /\ turn = [round |-> 1, turn |-> 1, actor |-> p]
    /\ log = <<>>
    /\ accepted_random_values = 0
    /\ pending = {}
    /\ pending_forced_movement = {}
    /\ pending_turn_save = {}

Submit ==
    \E i \in Proposals :
        /\ Submittable(i)
        /\ \E evidence \in Drawn : \E r \in {Resolve(state, evidence, i, "none")} :
              \/ SubmitAccepted(i, r)
              \/ SubmitPush(i, r, evidence)
              \/ SubmitAwaitingReaction(i, r, evidence)
              \/ SubmitAwaitingForcedMovement(i, r, evidence)

React ==
    \E p \in pending, decision \in {"decline", "accept"}, evidence \in Raw :
        ReactAccepted(p, decision, evidence)

Slide ==
    \E p \in pending_forced_movement, evidence \in Raw :
        \E destination \in p.options : ResolveForcedMovement(p, destination, evidence)

Control ==
    \/ ControlAccepted
    \/ ControlAwaitingTurnSave

Save == \E p \in pending_turn_save, evidence \in Raw : ResolvePendingTurnSave(p, evidence)

Next == Submit \/ React \/ Slide \/ Control \/ Save

Spec == Init /\ [][Next]_vars

\* The host answers what the session asks it, sooner or later.
LiveSpec == Spec /\ WF_vars(React) /\ WF_vars(Slide) /\ WF_vars(Save)

-------------------------------------------------------------------------------
(* Properties. *)

PendingReactions ==
    [expected_revision : Nat, intent : Intents, random_values : Seq(Rolls),
     movement : SUBSET MovementContexts]

PendingForcedMovements ==
    [intent : Intents, random_values : Seq(Rolls), options : SUBSET Cells,
     authority_revision : Nat, turn : Turns]

PendingTurnSaves ==
    [expected_revision : Nat, actor : Participants, candidates : SUBSET Participants]

\* Every variable keeps its type, and a phase holds at most one transaction.
TypeOK ==
    /\ state \in States
    /\ turn \in Turns
    /\ log \in Seq(Entries)
    /\ accepted_random_values \in Nat
    /\ pending \in SUBSET PendingReactions
    /\ pending_forced_movement \in SUBSET PendingForcedMovements
    /\ pending_turn_save \in SUBSET PendingTurnSaves
    /\ \A p, q \in pending : p = q
    /\ \A p, q \in pending_forced_movement : p = q
    /\ \A p, q \in pending_turn_save : p = q

\* However a transaction got accepted - at once, after a push was derived,
\* after a reaction with or without its embedded response, after a slide, or
\* as the end of a turn - the revision advanced by exactly one and exactly one
\* log entry carries that revision.
LogAccountsForAuthority ==
    /\ Len(log) = state.revision
    /\ \A k \in DOMAIN log : log[k].state_revision = k

\* A reaction or a save phase stays answerable: it belongs to the current
\* revision and the current actor, its save candidates are the effects the
\* actor has, that actor is alive to end its turn, and the two phases exclude
\* each other.
SuspendedIsCurrent ==
    /\ \A p \in pending : /\ p.expected_revision = state.revision
                          /\ p.intent.actor = turn.actor
    /\ \A p \in pending_turn_save : /\ p.expected_revision = state.revision
                                    /\ p.actor = turn.actor
                                    /\ p.actor \in Living(state)
                                    /\ p.candidates = state.effects[turn.actor]
    /\ pending = {} \/ pending_turn_save = {}

\* The budgets and the activation count stay inside the range a checkpoint is
\* validated against, whatever was staged, discarded and staged again.
BudgetsInRange == Solvent(state)

\* While two teams still fight, the participant whose turn it is can act
\* (what validate_restored_encounter demands of every checkpoint).
CurrentActorLives == InProgress(state) => turn.actor \in Living(state)

\* The three phases are mutually exclusive (the claim of the unreachable arms
\* of checkpoint_phase and replay_boundary).
OnePhase ==
    /\ pending = {} \/ pending_forced_movement = {}
    /\ pending = {} \/ pending_turn_save = {}
    /\ pending_forced_movement = {} \/ pending_turn_save = {}

\* A pending reaction can be declined: some evidence completes the command
\* and the session accepts it.
ReactionIsAnswerable ==
    \A p \in pending : \E evidence \in Drawn : Acceptable(Answer(p, "decline", evidence))

\* The evidence of one command is long enough to decline any reaction, and no
\* program moves anybody after its window: a precondition of a theorem, the
\* code does not ensure the second.
AnswersFit ==
    LET saves == IF Economy = "fixed" THEN Cardinality(Participants) ELSE 0
    IN  \A id \in ActionIds :
            (\E k \in 1 .. 3 : Actions[id].program[k] = "window") =>
                /\ Declinable(Actions[id])
                /\ saves + (IF Actions[id].dice THEN 2 ELSE 0) <= MaxEvidence

\* A turn passes to the next living participant: nobody alive is skipped, the
\* turn counter moves by one and the round counts the times the order wrapped.
PassesInOrder ==
    LET from == Place(turn.actor)
        to   == Place(turn'.actor)
    IN  /\ turn'.actor \in Living(state')
        /\ \A k \in PassedOver(from, to) : Initiative[k] \notin Living(state')
        /\ turn'.turn = turn.turn + 1
        /\ turn'.round - turn.round = IF to <= from THEN 1 ELSE 0

\* Every step that changes the turn passes it in order.
TurnPassesInOrder == [][turn' # turn => PassesInOrder]_vars

\* The step that was interrupted by a movement reaction ends where its
\* trigger said, whatever the response did to the mover, and the response
\* moves nobody else.
InterruptedStepLands ==
    [][\A p \in pending : \A c \in p.movement : pending' = {} =>
          state'.position = [state.position EXCEPT ![p.intent.actor] = c.end]]_vars

\* A slide never commits on another turn than the one its destinations were
\* projected in, although ending the turn is possible while it is pending.
SlideCommitsOnItsTurn ==
    [][\A p \in pending_forced_movement : pending_forced_movement' = {} =>
          /\ log' # log
          /\ log'[Len(log')].state_revision = p.authority_revision + 1
          /\ log'[Len(log')].actor = p.turn.actor]_vars

\* The activations that the entries of a log have paid for, entry by entry: the
\* end of a turn starts the count again.
PaidUpTo(entries) ==
    LET paid[k \in 0 .. Len(entries)] ==
            IF k = 0 \/ entries[k].action = EndTurn
            THEN 0
            ELSE paid[k - 1] + entries[k].activations
    IN  paid

\* The activations of the current turn are the ones its accepted transactions
\* paid for: a suspended command that was staged twice pays once.
ActivationsPaidOnce == state.activations = PaidUpTo(log)[Len(log)]

\* Every reaction and every save phase is eventually resolved.
EverySuspensionEnds == (pending \cup pending_turn_save) # {} ~> (pending \cup pending_turn_save) = {}

\* The session as a log of transactions with at most one of them waiting.
Abstract == INSTANCE TransactionLog WITH
    Actors    <- Participants,
    Kinds     <- ActionIds \cup {EndTurn},
    Dice      <- Rolls,
    committed <- [k \in DOMAIN log |-> [actor    |-> log[k].actor,
                                        kind     |-> log[k].action,
                                        evidence |-> log[k].evidence]],
    waiting   <- {[actor |-> p.intent.actor, kind |-> p.intent.action,
                   evidence |-> p.random_values, base |-> p.expected_revision] :
                      p \in pending}
                 \cup {[actor |-> p.actor, kind |-> EndTurn, evidence |-> <<>>,
                        base |-> p.expected_revision] : p \in pending_turn_save}

\* Nothing is committed between a suspension and its own commit, and dice
\* already rolled for a suspended command are never rolled again.
ImplementsTransactionLog == Abstract!Spec
===============================================================================
