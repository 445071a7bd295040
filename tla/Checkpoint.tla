------------------------------- MODULE Checkpoint -------------------------------
(***************************************************************************)
(* Portable checkpoints (crates/rpg-runtime/src/replay.rs).  A checkpoint  *)
(* holds the capability state, the turn, the log, the random position and  *)
(* one phase; a phase is restored by submitting its command again in the   *)
(* restored session and comparing what that leaves pending.                *)
(*                                                                         *)
(* Artifact, Scenario and hash are compared for equality with what the     *)
(* session was made from; a checkpoint that nobody edited passes, so they  *)
(* are left out.                                                           *)
(***************************************************************************)
EXTENDS AuthoritySession

\* Mutant: the die values of the phase are not kept.
CheckpointPhaseWithoutDice ==
    [reaction |-> {[expected_revision |-> p.expected_revision, intent |-> p.intent,
                    random_values |-> <<>>, request |-> p] : p \in pending},
     slide    |-> {[expected_revision |-> state.revision, intent |-> p.intent,
                    random_values |-> <<>>, request |-> p] :
                       p \in pending_forced_movement},
     save     |-> {[expected_revision |-> p.expected_revision, actor |-> p.actor,
                    request |-> p] : p \in pending_turn_save}]

\* checkpoint_phase: the command of the phase and what it left pending.
CheckpointPhase ==
    [reaction |-> {[expected_revision |-> p.expected_revision, intent |-> p.intent,
                    random_values |-> p.random_values, request |-> p] : p \in pending},
     slide    |-> {[expected_revision |-> state.revision, intent |-> p.intent,
                    random_values |-> p.random_values, request |-> p] :
                       p \in pending_forced_movement},
     save     |-> {[expected_revision |-> p.expected_revision, actor |-> p.actor,
                    request |-> p] : p \in pending_turn_save}]

-------------------------------------------------------------------------------
(* restore_checkpoint: state, turn, log and position are copied back. *)

\* validate_restored_encounter
ValidEncounter ==
    /\ Solvent(state)
    /\ InProgress(state) => turn.actor \in Living(state)
    /\ BoardLegal(state)
    /\ \A k \in DOMAIN log :
          /\ log[k].state_revision \in 1 .. state.revision
          /\ log[k].action \in Owned[log[k].actor] \cup {EndTurn}

\* The restored session has no phase yet when it is given the command again.
Resubmit(c) == Resolve(state, c.random_values, c.intent, "none")

RestoredReactions(phase) ==
    UNION {Reactions(c.intent, Resubmit(c), c.random_values) :
               c \in {d \in phase.reaction : /\ d.expected_revision = state.revision
                                             /\ Eligible(d.intent)}}

RestoredSlides(phase) ==
    UNION {Slides(c.intent, Resubmit(c), c.random_values) :
               c \in {d \in phase.slide : /\ d.expected_revision = state.revision
                                          /\ Eligible(d.intent)}}

RestoredTurnSaves(phase) ==
    UNION {TurnSaves :
               c \in {d \in phase.save : /\ d.expected_revision = state.revision
                                         /\ d.actor = turn.actor
                                         /\ InProgress(state)
                                         /\ turn.actor \in Living(state)}}

\* restore_phase: what the command leaves pending is what was pending.
RestorePhase(phase) ==
    /\ RestoredReactions(phase) = {c.request : c \in phase.reaction}
    /\ RestoredSlides(phase) = {c.request : c \in phase.slide}
    /\ RestoredTurnSaves(phase) = {c.request : c \in phase.save}

-------------------------------------------------------------------------------
(* Properties. *)

\* The turn was ended while a slide was waiting for its destination: the slide
\* can no longer be chosen (see OnePhase).
SlideLeftBehind ==
    \E p \in pending_forced_movement : p.authority_revision # state.revision

\* A session can be checkpointed at any moment and its checkpoint is accepted
\* and gives back the same session, whatever it is waiting for.  The moments
\* at which the session itself is already broken (see OnePhase, SlideLeftBehind
\* and CurrentActorLives) are excepted.
CheckpointRestores ==
    OnePhase /\ ~SlideLeftBehind /\ CurrentActorLives
        => ValidEncounter /\ RestorePhase(CheckpointPhase)
===============================================================================
