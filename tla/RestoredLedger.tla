----------------------------- MODULE RestoredLedger -----------------------------
(***************************************************************************)
(* The ledger across a crash: what a checkpoint writes of effects,         *)
(* modifiers and spatial sources, and the checks it has to pass on its way *)
(* back (crates/rpg-runtime/src/replay.rs, crates/rpg-core/src/            *)
(* authority.rs, crates/rpg-runtime/src/encounter.rs).                     *)
(*                                                                         *)
(* A checkpoint repeats, beside each instance, what its definition says of *)
(* it; the definitions come from the artifact in the checkpoint.           *)
(***************************************************************************)
EXTENDS TransitionLedger

\* What a definition says of its instances.
Contract(d) == [stacking_id |-> d.stacking_id, stacking |-> d.stacking, anchor |-> d.anchor]

\* portable_state
PortableEffects(s) ==
    UNION {{[target |-> p, instance |-> e, contract |-> Contract(EffectDefinitions[e.definition])] :
               e \in s.effects[p]} : p \in Participants}

PortableSources(s) ==
    {[instance |-> e, contract |-> Contract(SourceDefinitions[e.definition])] : e \in s.sources}

-------------------------------------------------------------------------------
(* ActiveRpgEffect::restore, ActiveRpgSpatialSource::restore, restore_state. *)

EffectRestores(s, e) ==
    /\ e.remaining > 0
    /\ e.application_revision \in 1 .. s.revision

SourceRestores(s, e) ==
    /\ e.remaining > 0
    /\ e.application_revision \in 1 .. s.revision
    /\ e.trigger_revision \in 0 .. s.revision
    /\ e.trigger_revision = 0 => e.trigger_keys = {}
    /\ Cardinality(e.trigger_keys) <= MaximumKeys
    /\ e.cells # {}

\* One modifier of a group, and as many effects and sources as there may be.
StateRestores(s) ==
    /\ \A p \in PortableEffects(s) : EffectRestores(s, p.instance)
    /\ \A p \in PortableSources(s) : SourceRestores(s, p.instance)
    /\ \A p \in Participants :
          /\ Cardinality(s.effects[p]) <= MaximumActive
          /\ \A m \in s.modifiers[p] : m.remaining > 0
          /\ \A m, n \in s.modifiers[p] :
                Modifiers[m.id].stacking_group = Modifiers[n.id].stacking_group => m = n
    /\ Cardinality(s.sources) <= MaximumActive

-------------------------------------------------------------------------------
(* The restored state against the definitions. *)

\* What may not be shared: the stacking identity, with the source where the
\* instances of several sources are independent.
StackKey(p) ==
    <<p.contract.stacking_id,
      IF p.contract.stacking = "independentBySource" THEN {p.instance.source} ELSE {}>>

Unshared(portables) == \A p, q \in portables : StackKey(p) = StackKey(q) => p = q

\* validate_portable_effect_tenure, validate_portable_spatial_sources and
\* validate_derived_state
ContractsHold(s) ==
    /\ \A p \in PortableEffects(s) :
          p.instance.remaining <= EffectDefinitions[p.instance.definition].count
    /\ \A p \in PortableSources(s) :
          p.instance.remaining <= SourceDefinitions[p.instance.definition].count
    /\ \A target \in Participants :
          Unshared({p \in PortableEffects(s) : p.target = target})
    /\ Unshared(PortableSources(s))

\* validate_restored_encounter: the diamond of a source over the board.
GeometryHolds(s) ==
    \A e \in s.sources :
        e.cells = {c \in Cells : Distance(e.origin, c)
                                   <= SourceDefinitions[e.definition].radius}

\* validate_restored_encounter: the turn.
TurnRestores(s) == InProgress(s) => turn.actor \in Living(s)

-------------------------------------------------------------------------------
(* Properties. *)

\* A session that crashes after any command finds its checkpoint accepted: no
\* sequence of applications, ageing and triggers leaves a count, a revision,
\* a set of keys, a stack or a shape that a restore refuses.  Under
\* the variable economy a trigger may kill the participant in its own turn,
\* and that checkpoint is refused (see CurrentActorLives of AuthoritySession).
LedgerRestores ==
    /\ TypeOK
    /\ StateRestores(state)
    /\ ContractsHold(state)
    /\ GeometryHolds(state)
    /\ rules.economy = "fixed" => TurnRestores(state)
===============================================================================
