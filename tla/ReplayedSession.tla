---------------------------- MODULE ReplayedSession ----------------------------
(***************************************************************************)
(* A session and its host's storage: a checkpoint and the replay entries   *)
(* recorded since (crates/rpg-runtime/src/replay.rs).  After a crash, or   *)
(* in place of a live session, a session is made from what the storage     *)
(* gives back: the checkpoint is restored and the entries are replayed one *)
(* by one.  The storage may have lost, repeated or reordered entries.      *)
(*                                                                         *)
(* Artifact, Scenario, versions and hashes of a checkpoint are compared    *)
(* with what it holds itself; they agree when nobody edited it, and are    *)
(* left out.                                                               *)
(***************************************************************************)
EXTENDS RecordedSession

CONSTANT MaxNumber \* bound: no session beyond this number

VARIABLE saved \* [checkpoint, from]: entries after "from" are the journal

allVars == <<vars, saved>>

-------------------------------------------------------------------------------
(* Sessions made of sessions. *)

\* Mutant: the new session keeps what it was offered as.
ReboundNumberOnly(s, number) == [s EXCEPT !.number = number]

\* rebind_pending_session_identity
Rebound(s, number) ==
    LET bound(p) == [p EXCEPT !.binding = IF @ = 0 THEN 0 ELSE number]
    IN  [s EXCEPT !.number   = number,
                  !.reaction = {bound(p) : p \in @},
                  !.slide    = {bound(p) : p \in @}]

Failed == [ok |-> FALSE, session |-> Session0]

Made(s) == [ok |-> TRUE, session |-> s]

\* restore_phase: the pending command is carried out once more, by a clone
\* that has the number "number", and has to leave the same phase.
ProvePhase(checkpoint, number) ==
    LET baseline == [checkpoint EXCEPT !.number = number,
                        !.reaction = {}, !.slide = {}, !.save = {}]
        again    == {PerformSubmit(baseline, p.command, p.values).session :
                        p \in checkpoint.reaction \cup checkpoint.slide}
                      \cup {PerformControl(baseline, <<>>).session : c \in checkpoint.save}
    IN  IF again = {} THEN baseline ELSE CHOOSE s \in again : TRUE

\* restore_checkpoint
Restore(checkpoint, number) ==
    LET proof == ProvePhase(checkpoint, number)
    IN  IF Unbound(proof) = checkpoint
        THEN Made(Rebound(proof, number + 1))
        ELSE Failed

-------------------------------------------------------------------------------
(* Replay. *)

\* Mutant: only the evidence is compared.
SamePosition(expected, actual) ==
    expected.accepted_random_values = actual.accepted_random_values

\* compare_boundary: revision, phase, position, turn and the hash of it all.
SameBoundary(expected, actual) == expected = actual

\* The options of the recorded command are given the bindings of the session
\* that replays it.
Reissued(s, op) ==
    CASE op.kind = "react" ->
            [op EXCEPT !.binding =
                IF \E p \in s.reaction : p.binding # 0 THEN s.number ELSE @]
      [] op.kind = "slide" -> [op EXCEPT !.binding = s.number]
      [] OTHER -> op

\* replay_entry
ReplayEntry(made, e) ==
    LET s      == made.session
        result == Perform(s, Reissued(s, e.operation))
    IN  IF /\ made.ok
           /\ SameBoundary(e.before, Unbound(s))
           /\ e.outcome = result.outcome
           /\ SameBoundary(e.after, Unbound(result.session))
        THEN Made(result.session)
        ELSE Failed

\* replay: the sessions after each of the entries.
Replayed(checkpoint, entries, number) ==
    LET made[k \in 0 .. Len(entries)] ==
            IF k = 0
            THEN Restore(checkpoint, number)
            ELSE ReplayEntry(made[k - 1], entries[k])
    IN  made

Replay(checkpoint, entries, number) ==
    Replayed(checkpoint, entries, number)[Len(entries)]

-------------------------------------------------------------------------------
(* The host. *)

\* checkpoint: the entries so far are not needed any more.
TakeCheckpoint ==
    /\ call = {}
    /\ saved' = [checkpoint |-> Unbound(session), from |-> Len(transcript)]
    /\ UNCHANGED vars

Journal == SubSeq(transcript, saved.from + 1, Len(transcript))

\* What the storage gives back of a journal: its beginning, or all but one
\* entry, one entry twice, or two neighbours in the wrong order.
Stored(journal) ==
    LET n == Len(journal)
    IN  {SubSeq(journal, 1, k) : k \in 0 .. n}
          \cup {RemoveAt(journal, k) : k \in 1 .. n}
          \cup {InsertAt(journal, k, journal[k]) : k \in 1 .. n}
          \cup {InsertAt(RemoveAt(journal, k), k + 1, journal[k]) : k \in 1 .. n - 1}

\* A new session takes over, after a crash at any point of a call or by
\* replay_into and replace_from_checkpoint.  When the replay fails the old
\* session, if it lives, stays as it is.
ReplayInto(journal) ==
    /\ session.number + 2 <= MaxNumber
    /\ \E made \in {Replay(saved.checkpoint, journal, session.number + 1)} :
          /\ made.ok
          /\ session' = made.session
    /\ call' = {}
    /\ transcript' = SubSeq(transcript, 1, saved.from) \o journal
    /\ UNCHANGED <<supplied, calls, saved>>

\* The host goes on with a clone of the session.
Clone ==
    /\ call = {}
    /\ session.number < MaxNumber
    /\ session' = Rebound(session, session.number + 1)
    /\ UNCHANGED <<call, transcript, supplied, calls, saved>>

ReplayedInit ==
    /\ Init
    /\ saved = [checkpoint |-> Unbound(Session0), from |-> 0]

ReplayedNext ==
    \/ CallNext /\ UNCHANGED saved
    \/ TakeCheckpoint
    \/ \E journal \in Stored(Journal) : ReplayInto(journal)
    \/ Clone

ReplayedSpec == ReplayedInit /\ [][ReplayedNext]_allVars

-------------------------------------------------------------------------------
(* Properties. *)

\* The entries of the journal that changed the session, up to each of them.
EffectiveUpTo(journal) ==
    LET kept[k \in 0 .. Len(journal)] ==
            IF k = 0
            THEN <<>>
            ELSE IF journal[k].before # journal[k].after
            THEN Append(kept[k - 1], journal[k])
            ELSE kept[k - 1]
    IN  kept

Effective(journal) == EffectiveUpTo(journal)[Len(journal)]

\* The save phase that a control opened before its source failed has no entry.
Gap(journal) ==
    LET ends == Append([k \in DOMAIN journal |-> journal[k].before], Unbound(session))
    IN  \E k \in DOMAIN journal \cup {0} :
           LET start == IF k = 0 THEN saved.checkpoint ELSE journal[k].after
           IN  /\ start.save = {}
               /\ ends[k + 1] = [start EXCEPT !.save = {Saves[start.revision]}]

\* A decision on an option of another session, which was rejected.
Stale(e) ==
    /\ e.operation.kind \in {"react", "slide"}
    /\ e.outcome.kind = "rejected"
    /\ \E p \in e.before.reaction \cup e.before.slide :
          Commands[p.command].decision # "reaction"

\* A control beside a slide leaves the slide behind (see OnePhase of
\* AuthoritySession): no option fits it, and no checkpoint holds it.
LeftBehind(s) == \E p \in s.slide : p.revision # s.revision

\* The journal is all there is to make the session from.
Complete == call = {} /\ ~Gap(Journal) /\ ~LeftBehind(saved.checkpoint)

\* The checkpoint and the entries a host was given since make the very
\* session they were recorded from, whatever it is waiting for.
JournalReplays ==
    Complete /\ (\A k \in DOMAIN Journal : ~Stale(Journal[k])) =>
        LET made == Replay(saved.checkpoint, Journal, session.number)
        IN  made.ok /\ Unbound(made.session) = Unbound(session)

\* Entries of rejected commands replay like the others
\* (docs/encounter-session-contract.md, "Replay invokes ordinary
\* submit/reaction/forced-movement/turn-control paths with recorded evidence").
RejectionsReplay ==
    Complete => Replay(saved.checkpoint, Journal, session.number).ok

\* Whatever a storage gives back, a replay that succeeds takes the session to
\* a moment of its own past: no transaction is left out, repeated or carried
\* out before another.
RecoveryIsHistorical ==
    [][session'.number > session.number /\ transcript' # transcript =>
         LET replayed == SubSeq(transcript', saved.from + 1, Len(transcript'))
         IN  IsPrefix(Effective(replayed), Effective(Journal))]_allVars

\* A pending decision is made with the option its session offers and with no
\* other: not with one that an earlier session, the original of a clone or
\* the proof of a restore has offered.
OptionsAnswerable ==
    \A phase \in {"reaction", "slide"} : \A p \in session[phase] :
        session.save = {} /\ ~LeftBehind(session) =>
            LET own == IF Commands[p.command].decision = "reaction" THEN 0 ELSE session.number
            IN  \A binding \in 0 .. MaxNumber :
                   (binding = own) <=>
                      PerformDecision(session, phase, binding, <<>>).outcome.kind # "rejected"
===============================================================================
