---------------------------- MODULE RecordedSession ----------------------------
(***************************************************************************)
(* Commands whose die values come from a random source                     *)
(* (crates/rpg-runtime/src/semantic_session.rs, the *_with_random_source_  *)
(* recorded methods; crates/rpg-runtime/src/replay.rs, record_operation).  *)
(*                                                                         *)
(* A command is tried on a snapshot of the session with the values drawn   *)
(* so far.  While it asks for more they are drawn and it is tried again;   *)
(* then it is carried out on the session itself and recorded for replay.   *)
(*                                                                         *)
(* Of the session this module keeps what these loops see: the revision,    *)
(* the random position and the three phases.  A command rolls its checks   *)
(* one by one; when one of them hits it may suspend for a decision, and    *)
(* then rolls the dice of its program in one request.  What a client is    *)
(* offered of a slide, and of a reaction to movement, is bound to the      *)
(* number of the session that offers it.                                   *)
(***************************************************************************)
EXTENDS Naturals, SequencesExt

CONSTANTS Commands,    \* [id -> [checks, decision, dice]]
          Saves,       \* save candidates of the actor, by revision
          MaxRequests, \* MAXIMUM_AUTOMATIC_RANDOM_REQUESTS
          MaxValues,   \* MAXIMUM_AUTOMATIC_RANDOM_VALUES
          MaxCalls     \* bound: the calls a host makes

Rolls == {"low", "high"}

ASSUME RecordedAssumption ==
    /\ \A id \in DOMAIN Commands :
          /\ Commands[id].checks \in Nat
          /\ Commands[id].decision \in {"none", "reaction", "movement", "slide"}
          /\ Commands[id].dice \in Nat
    /\ Saves \in [0 .. MaxCalls -> Nat]
    /\ MaxRequests \in Nat \ {0}
    /\ MaxValues \in Nat
    /\ MaxCalls \in Nat

VARIABLES
    session,    \* number, revision, accepted_random_values, pending phases
    call,       \* the automatic call in progress: {} or a singleton
    transcript, \* the replay entries returned to the host
    supplied,   \* what the source handed out to each call
    calls       \* the number of calls so far

vars == <<session, call, transcript, supplied, calls>>

Outcome(kind) == [kind |-> kind, count |-> 0]

Request(n) == [kind |-> "request", count |-> n]

-------------------------------------------------------------------------------
(* The session. *)

\* What a command makes of the evidence, before or after its decision.
Resolve(id, values, decided) ==
    LET c   == Commands[id]
        hit == c.checks = 0 \/ \E k \in 1 .. c.checks : values[k] = "high"
        all == c.checks + IF hit THEN c.dice ELSE 0
    IN  IF Len(values) < c.checks
        THEN Request(1)
        ELSE IF hit /\ c.decision # "none" /\ ~decided
        THEN Outcome(c.decision)
        ELSE IF Len(values) < all
        THEN Request(all - Len(values))
        ELSE Outcome(IF Len(values) = all THEN "accepted" ELSE "rejected")

\* Mutant: only the values of the deciding call count.
CommittedLast(s, captured, values) ==
    [s EXCEPT !.revision = @ + 1,
              !.accepted_random_values = @ + Len(values)]

\* An accepted transaction consumes all its evidence.
Committed(s, captured, values) ==
    [s EXCEPT !.revision = @ + 1,
              !.accepted_random_values = @ + Len(captured \o values)]

\* An ordinary reaction is named by its definition alone: 0.
Binding(s, id) == IF Commands[id].decision = "reaction" THEN 0 ELSE s.number

Suspend(s, id, values) ==
    [command |-> id, values |-> values, revision |-> s.revision, binding |-> Binding(s, id)]

Reject(s) == [outcome |-> Outcome("rejected"), session |-> s]

\* submit
PerformSubmit(s, id, values) ==
    LET outcome == Resolve(id, values, FALSE)
    IN  IF s.reaction # {} \/ s.slide # {} \/ s.save # {}
        THEN Reject(s)
        ELSE [outcome |-> outcome,
              session |->
                CASE outcome.kind = "accepted" -> Committed(s, <<>>, values)
                  [] outcome.kind \in {"reaction", "movement"} ->
                        [s EXCEPT !.reaction = {Suspend(s, id, values)}]
                  [] outcome.kind = "slide" -> [s EXCEPT !.slide = {Suspend(s, id, values)}]
                  [] OTHER -> s]

\* react, and resolve_forced_movement: the option has to be the one pending,
\* and the captured values come first.
PerformDecision(s, phase, binding, values) ==
    IF \/ s.save # {}
       \/ phase = "slide" /\ s.reaction # {}
       \/ \A p \in s[phase] : p.revision # s.revision \/ p.binding # binding
    THEN Reject(s)
    ELSE LET p       == CHOOSE q \in s[phase] : TRUE
             outcome == Resolve(p.command, p.values \o values, TRUE)
         IN  [outcome |-> outcome,
              session |-> IF outcome.kind = "accepted"
                          THEN [Committed(s, p.values, values) EXCEPT ![phase] = {}]
                          ELSE s]

\* control: the save phase opens without evidence and closes with one value
\* for each candidate.
PerformControl(s, values) ==
    LET candidates == Saves[s.revision]
    IN  CASE s.reaction # {} -> Reject(s)
          [] s.reaction = {} /\ s.save # {} ->
                (CASE Len(values) < candidates -> [outcome |-> Request(1), session |-> s]
                   [] Len(values) = candidates ->
                         [outcome |-> Outcome("accepted"),
                          session |-> [Committed(s, <<>>, values) EXCEPT !.save = {}]]
                   [] OTHER -> Reject(s))
          [] s.reaction = {} /\ s.save = {} ->
                (CASE values # <<>> -> Reject(s)
                   [] values = <<>> /\ candidates > 0 ->
                         [outcome |-> Outcome("save"),
                          session |-> [s EXCEPT !.save = {candidates}]]
                   [] OTHER -> [outcome |-> Outcome("accepted"),
                                session |-> Committed(s, <<>>, <<>>)])

Perform(s, op) ==
    CASE op.kind = "submit"  -> PerformSubmit(s, op.command, op.values)
      [] op.kind = "react"   -> PerformDecision(s, "reaction", op.binding, op.values)
      [] op.kind = "slide"   -> PerformDecision(s, "slide", op.binding, op.values)
      [] op.kind = "control" -> PerformControl(s, op.values)

-------------------------------------------------------------------------------
(* Recording. *)

\* What leaves the session is not bound to it.
Unbound(s) ==
    [s EXCEPT !.number = 0,
              !.reaction = {[p EXCEPT !.binding = 0] : p \in @},
              !.slide    = {[p EXCEPT !.binding = 0] : p \in @}]

\* record_operation: the entry holds the boundaries before and after.
Entry(s, op, number) ==
    [before |-> Unbound(s), operation |-> op, outcome |-> Perform(s, op).outcome,
     after |-> Unbound(Perform(s, op).session), call |-> number]

\* Mutant: the command is tried on the session itself.
TriedInPlace(op) == Perform(session, op).session

\* probe_snapshot: trying a command leaves the session as it is.
Tried(op) == session

\* Mutant: the values of a new draw take the place of the earlier ones.
ExtendedAnew(values, more) == more

\* extend_random_values
Extended(values, more) == values \o more

Fits(values, count) == count > 0 /\ Len(values) + count <= MaxValues

-------------------------------------------------------------------------------
(* Automatic calls. *)

NewCall(op, first) ==
    {[number |-> calls + 1, operation |-> op, attempts |-> 0, first |-> first]}

Operation(kind, id, binding) ==
    [kind |-> kind, command |-> id, binding |-> binding, values |-> <<>>]

\* Clients may hold the options of every session there has been.
Bindings == 0 .. session.number

\* The submit, react and resolve_forced_movement methods start their loop.
BeginLoop ==
    /\ call = {}
    /\ calls < MaxCalls
    /\ \/ \E id \in DOMAIN Commands : call' = NewCall(Operation("submit", id, 0), <<>>)
       \/ \E kind \in {"react", "slide"}, binding \in Bindings :
             call' = NewCall(Operation(kind, "none", binding), <<>>)
    /\ calls' = calls + 1
    /\ UNCHANGED <<session, transcript, supplied>>

\* control_with_random_source_recorded first ends the turn without evidence.
\* A save phase beside a slide is not recorded: its boundary has no value.
BeginControl ==
    /\ call = {}
    /\ calls < MaxCalls
    /\ session.slide # {} => Saves[session.revision] = 0
    /\ \E entry \in {Entry(session, Operation("control", "none", 0), calls + 1)} :
          /\ session' = Perform(session, entry.operation).session
          /\ IF entry.outcome.kind = "save"
             THEN /\ call' = NewCall(Operation("control", "none", 0), <<entry>>)
                  /\ UNCHANGED transcript
             ELSE /\ transcript' = Append(transcript, entry)
                  /\ UNCHANGED call
    /\ calls' = calls + 1
    /\ UNCHANGED supplied

\* The values that call "c" still asks for: none, or one request.  The saves
\* are asked for one by one without trying.
Asks(c) ==
    IF c.operation.kind = "control"
    THEN IF Len(c.operation.values) < Saves[session.revision] THEN {1} ELSE {}
    ELSE LET outcome == Perform(session, c.operation).outcome
         IN  IF outcome.kind = "request" THEN {outcome.count} ELSE {}

\* Only the loops count their attempts.
MayTry(c) == c.operation.kind = "control" \/ c.attempts < MaxRequests

\* The source supplies what was asked for.
Draw(c) ==
    /\ MayTry(c)
    /\ \E count \in Asks(c) :
          /\ Fits(c.operation.values, count)
          /\ \E more \in [1 .. count -> Rolls] :
                /\ call' = {[c EXCEPT !.attempts = @ + 1,
                                      !.operation.values = Extended(@, more)]}
                /\ supplied' = [supplied EXCEPT ![c.number] = @ \o more]
    /\ UNCHANGED <<session, transcript, calls>>

\* The source fails, or what it supplies has the wrong shape: the call
\* returns an error and no entry.
SourceFails(c) ==
    /\ MayTry(c)
    /\ \E count \in Asks(c) : Fits(c.operation.values, count)
    /\ call' = {}
    /\ UNCHANGED <<session, transcript, supplied, calls>>

\* The limits on attempts and values: an error as well.
GiveUp(c) ==
    /\ \/ ~MayTry(c)
       \/ \E count \in Asks(c) : ~Fits(c.operation.values, count)
    /\ call' = {}
    /\ UNCHANGED <<session, transcript, supplied, calls>>

\* Nothing is asked for: the command is carried out and recorded.
Finish(c) ==
    /\ MayTry(c)
    /\ Asks(c) = {}
    /\ \E s \in {Tried(c.operation)} :
          /\ session' = Perform(s, c.operation).session
          /\ transcript' = transcript \o c.first \o <<Entry(s, c.operation, c.number)>>
    /\ call' = {}
    /\ UNCHANGED <<supplied, calls>>

Session0 ==
    [number |-> 1, revision |-> 0, accepted_random_values |-> 0,
     reaction |-> {}, slide |-> {}, save |-> {}]

Init ==
    /\ session = Session0
    /\ call = {}
    /\ transcript = <<>>
    /\ supplied = [n \in 1 .. MaxCalls |-> <<>>]
    /\ calls = 0

CallNext ==
    \/ BeginLoop
    \/ BeginControl
    \/ \E c \in call : Draw(c) \/ SourceFails(c) \/ GiveUp(c) \/ Finish(c)

-------------------------------------------------------------------------------
(* Properties. *)

\* The evidence of the entries is what the source supplied to their call, in
\* its order and to the last value.
EvidenceIsSupplied ==
    \A k \in DOMAIN transcript :
        \/ transcript[k].operation.values = supplied[transcript[k].call]
        \/ transcript[k].outcome.kind = "save"

\* What an entry has used up, or captured in a pending phase.
Takes(e) ==
    IF e.outcome.kind \in {"accepted", "reaction", "movement", "slide"}
    THEN Len(e.operation.values)
    ELSE 0

\* The values taken by the entries up to each of them.
TakenUpTo(entries) ==
    LET taken[k \in 0 .. Len(entries)] ==
            IF k = 0 THEN 0 ELSE taken[k - 1] + Takes(entries[k])
    IN  taken

\* The values that a pending phase has captured.
Held(phase) == IF phase = {} THEN 0 ELSE Len((CHOOSE p \in phase : TRUE).values)

Accounted(s) == s.accepted_random_values + Held(s.reaction) + Held(s.slide)

\* The random position counts the evidence of every entry that changed the
\* session, apart from what the pending phases have captured.
PositionAccountsForEvidence == Accounted(session) = TakenUpTo(transcript)[Len(transcript)]
===============================================================================
