------------------------ MODULE ReplayedSession_proofs ------------------------
(***************************************************************************)
(* What the recorded evidence guarantees across draws, suspensions,        *)
(* crashes, clones and replays of whatever a storage gives back, and what  *)
(* a host can make of its checkpoint and its entries again, for every set  *)
(* of commands and all limits.                                             *)
(***************************************************************************)
EXTENDS ReplayedSession, SequenceTheorems, WellFoundedInduction, TLAPS

-------------------------------------------------------------------------------
(* Types. *)

Pendings ==
    [command : DOMAIN Commands, values : Seq(Rolls), revision : Nat, binding : Nat]

\* Each phase holds one command at most.
Phases == {{}} \cup {{p} : p \in Pendings}

\* The saves are whatever Saves says of a revision.
Sessions ==
    [number : Nat, revision : Nat, accepted_random_values : Nat,
     reaction : Phases, slide : Phases, save : {{}} \cup {{Saves[r]} : r \in Nat}]

Kinds ==
    {"accepted", "rejected", "request", "reaction", "movement", "slide", "save"}

Outcomes == [kind : Kinds, count : Nat]

Operations ==
    [kind : {"submit", "react", "slide", "control"}, command : DOMAIN Commands \cup {"none"},
     binding : Nat, values : Seq(Rolls)]

Entries ==
    [before : Sessions, operation : Operations, outcome : Outcomes, after : Sessions,
     call : Nat]

-------------------------------------------------------------------------------
(* What is pending can be decided. *)

Hits(id, values) ==
    \/ Commands[id].checks = 0
    \/ \E k \in 1 .. Commands[id].checks : values[k] = "high"

\* The values of a command that may suspend are never more than its checks.
Measured(id, values) ==
    Commands[id].decision # "none" => Len(values) <= Commands[id].checks

Legal(op) ==
    op.kind = "submit" => op.command \in DOMAIN Commands /\ Measured(op.command, op.values)

\* A suspended command has rolled its checks, one of which hit, and nothing more.
Captured(s, p) ==
    /\ Len(p.values) = Commands[p.command].checks
    /\ Hits(p.command, p.values)
    /\ p.binding = Binding(s, p.command)

\* What a session offers is its own.  A reaction keeps the revision where it
\* is; a slide may be left behind by a control.
Offers(s) ==
    /\ \A p \in s.reaction :
          /\ Commands[p.command].decision \in {"reaction", "movement"}
          /\ Captured(s, p)
          /\ p.revision = s.revision
    /\ \A p \in s.slide : Commands[p.command].decision = "slide" /\ Captured(s, p)
    /\ s.reaction # {} => s.slide = {}

\* What an operation with some outcome takes from the evidence.
Takings(outcome, values) ==
    IF outcome.kind \in {"accepted", "reaction", "movement", "slide"} THEN Len(values) ELSE 0

-------------------------------------------------------------------------------
(* One operation. *)

\* Resolve asks for one check at a time, then for all the rest of the dice; it
\* suspends only an undecided command that has hit.
LEMMA ResolveOutcomes ==
    ASSUME NEW id \in DOMAIN Commands, NEW values \in Seq(Rolls), NEW decided \in BOOLEAN
    PROVE  LET r == Resolve(id, values, decided)
               c == Commands[id]
           IN  /\ r \in Outcomes
               /\ r.kind # "save"
               /\ r.kind \in {"reaction", "movement", "slide"} =>
                     /\ ~decided
                     /\ r.kind = c.decision
                     /\ Hits(id, values)
                     /\ Len(values) >= c.checks
               /\ r.kind = "request" /\ ~decided /\ Measured(id, values) =>
                     (c.decision # "none" => Len(values) + r.count <= c.checks)
<1> DEFINE hit == Commands[id].checks = 0 \/ \E k \in 1 .. Commands[id].checks : values[k] = "high"
           all == Commands[id].checks + IF hit THEN Commands[id].dice ELSE 0
<1>1. /\ Commands[id].checks \in Nat
      /\ Commands[id].decision \in {"none", "reaction", "movement", "slide"}
      /\ Len(values) \in Nat
      /\ all \in Nat
      /\ ~hit => all = Commands[id].checks
      /\ hit <=> Hits(id, values)
    BY RecordedAssumption DEF Hits
<1>2. Resolve(id, values, decided) =
         IF Len(values) < Commands[id].checks
         THEN Request(1)
         ELSE IF hit /\ Commands[id].decision # "none" /\ ~decided
         THEN Outcome(Commands[id].decision)
         ELSE IF Len(values) < all
         THEN Request(all - Len(values))
         ELSE Outcome(IF Len(values) = all THEN "accepted" ELSE "rejected")
    BY DEF Resolve
<1>3. Measured(id, values) = (Commands[id].decision # "none" => Len(values) <= Commands[id].checks)
    BY DEF Measured
<1> HIDE DEF hit, all
<1>4. CASE Len(values) < Commands[id].checks
    BY <1>1, <1>2, <1>4 DEF Request, Outcomes, Kinds
<1>5. CASE ~(Len(values) < Commands[id].checks) /\ hit /\ Commands[id].decision # "none" /\ ~decided
    BY <1>1, <1>2, <1>5 DEF Outcome, Outcomes, Kinds
<1>6. CASE ~(Len(values) < Commands[id].checks) /\ ~(hit /\ Commands[id].decision # "none" /\ ~decided)
    BY <1>1, <1>2, <1>3, <1>6 DEF Request, Outcome, Outcomes, Kinds
<1> QED
    BY <1>4, <1>5, <1>6

\* Decided, a suspended command rolls its dice or is accepted at once.
LEMMA DecisionsGoOn ==
    ASSUME NEW id \in DOMAIN Commands, NEW values \in Seq(Rolls),
           Len(values) = Commands[id].checks, Hits(id, values)
    PROVE  Resolve(id, values, TRUE).kind \in {"request", "accepted"}
BY RecordedAssumption DEF Resolve, Hits, Request, Outcome

\* A transaction adds its evidence to the position and changes no phase.
LEMMA CommittedFields ==
    ASSUME NEW s \in Sessions, NEW captured \in Seq(Rolls), NEW values \in Seq(Rolls)
    PROVE  LET r == Committed(s, captured, values)
           IN  /\ r \in Sessions
               /\ r.number = s.number
               /\ r.reaction = s.reaction
               /\ r.slide = s.slide
               /\ r.save = s.save
               /\ r.accepted_random_values = s.accepted_random_values + Len(captured) + Len(values)
<1>1. Len(captured \o values) = Len(captured) + Len(values)
    BY ConcatProperties
<1>2. /\ Len(captured) \in Nat
      /\ Len(values) \in Nat
      /\ s.revision \in Nat
      /\ s.accepted_random_values \in Nat
    BY LenProperties DEF Sessions
<1>3. s.accepted_random_values + (Len(captured) + Len(values))
         = s.accepted_random_values + Len(captured) + Len(values)
    BY <1>2
<1>4. Committed(s, captured, values) =
         [s EXCEPT !.revision = s.revision + 1,
                   !.accepted_random_values = s.accepted_random_values + Len(captured) + Len(values)]
    BY <1>1, <1>3 DEF Committed
<1>5. s.accepted_random_values + Len(captured) + Len(values) \in Nat
    BY <1>2
<1> DEFINE r == Committed(s, captured, values)
           x == s.revision + 1
           y == s.accepted_random_values + Len(captured) + Len(values)
<1>6. x \in Nat /\ y \in Nat /\ r = [s EXCEPT !.revision = x, !.accepted_random_values = y]
    BY <1>2, <1>4, <1>5
<1> HIDE DEF r, x, y
<1>7. r \in Sessions /\ r.number = s.number /\ r.reaction = s.reaction
      /\ r.slide = s.slide /\ r.save = s.save /\ r.accepted_random_values = y
    BY <1>6 DEF Sessions
<1> QED
    BY <1>6, <1>7 DEF r, x, y

\* An empty phase holds no values, another one those of its command.
LEMMA HeldValues ==
    /\ Held({}) = 0
    /\ \A p \in Pendings : Held({p}) = Len(p.values) /\ Len(p.values) \in Nat
<1>1. ASSUME NEW p \in Pendings
      PROVE  (CHOOSE q \in {p} : TRUE) = p
    OBVIOUS
<1> QED
    BY <1>1, LenProperties DEF Held, Pendings

\* What is suspended is typed, captured, and bound to its session.
LEMMA SuspendedCommand ==
    ASSUME NEW s \in Sessions, NEW id \in DOMAIN Commands, NEW values \in Seq(Rolls),
           Measured(id, values), Len(values) >= Commands[id].checks, Hits(id, values),
           Commands[id].decision # "none"
    PROVE  LET p == Suspend(s, id, values)
           IN  /\ p \in Pendings
               /\ Captured(s, p)
               /\ p.command = id
               /\ p.values = values
               /\ p.revision = s.revision
<1>1. /\ Commands[id].checks \in Nat
      /\ Len(values) \in Nat
    BY RecordedAssumption
<1>2. Len(values) = Commands[id].checks
    BY <1>1 DEF Measured
<1>3. Binding(s, id) \in Nat
    BY DEF Binding, Sessions
<1> QED
    BY <1>2, <1>3 DEF Suspend, Pendings, Captured, Sessions

\* What an operation does to what a session offers and has used up.
Sound(s, values, r) ==
    /\ r.session \in Sessions
    /\ Offers(r.session)
    /\ r.session.number = s.number
    /\ r.outcome \in Outcomes
    /\ Accounted(r.session) = Accounted(s) + Takings(r.outcome, values)

\* What an account is made of.
LEMMA AccountedType ==
    ASSUME NEW s \in Sessions
    PROVE  /\ s.accepted_random_values \in Nat
           /\ Held(s.reaction) \in Nat
           /\ Held(s.slide) \in Nat
           /\ Accounted(s) \in Nat
<1>1. \A phase \in Phases : Held(phase) \in Nat
    BY HeldValues DEF Phases
<1>2. s.accepted_random_values \in Nat /\ s.reaction \in Phases /\ s.slide \in Phases
    BY DEF Sessions
<1> QED
    BY <1>1, <1>2 DEF Accounted

\* An operation that leaves the session as it is takes nothing.
LEMMA NothingTaken ==
    ASSUME NEW s \in Sessions, Offers(s), NEW values, NEW r,
           r.session = s, r.outcome \in Outcomes,
           r.outcome.kind \in {"rejected", "request", "save"}
    PROVE  Sound(s, values, r)
BY AccountedType DEF Sound, Takings

\* submit
LEMMA SubmitSound ==
    ASSUME NEW s \in Sessions, Offers(s), NEW id \in DOMAIN Commands,
           NEW values \in Seq(Rolls), Measured(id, values)
    PROVE  Sound(s, values, PerformSubmit(s, id, values))
<1> DEFINE r       == PerformSubmit(s, id, values)
           outcome == Resolve(id, values, FALSE)
<1>1. CASE s.reaction # {} \/ s.slide # {} \/ s.save # {}
  <2>1. r.session = s /\ r.outcome = Outcome("rejected")
      BY <1>1 DEF PerformSubmit, Reject
  <2> QED
      BY <2>1, NothingTaken DEF Outcome, Outcomes, Kinds
<1>2. CASE ~(s.reaction # {} \/ s.slide # {} \/ s.save # {})
  <2>1. /\ outcome \in Outcomes
        /\ outcome.kind # "save"
        /\ outcome.kind \in {"reaction", "movement", "slide"} =>
              /\ outcome.kind = Commands[id].decision
              /\ Hits(id, values)
              /\ Len(values) >= Commands[id].checks
      BY ResolveOutcomes
  <2>2. s.reaction = {} /\ s.slide = {} /\ s.save = {}
      BY <1>2
  <2>3. r.outcome = outcome
      BY <1>2 DEF PerformSubmit
  <2>4. Len(values) \in Nat /\ s.accepted_random_values \in Nat
      BY AccountedType
  <2>5. Accounted(s) = s.accepted_random_values
      BY <2>2, <2>4, HeldValues DEF Accounted
  <2>6. CASE outcome.kind = "accepted"
    <3>1. r.session = Committed(s, <<>>, values)
        BY <1>2, <2>6 DEF PerformSubmit
    <3> DEFINE none == <<>>
               u    == Committed(s, none, values)
    <3>2. none \in Seq(Rolls) /\ Len(none) = 0
        OBVIOUS
    <3> HIDE DEF none
    <3>6. /\ u \in Sessions
          /\ u.number = s.number
          /\ u.reaction = s.reaction /\ u.slide = s.slide
          /\ u.accepted_random_values = s.accepted_random_values + Len(none) + Len(values)
        BY <3>2, CommittedFields
    <3> HIDE DEF u
    <3>3. /\ u \in Sessions
          /\ u.number = s.number
          /\ u.reaction = {} /\ u.slide = {}
          /\ u.accepted_random_values = s.accepted_random_values + Len(values)
        BY <2>2, <2>4, <3>2, <3>6
    <3>4. Accounted(u) = s.accepted_random_values + Len(values)
        BY <2>4, <3>3, HeldValues DEF Accounted
    <3>5. Offers(u)
        BY <3>3 DEF Offers
    <3> HIDE DEF r, outcome
    <3>7. Sound(s, values, r)
        BY <2>1, <2>3, <2>4, <2>5, <2>6, <3>1, <3>3, <3>4, <3>5 DEF Sound, Takings, u, none
    <3> QED
        BY <3>7 DEF r
  <2>7. CASE outcome.kind \in {"reaction", "movement"}
    <3>1. r.session = [s EXCEPT !.reaction = {Suspend(s, id, values)}]
        BY <1>2, <2>7 DEF PerformSubmit
    <3> DEFINE p == Suspend(s, id, values)
               u == [s EXCEPT !.reaction = {p}]
    <3> HIDE DEF r, outcome
    <3>9. /\ Commands[id].decision # "none"
          /\ Hits(id, values)
          /\ Len(values) >= Commands[id].checks
        BY <2>1, <2>7
    <3>2. /\ p \in Pendings /\ Captured(s, p) /\ p.command = id
          /\ p.values = values /\ p.revision = s.revision
        BY <3>9, SuspendedCommand
    <3> HIDE DEF p
    <3>3. /\ u \in Sessions
          /\ u.number = s.number /\ u.revision = s.revision
          /\ u.reaction = {p} /\ u.slide = {}
          /\ u.accepted_random_values = s.accepted_random_values
        BY <2>2, <3>2 DEF Sessions, Phases
    <3>4. r.session = u
        BY <3>1 DEF p
    <3> HIDE DEF u
    <3>5. Accounted(u) = s.accepted_random_values + Len(values)
        BY <2>4, <3>2, <3>3, HeldValues DEF Accounted
    <3>6. Captured(u, p)
        BY <3>2, <3>3 DEF Captured, Binding
    <3>7. Offers(u)
        BY <2>1, <2>7, <3>2, <3>3, <3>6 DEF Offers
    <3>8. Sound(s, values, r)
        BY <2>1, <2>3, <2>4, <2>5, <2>7, <3>3, <3>4, <3>5, <3>7 DEF Sound, Takings
    <3> QED
        BY <3>8 DEF r
  <2>8. CASE outcome.kind = "slide"
    <3>1. r.session = [s EXCEPT !.slide = {Suspend(s, id, values)}]
        BY <1>2, <2>8 DEF PerformSubmit
    <3> DEFINE p == Suspend(s, id, values)
               u == [s EXCEPT !.slide = {p}]
    <3> HIDE DEF r, outcome
    <3>9. /\ Commands[id].decision # "none"
          /\ Hits(id, values)
          /\ Len(values) >= Commands[id].checks
        BY <2>1, <2>8
    <3>2. /\ p \in Pendings /\ Captured(s, p) /\ p.command = id
          /\ p.values = values /\ p.revision = s.revision
        BY <3>9, SuspendedCommand
    <3> HIDE DEF p
    <3>3. /\ u \in Sessions
          /\ u.number = s.number /\ u.revision = s.revision
          /\ u.reaction = {} /\ u.slide = {p}
          /\ u.accepted_random_values = s.accepted_random_values
        BY <2>2, <3>2 DEF Sessions, Phases
    <3>4. r.session = u
        BY <3>1 DEF p
    <3> HIDE DEF u
    <3>5. Accounted(u) = s.accepted_random_values + Len(values)
        BY <2>4, <3>2, <3>3, HeldValues DEF Accounted
    <3>6. Captured(u, p)
        BY <3>2, <3>3 DEF Captured, Binding
    <3>7. Offers(u)
        BY <2>1, <2>8, <3>2, <3>3, <3>6 DEF Offers
    <3>8. Sound(s, values, r)
        BY <2>1, <2>3, <2>4, <2>5, <2>8, <3>3, <3>4, <3>5, <3>7 DEF Sound, Takings
    <3> QED
        BY <3>8 DEF r
  <2>9. CASE outcome.kind \in {"rejected", "request"}
    <3>1. r.session = s
        BY <1>2, <2>9 DEF PerformSubmit
    <3> HIDE DEF r, outcome
    <3>2. Sound(s, values, r)
        BY <2>1, <2>3, <2>9, <3>1, NothingTaken
    <3> QED
        BY <3>2 DEF r
  <2>10. outcome.kind \in Kinds \ {"save"}
      BY <2>1 DEF Outcomes
  <2> HIDE DEF outcome
  <2> QED
      BY <2>6, <2>7, <2>8, <2>9, <2>10 DEF Kinds
<1> QED
    BY <1>1, <1>2

\* react and resolve_forced_movement
LEMMA DecisionSound ==
    ASSUME NEW s \in Sessions, Offers(s), NEW phase \in {"reaction", "slide"},
           NEW binding, NEW values \in Seq(Rolls)
    PROVE  Sound(s, values, PerformDecision(s, phase, binding, values))
<1> DEFINE r == PerformDecision(s, phase, binding, values)
           stopped == \/ s.save # {}
                      \/ phase = "slide" /\ s.reaction # {}
                      \/ \A p \in s[phase] : p.revision # s.revision \/ p.binding # binding
<1>1. CASE stopped
  <2>1. r.session = s /\ r.outcome = Outcome("rejected")
      BY <1>1 DEF PerformDecision, Reject
  <2> QED
      BY <2>1, NothingTaken DEF Outcome, Outcomes, Kinds
<1>2. CASE ~stopped
  <2>1. s[phase] \in Phases /\ s[phase] # {}
    <3>1. s["reaction"] = s.reaction /\ s["slide"] = s.slide
        OBVIOUS
    <3> QED
        BY <1>2, <3>1 DEF Sessions
  <2>2. PICK p \in Pendings : s[phase] = {p}
      BY <2>1 DEF Phases
  <2>3. (CHOOSE q \in s[phase] : TRUE) = p
      BY <2>2
  <2> DEFINE outcome == Resolve(p.command, p.values \o values, TRUE)
  <2>4. /\ p.command \in DOMAIN Commands
        /\ p.values \in Seq(Rolls)
        /\ p.values \o values \in Seq(Rolls)
        /\ Len(p.values) \in Nat /\ Len(values) \in Nat
      BY ConcatProperties, LenProperties DEF Pendings
  <2>5. outcome \in Outcomes /\ outcome.kind \in {"accepted", "rejected", "request"}
    <3>1. outcome \in Outcomes /\ outcome.kind \notin {"save", "reaction", "movement", "slide"}
        BY <2>4, ResolveOutcomes
    <3> HIDE DEF outcome
    <3> QED
        BY <3>1 DEF Outcomes, Kinds
  <2>6. r = [outcome |-> outcome,
             session |-> IF outcome.kind = "accepted"
                         THEN [Committed(s, p.values, values) EXCEPT ![phase] = {}]
                         ELSE s]
      BY <1>2, <2>3 DEF PerformDecision
  <2> DEFINE u == Committed(s, p.values, values)
             v == [u EXCEPT ![phase] = {}]
  <2>7. /\ u \in Sessions
        /\ u.number = s.number
        /\ u.reaction = s.reaction /\ u.slide = s.slide /\ u.save = s.save
        /\ u.accepted_random_values = s.accepted_random_values + Len(p.values) + Len(values)
      BY <2>4, CommittedFields
  <2> HIDE DEF u, outcome, r
  <2>8. CASE outcome.kind = "accepted"
    <3>1. /\ phase = "reaction" => s.reaction = {p} /\ s.slide = {}
          /\ phase = "slide" => s.slide = {p} /\ s.reaction = {}
        BY <1>2, <2>2 DEF Offers
    <3>2. /\ v \in Sessions
          /\ v.number = s.number
          /\ v.reaction = {} /\ v.slide = {}
          /\ v.accepted_random_values = u.accepted_random_values
      <4>1. CASE phase = "reaction"
          BY <2>7, <3>1, <4>1 DEF Sessions, Phases
      <4>2. CASE phase = "slide"
          BY <2>7, <3>1, <4>2 DEF Sessions, Phases
      <4> QED
          BY <4>1, <4>2
    <3>3. r.session = v /\ r.outcome = outcome
        BY <2>6, <2>8 DEF u
    <3> HIDE DEF v
    <3>4. Offers(v)
        BY <3>2 DEF Offers
    <3>5. Accounted(v) = s.accepted_random_values + Len(p.values) + Len(values)
        BY <2>4, <2>7, <3>2, AccountedType, HeldValues DEF Accounted
    <3>6. Accounted(s) = s.accepted_random_values + Len(p.values)
      <4>1. Held({p}) = Len(p.values) /\ Held({}) = 0 /\ s.accepted_random_values \in Nat
          BY HeldValues, AccountedType
      <4>2. \/ Held(s.reaction) = Len(p.values) /\ Held(s.slide) = 0
            \/ Held(s.slide) = Len(p.values) /\ Held(s.reaction) = 0
        <5>1. \/ s.reaction = {p} /\ s.slide = {}
              \/ s.slide = {p} /\ s.reaction = {}
            BY <3>1
        <5> QED
            BY <4>1, <5>1
      <4>3. Accounted(s) = s.accepted_random_values + Held(s.reaction) + Held(s.slide)
          BY DEF Accounted
      <4> QED
          BY <2>4, <4>1, <4>2, <4>3
    <3>7. Sound(s, values, r)
        BY <2>4, <2>5, <2>8, <3>2, <3>3, <3>4, <3>5, <3>6, AccountedType DEF Sound, Takings
    <3> QED
        BY <3>7 DEF r
  <2>9. CASE outcome.kind # "accepted"
    <3>1. r.session = s /\ r.outcome = outcome
        BY <2>6, <2>9
    <3>2. Sound(s, values, r)
        BY <2>5, <2>9, <3>1, NothingTaken
    <3> QED
        BY <3>2 DEF r
  <2> QED
      BY <2>8, <2>9
<1> QED
    BY <1>1, <1>2

\* control and resolve_pending_turn_save
LEMMA ControlSound ==
    ASSUME NEW s \in Sessions, Offers(s), NEW values \in Seq(Rolls)
    PROVE  Sound(s, values, PerformControl(s, values))
<1> DEFINE r == PerformControl(s, values)
           none == <<>>
           n == Saves[s.revision]
           u == Committed(s, none, values)
<1>1. none \in Seq(Rolls) /\ Len(none) = 0 /\ Len(values) \in Nat /\ s.revision \in Nat
    BY LenProperties DEF Sessions
<1>2. /\ u \in Sessions
      /\ u.number = s.number
      /\ u.reaction = s.reaction /\ u.slide = s.slide
      /\ u.accepted_random_values = s.accepted_random_values + Len(none) + Len(values)
    <2> HIDE DEF none
    <2> QED
        BY <1>1, CommittedFields
<1>3. CASE s.reaction # {}
  <2>1. r.session = s /\ r.outcome = Outcome("rejected")
      BY <1>3 DEF PerformControl, Reject
  <2> QED
      BY <2>1, NothingTaken DEF Outcome, Outcomes, Kinds
<1>4. CASE s.reaction = {} /\ s.save # {}
  <2>1. r = (CASE Len(values) < n -> [outcome |-> Request(1), session |-> s]
               [] Len(values) = n -> [outcome |-> Outcome("accepted"),
                                      session |-> [u EXCEPT !.save = {}]]
               [] OTHER -> Reject(s))
      BY <1>4 DEF PerformControl
  <2> HIDE DEF r, u
  <2>2. CASE Len(values) < n
    <3>1. r.session = s /\ r.outcome = Request(1)
        BY <2>1, <2>2, <1>1
    <3>2. Sound(s, values, r)
        BY <3>1, NothingTaken DEF Request, Outcomes, Kinds
    <3> QED
        BY <3>2 DEF r
  <2>3. CASE ~(Len(values) < n) /\ Len(values) = n
    <3>1. r.session = [u EXCEPT !.save = {}] /\ r.outcome = Outcome("accepted")
        BY <2>1, <2>3, <1>1
    <3>2. /\ r.session \in Sessions
          /\ r.session.number = s.number
          /\ r.session.reaction = s.reaction /\ r.session.slide = s.slide
          /\ r.session.accepted_random_values = u.accepted_random_values
        BY <1>2, <3>1 DEF Sessions
    <3>3. r.outcome \in Outcomes /\ r.outcome.kind = "accepted"
        BY <3>1 DEF Outcome, Outcomes, Kinds
    <3>4. Offers(r.session)
        BY <1>4, <3>2 DEF Offers, Captured, Binding
    <3>5. Accounted(r.session) = Accounted(s) + Len(values)
        BY <1>1, <1>2, <3>2, AccountedType DEF Accounted
    <3>6. Sound(s, values, r)
        BY <3>2, <3>3, <3>4, <3>5 DEF Sound, Takings
    <3> QED
        BY <3>6 DEF r
  <2>4. CASE ~(Len(values) < n) /\ Len(values) # n
    <3>1. r.session = s /\ r.outcome = Outcome("rejected")
        BY <2>1, <2>4 DEF Reject
    <3>2. Sound(s, values, r)
        BY <3>1, NothingTaken DEF Outcome, Outcomes, Kinds
    <3> QED
        BY <3>2 DEF r
  <2> QED
      BY <2>2, <2>3, <2>4
<1>5. CASE s.reaction = {} /\ s.save = {}
  <2>1. r = (CASE values # <<>> -> Reject(s)
               [] values = <<>> /\ n > 0 -> [outcome |-> Outcome("save"),
                                             session |-> [s EXCEPT !.save = {n}]]
               [] OTHER -> [outcome |-> Outcome("accepted"), session |-> Committed(s, none, none)])
      BY <1>5 DEF PerformControl
  <2> HIDE DEF r, u
  <2>2. CASE values # <<>>
    <3>1. r.session = s /\ r.outcome = Outcome("rejected")
        BY <2>1, <2>2 DEF Reject
    <3>2. Sound(s, values, r)
        BY <3>1, NothingTaken DEF Outcome, Outcomes, Kinds
    <3> QED
        BY <3>2 DEF r
  <2>3. CASE values = <<>> /\ n > 0
    <3>1. r.session = [s EXCEPT !.save = {n}] /\ r.outcome = Outcome("save")
        BY <2>1, <2>3
    <3>2. /\ r.session \in Sessions
          /\ r.session.number = s.number
          /\ r.session.reaction = s.reaction /\ r.session.slide = s.slide
          /\ r.session.revision = s.revision
          /\ r.session.accepted_random_values = s.accepted_random_values
        BY <1>1, <3>1 DEF Sessions
    <3>3. r.outcome \in Outcomes /\ r.outcome.kind = "save"
        BY <3>1 DEF Outcome, Outcomes, Kinds
    <3>4. Sound(s, values, r)
        BY <3>2, <3>3, AccountedType
           DEF Sound, Takings, Accounted, Offers, Captured, Binding
    <3> QED
        BY <3>4 DEF r
  <2>4. CASE values = <<>> /\ ~(n > 0)
    <3>1. r.session = u /\ r.outcome = Outcome("accepted")
        BY <2>1, <2>4 DEF u
    <3>2. r.outcome \in Outcomes /\ r.outcome.kind = "accepted"
        BY <3>1 DEF Outcome, Outcomes, Kinds
    <3>3. Offers(r.session)
        BY <1>2, <1>5, <3>1 DEF Offers, Captured, Binding
    <3>4. Accounted(r.session) = Accounted(s) + Len(values)
        BY <1>1, <1>2, <3>1, AccountedType DEF Accounted
    <3>5. Sound(s, values, r)
        BY <1>2, <3>1, <3>2, <3>3, <3>4 DEF Sound, Takings
    <3> QED
        BY <3>5 DEF r
  <2> QED
      BY <2>2, <2>3, <2>4
<1> QED
    BY <1>3, <1>4, <1>5

\* Every recorded operation.
LEMMA PerformSound ==
    ASSUME NEW s \in Sessions, Offers(s), NEW op \in Operations, Legal(op)
    PROVE  Sound(s, op.values, Perform(s, op))
<1>1. op.values \in Seq(Rolls) /\ op.kind \in {"submit", "react", "slide", "control"}
    BY DEF Operations
<1>2. CASE op.kind = "submit"
  <2>1. Perform(s, op) = PerformSubmit(s, op.command, op.values)
      BY <1>2 DEF Perform
  <2> QED
      BY <1>1, <1>2, <2>1, SubmitSound DEF Legal
<1>3. CASE op.kind = "react"
  <2>1. Perform(s, op) = PerformDecision(s, "reaction", op.binding, op.values)
      BY <1>3 DEF Perform
  <2> QED
      BY <1>1, <2>1, DecisionSound
<1>4. CASE op.kind = "slide"
  <2>1. Perform(s, op) = PerformDecision(s, "slide", op.binding, op.values)
      BY <1>4 DEF Perform
  <2> QED
      BY <1>1, <2>1, DecisionSound
<1>5. CASE op.kind = "control"
  <2>1. Perform(s, op) = PerformControl(s, op.values)
      BY <1>5 DEF Perform
  <2> QED
      BY <1>1, <2>1, ControlSound
<1> QED
    BY <1>1, <1>2, <1>3, <1>4, <1>5

-------------------------------------------------------------------------------
(* The number of a session. *)

\* Giving a session another number changes at most the bindings of what it
\* has pending, and those consistently.
Renumbered(s, u) ==
    /\ u \in Sessions
    /\ u.revision = s.revision
    /\ u.save = s.save
    /\ Accounted(u) = Accounted(s)
    /\ Offers(u)

\* A pending command under another binding.
Under(p, n) == [p EXCEPT !.binding = IF p.binding = 0 THEN 0 ELSE n]

PhaseUnder(phase, n) == {Under(p, n) : p \in phase}

\* A pending command under another number is the same command.
LEMMA UnderFields ==
    ASSUME NEW p \in Pendings, NEW n \in Nat
    PROVE  /\ Under(p, n) \in Pendings
           /\ Under(p, n).command = p.command
           /\ Under(p, n).values = p.values
           /\ Under(p, n).revision = p.revision
           /\ Under(p, n).binding = IF p.binding = 0 THEN 0 ELSE n
<1> DEFINE b == IF p.binding = 0 THEN 0 ELSE n
<1>1. b \in Nat
    OBVIOUS
<1>2. Under(p, n) = [p EXCEPT !.binding = b]
    BY DEF Under
<1> HIDE DEF b
<1>3. /\ Under(p, n) \in Pendings
      /\ Under(p, n).command = p.command
      /\ Under(p, n).values = p.values
      /\ Under(p, n).revision = p.revision
      /\ Under(p, n).binding = b
    BY <1>1, <1>2 DEF Pendings
<1> QED
    BY <1>3 DEF b

\* A phase under another number holds the same values.
LEMMA PhaseUnderFields ==
    ASSUME NEW phase \in Phases, NEW n \in Nat
    PROVE  /\ PhaseUnder(phase, n) \in Phases
           /\ Held(PhaseUnder(phase, n)) = Held(phase)
           /\ phase = {} <=> PhaseUnder(phase, n) = {}
           /\ \A q \in PhaseUnder(phase, n) : \E p \in phase : p \in Pendings /\ q = Under(p, n)
<1>1. CASE phase = {}
  <2>1. PhaseUnder(phase, n) = {}
      BY <1>1 DEF PhaseUnder
  <2> QED
      BY <1>1, <2>1 DEF Phases
<1>2. CASE phase # {}
  <2>1. PICK p \in Pendings : phase = {p}
      BY <1>2 DEF Phases
  <2>2. PhaseUnder(phase, n) = {Under(p, n)}
      BY <2>1 DEF PhaseUnder
  <2>3. Held(phase) = Len(p.values) /\ Held(PhaseUnder(phase, n)) = Len(Under(p, n).values)
      BY <2>1, <2>2, HeldValues, UnderFields
  <2> QED
      BY <2>1, <2>2, <2>3, UnderFields DEF Phases
<1> QED
    BY <1>1, <1>2

\* A session whose own number is not 0 offers the same under another number,
\* and so does what is not bound to any session.
LEMMA RenumberedOffers ==
    ASSUME NEW s \in Sessions, Offers(s), NEW n \in Nat, s.number # 0 \/ n = 0, NEW u,
           u = [s EXCEPT !.number = n, !.reaction = PhaseUnder(s.reaction, n),
                         !.slide = PhaseUnder(s.slide, n)]
    PROVE  Renumbered(s, u) /\ u.number = n
<1>1. /\ s.reaction \in Phases /\ s.slide \in Phases
      /\ s.revision \in Nat /\ s.accepted_random_values \in Nat
    BY DEF Sessions
<1> DEFINE a == PhaseUnder(s.reaction, n)
           b == PhaseUnder(s.slide, n)
<1>2. /\ a \in Phases
      /\ Held(a) = Held(s.reaction)
      /\ s.reaction = {} <=> a = {}
      /\ \A q \in a : \E p \in s.reaction : p \in Pendings /\ q = Under(p, n)
    BY <1>1, PhaseUnderFields
<1>3. /\ b \in Phases
      /\ Held(b) = Held(s.slide)
      /\ s.slide = {} <=> b = {}
      /\ \A q \in b : \E p \in s.slide : p \in Pendings /\ q = Under(p, n)
    BY <1>1, PhaseUnderFields
<1> HIDE DEF a, b
<1>4. /\ u \in Sessions
      /\ u.number = n /\ u.revision = s.revision /\ u.save = s.save
      /\ u.accepted_random_values = s.accepted_random_values
      /\ u.reaction = a /\ u.slide = b
    BY <1>2, <1>3 DEF Sessions, a, b
<1>5. Accounted(u) = Accounted(s)
    BY <1>2, <1>3, <1>4 DEF Accounted
<1>6. ASSUME NEW p \in Pendings, Captured(s, p)
      PROVE  Captured(u, Under(p, n))
    BY <1>4, <1>6, UnderFields DEF Captured, Binding
<1>7. Offers(u)
  <2>1. ASSUME NEW q \in u.reaction
        PROVE  /\ Commands[q.command].decision \in {"reaction", "movement"}
               /\ Captured(u, q)
               /\ q.revision = u.revision
    <3>1. PICK p \in s.reaction : p \in Pendings /\ q = Under(p, n)
        BY <1>2, <1>4
    <3>2. /\ Commands[p.command].decision \in {"reaction", "movement"}
          /\ Captured(s, p)
          /\ p.revision = s.revision
        BY DEF Offers
    <3> QED
        BY <1>4, <1>6, <3>1, <3>2, UnderFields
  <2>2. ASSUME NEW q \in u.slide
        PROVE  Commands[q.command].decision = "slide" /\ Captured(u, q)
    <3>1. PICK p \in s.slide : p \in Pendings /\ q = Under(p, n)
        BY <1>3, <1>4
    <3>2. Commands[p.command].decision = "slide" /\ Captured(s, p)
        BY DEF Offers
    <3> QED
        BY <1>6, <3>1, <3>2, UnderFields
  <2>3. u.reaction # {} => u.slide = {}
      BY <1>2, <1>3, <1>4 DEF Offers
  <2> QED
      BY <2>1, <2>2, <2>3 DEF Offers
<1> QED
    BY <1>4, <1>5, <1>7 DEF Renumbered

\* What is recorded of a session, or checkpointed, stands for it.
LEMMA UnboundKeeps ==
    ASSUME NEW s \in Sessions, Offers(s)
    PROVE  Renumbered(s, Unbound(s)) /\ Unbound(s).number = 0
<1>1. ASSUME NEW phase
      PROVE  {[p EXCEPT !.binding = 0] : p \in phase} = PhaseUnder(phase, 0)
  <2>1. \A p : [p EXCEPT !.binding = 0] = Under(p, 0)
      BY DEF Under
  <2> QED
      BY <2>1 DEF PhaseUnder
<1>2. Unbound(s) = [s EXCEPT !.number = 0, !.reaction = PhaseUnder(s.reaction, 0),
                             !.slide = PhaseUnder(s.slide, 0)]
  <2> DEFINE a == {[p EXCEPT !.binding = 0] : p \in s.reaction}
             b == {[p EXCEPT !.binding = 0] : p \in s.slide}
  <2>1. Unbound(s) = [s EXCEPT !.number = 0, !.reaction = a, !.slide = b]
      BY DEF Unbound
  <2>2. a = PhaseUnder(s.reaction, 0) /\ b = PhaseUnder(s.slide, 0)
      BY <1>1
  <2> HIDE DEF a, b
  <2> QED
      BY <2>1, <2>2
<1> QED
    BY <1>2, RenumberedOffers

\* What is made of a session under a new number stands for it.
LEMMA ReboundKeeps ==
    ASSUME NEW s \in Sessions, Offers(s), s.number # 0, NEW n \in Nat
    PROVE  Renumbered(s, Rebound(s, n)) /\ Rebound(s, n).number = n
<1>1. Rebound(s, n) = [s EXCEPT !.number = n, !.reaction = PhaseUnder(s.reaction, n),
                                !.slide = PhaseUnder(s.slide, n)]
    BY DEF Rebound, PhaseUnder, Under
<1> QED
    BY <1>1, RenumberedOffers

\* What an entry records.
LEMMA EntryFields ==
    ASSUME NEW s \in Sessions, Offers(s), NEW op \in Operations, Legal(op), NEW number \in Nat
    PROVE  LET e == Entry(s, op, number)
           IN  /\ e \in Entries
               /\ e.operation = op
               /\ e.outcome = Perform(s, op).outcome
               /\ e.call = number
               /\ Takes(e) = Takings(Perform(s, op).outcome, op.values)
<1>1. Sound(s, op.values, Perform(s, op))
    BY PerformSound
<1>2. Unbound(s) \in Sessions
    BY UnboundKeeps DEF Renumbered
<1>3. Unbound(Perform(s, op).session) \in Sessions
    BY <1>1, UnboundKeeps DEF Renumbered, Sound
<1>4. Perform(s, op).outcome \in Outcomes
    BY <1>1 DEF Sound
<1> QED
    BY <1>2, <1>3, <1>4 DEF Entry, Entries, Takes, Takings

-------------------------------------------------------------------------------
(* Restore and replay. *)

\* A session that can go on from what a host holds.
Able(s) == s \in Sessions /\ Offers(s) /\ s.number # 0

\* A restored session offers what the checkpoint held, under a new number,
\* and stands at its position.
LEMMA RestoreSound ==
    ASSUME NEW checkpoint \in Sessions, Offers(checkpoint), NEW number \in Nat \ {0},
           Restore(checkpoint, number).ok
    PROVE  LET s == Restore(checkpoint, number).session
           IN  /\ Able(s)
               /\ Accounted(s) = Accounted(checkpoint)
               /\ ProvePhase(checkpoint, number) \in Sessions
<1> DEFINE baseline == [checkpoint EXCEPT !.number = number,
                           !.reaction = {}, !.slide = {}, !.save = {}]
           again    == {PerformSubmit(baseline, p.command, p.values).session :
                           p \in checkpoint.reaction \cup checkpoint.slide}
                         \cup {PerformControl(baseline, <<>>).session : c \in checkpoint.save}
           proof    == ProvePhase(checkpoint, number)
<1>1. /\ baseline \in Sessions
      /\ baseline.number = number
      /\ baseline.reaction = {} /\ baseline.slide = {}
    BY DEF Sessions, Phases
<1>2. proof = IF again = {} THEN baseline ELSE CHOOSE s \in again : TRUE
    BY DEF ProvePhase
<1> HIDE DEF baseline, proof
<1>3. Offers(baseline)
    BY <1>1 DEF Offers
<1>4. ASSUME NEW p \in checkpoint.reaction \cup checkpoint.slide
      PROVE  Sound(baseline, p.values, PerformSubmit(baseline, p.command, p.values))
  <2>1. p \in Pendings
      BY DEF Sessions, Phases
  <2>2. Captured(checkpoint, p)
      BY DEF Offers
  <2>3. /\ p.command \in DOMAIN Commands
        /\ p.values \in Seq(Rolls)
        /\ Commands[p.command].checks \in Nat
      BY <2>1, RecordedAssumption DEF Pendings
  <2>4. Measured(p.command, p.values)
      BY <2>2, <2>3 DEF Captured, Measured
  <2> QED
      BY <1>1, <1>3, <2>3, <2>4, SubmitSound
<1>5. Sound(baseline, <<>>, PerformControl(baseline, <<>>))
  <2> DEFINE none == <<>>
  <2>1. none \in Seq(Rolls)
      OBVIOUS
  <2> HIDE DEF none
  <2>2. Sound(baseline, none, PerformControl(baseline, none))
      BY <1>1, <1>3, <2>1, ControlSound
  <2> QED
      BY <2>2 DEF none
<1>6. ASSUME NEW s \in again
      PROVE  s \in Sessions /\ Offers(s) /\ s.number = number
  <2>1. CASE s = PerformControl(baseline, <<>>).session
      BY <1>1, <1>5, <2>1 DEF Sound
  <2>2. CASE \E p \in checkpoint.reaction \cup checkpoint.slide :
                s = PerformSubmit(baseline, p.command, p.values).session
      BY <1>1, <1>4, <2>2 DEF Sound
  <2> QED
      BY <2>1, <2>2
<1> HIDE DEF again
<1>7. Able(proof)
    BY <1>1, <1>2, <1>3, <1>6 DEF Able
<1>8. /\ Unbound(proof) = checkpoint
      /\ Restore(checkpoint, number).session = Rebound(proof, number + 1)
    BY DEF Restore, Made, Failed, proof
<1>9. Accounted(proof) = Accounted(checkpoint)
    BY <1>7, <1>8, UnboundKeeps DEF Able, Renumbered
<1>10. number + 1 \in Nat /\ number + 1 # 0
    OBVIOUS
<1>11. Renumbered(proof, Rebound(proof, number + 1)) /\ Rebound(proof, number + 1).number # 0
    BY <1>7, <1>10, ReboundKeeps DEF Able
<1>12. ProvePhase(checkpoint, number) \in Sessions
    BY <1>7 DEF Able, proof
<1> QED
    BY <1>8, <1>9, <1>11, <1>12 DEF Able, Renumbered

\* A replayed entry takes what it took when it was recorded.
LEMMA ReplayEntrySound ==
    ASSUME NEW made, NEW e \in Entries, Legal(e.operation),
           made.ok => Able(made.session),
           ReplayEntry(made, e).ok
    PROVE  LET s == ReplayEntry(made, e).session
           IN  /\ made.ok
               /\ Able(s)
               /\ Accounted(s) = Accounted(made.session) + Takes(e)
<1> DEFINE s      == made.session
           op     == Reissued(s, e.operation)
           result == Perform(s, op)
<1>1. /\ made.ok
      /\ e.outcome = result.outcome
      /\ ReplayEntry(made, e).session = result.session
    BY DEF ReplayEntry, Failed, Made
<1>2. s \in Sessions /\ Offers(s) /\ s.number # 0 /\ s.number \in Nat
    BY <1>1 DEF Able, Sessions
<1>3. op \in Operations /\ Legal(op) /\ op.values = e.operation.values
  <2>1. e.operation \in Operations
      BY DEF Entries
  <2>2. CASE e.operation.kind = "react"
    <3> DEFINE b == IF \E p \in s.reaction : p.binding # 0 THEN s.number ELSE e.operation.binding
    <3>1. b \in Nat
        BY <1>2, <2>1 DEF Operations
    <3>2. op = [e.operation EXCEPT !.binding = b]
        BY <2>2 DEF Reissued
    <3> HIDE DEF b, s, op
    <3> QED
        BY <2>1, <2>2, <3>1, <3>2 DEF Operations, Legal
  <2>3. CASE e.operation.kind = "slide"
    <3>1. op = [e.operation EXCEPT !.binding = s.number]
        BY <2>3 DEF Reissued
    <3> HIDE DEF s, op
    <3> QED
        BY <1>2, <2>1, <2>3, <3>1 DEF Operations, Legal
  <2>4. CASE e.operation.kind \notin {"react", "slide"}
    <3>1. op = e.operation
        BY <2>4 DEF Reissued
    <3> QED
        BY <2>1, <3>1
  <2> QED
      BY <2>2, <2>3, <2>4
<1> HIDE DEF op, s
<1>4. Sound(s, op.values, result)
    BY <1>2, <1>3, PerformSound
<1>5. Takes(e) = Takings(result.outcome, op.values)
    BY <1>1, <1>3 DEF Takes, Takings
<1> HIDE DEF result
<1>6. /\ Able(result.session)
      /\ Accounted(result.session) = Accounted(s) + Takes(e)
    BY <1>2, <1>4, <1>5 DEF Sound, Able
<1> QED
    BY <1>1, <1>6 DEF s

-------------------------------------------------------------------------------
(* Going through the entries. *)

\* A nonempty set of natural numbers has a least member.
LEMMA LeastExists ==
    ASSUME NEW S \in SUBSET Nat, S # {}
    PROVE  \E k \in S : \A j \in S : k <= j
<1>1. PICK x \in S : \A y \in S : ~(<<y, x>> \in OpToRel(<, Nat))
    BY WFMin, NatLessThanWellFounded
<1>2. \A y \in S : ~(y < x)
    BY <1>1 DEF OpToRel
<1>3. \A y \in S : x <= y
    BY <1>2
<1> QED
    BY <1>3

\* What holds at 0 and is passed on from each number to the next holds up to "n".
LEMMA CountingUp ==
    ASSUME NEW n \in Nat, NEW S, 0 \in S, \A k \in 1 .. n : k - 1 \in S => k \in S
    PROVE  0 .. n \subseteq S
<1> DEFINE bad == (0 .. n) \ S
<1> SUFFICES ASSUME bad # {} PROVE FALSE
    OBVIOUS
<1>1. bad \in SUBSET Nat
    OBVIOUS
<1>2. PICK k \in bad : \A j \in bad : k <= j
  <2> HIDE DEF bad
  <2> QED
      BY <1>1, LeastExists
<1>3. k \in 1 .. n /\ k - 1 \in 0 .. n
    BY <1>2
<1>4. k - 1 \notin bad
  <2>1. ~(k <= k - 1)
      BY <1>3
  <2> QED
      BY <1>2, <2>1
<1> QED
    BY <1>2, <1>3, <1>4

\* The results "f" of the steps up to each of them.
Walk(f, n, V, start, step) ==
    /\ f \in [0 .. n -> V]
    /\ f[0] = start
    /\ \A k \in 1 .. n : f[k] = step[k][f[k - 1]]

\* Steps that stay in a set can be taken one after another.
LEMMA StepsTaken ==
    ASSUME NEW n \in Nat, NEW V, NEW start \in V, NEW step \in [1 .. n -> [V -> V]]
    PROVE  \E f : Walk(f, n, V, start, step)
<1> DEFINE S == {m \in 0 .. n : \E f \in [0 .. m -> V] :
                    f[0] = start /\ \A k \in 1 .. m : f[k] = step[k][f[k - 1]]}
<1>1. 0 \in S
  <2> DEFINE f == [k \in 0 .. 0 |-> start]
  <2>1. f \in [0 .. 0 -> V] /\ f[0] = start
      OBVIOUS
  <2>2. \A k \in 1 .. 0 : f[k] = step[k][f[k - 1]]
      OBVIOUS
  <2> HIDE DEF f
  <2> QED
      BY <2>1, <2>2
<1>2. ASSUME NEW m \in 1 .. n, m - 1 \in S
      PROVE  m \in S
  <2>1. PICK f \in [0 .. m - 1 -> V] :
           f[0] = start /\ \A k \in 1 .. m - 1 : f[k] = step[k][f[k - 1]]
      BY <1>2
  <2> DEFINE g == [k \in 0 .. m |-> IF k = m THEN step[m][f[m - 1]] ELSE f[k]]
  <2>2. \A k \in 0 .. m - 1 : g[k] = f[k]
      OBVIOUS
  <2>3. g[m] = step[m][f[m - 1]]
      OBVIOUS
  <2>4. step[m][f[m - 1]] \in V
    <3>1. f[m - 1] \in V
        BY <2>1
    <3>2. step[m] \in [V -> V]
        OBVIOUS
    <3> QED
        BY <3>1, <3>2
  <2>5. g \in [0 .. m -> V]
    <3>1. \A k \in 0 .. m : k # m => k \in 0 .. m - 1
        OBVIOUS
    <3> QED
        BY <2>1, <2>4, <3>1
  <2> HIDE DEF g
  <2>6. ASSUME NEW k \in 1 .. m
        PROVE  g[k] = step[k][g[k - 1]]
    <3>1. k - 1 \in 0 .. m - 1 /\ g[k - 1] = f[k - 1]
        BY <2>2
    <3>2. CASE k = m
        BY <2>3, <3>1, <3>2
    <3>3. CASE k # m
      <4>1. k \in 1 .. m - 1 /\ k \in 0 .. m - 1
          BY <3>3
      <4> QED
          BY <2>1, <2>2, <3>1, <4>1
    <3> QED
        BY <3>2, <3>3
  <2>7. g[0] = start /\ m \in 0 .. n
      BY <2>1, <2>2
  <2> QED
      BY <2>5, <2>6, <2>7
<1>3. n \in S
  <2>1. \A m \in 1 .. n : m - 1 \in S => m \in S
      BY <1>2
  <2> HIDE DEF S
  <2>2. 0 .. n \subseteq S
      BY <1>1, <2>1, CountingUp
  <2> QED
      BY <2>2
<1> QED
    BY <1>3 DEF Walk

\* TakenUpTo adds up what the entries take.
LEMMA TakenSums ==
    ASSUME NEW entries \in Seq(Entries)
    PROVE  LET f == TakenUpTo(entries)
           IN  /\ f[0] = 0
               /\ \A k \in 1 .. Len(entries) : f[k] = f[k - 1] + Takes(entries[k])
<1> DEFINE n    == Len(entries)
           step == [k \in 1 .. n |-> [x \in Nat |-> x + Takes(entries[k])]]
<1>1. n \in Nat
    OBVIOUS
<1>2. \A k \in 1 .. n : Takes(entries[k]) \in Nat
  <2>1. \A e \in Entries : e.operation.values \in Seq(Rolls)
      BY DEF Entries, Operations
  <2>2. \A k \in 1 .. n : entries[k] \in Entries
      OBVIOUS
  <2> QED
      BY <2>1, <2>2 DEF Takes
<1>3. step \in [1 .. n -> [Nat -> Nat]]
    BY <1>2
<1>4. \A k \in 1 .. n, x \in Nat : step[k][x] = x + Takes(entries[k])
    OBVIOUS
<1> HIDE DEF step, n
<1>5. PICK f \in [0 .. n -> Nat] : f[0] = 0 /\ \A k \in 1 .. n : f[k] = step[k][f[k - 1]]
  <2> DEFINE V    == Nat
             zero == 0
  <2>1. zero \in V /\ step \in [1 .. n -> [V -> V]]
      BY <1>3
  <2> HIDE DEF V, zero
  <2>2. \E f : Walk(f, n, V, zero, step)
      BY <1>1, <2>1, StepsTaken
  <2> QED
      BY <2>2 DEF Walk, V, zero
<1> DEFINE g == [k \in 0 .. n |-> IF k = 0 THEN 0 ELSE f[k - 1] + Takes(entries[k])]
<1>6. ASSUME NEW k \in 0 .. n
      PROVE  f[k] = g[k]
  <2>1. CASE k = 0
      BY <1>5, <2>1
  <2>2. CASE k # 0
    <3>1. k \in 1 .. n /\ k - 1 \in 0 .. n
        BY <1>1, <2>2
    <3> QED
        BY <1>4, <1>5, <3>1
  <2> QED
      BY <2>1, <2>2
<1>7. f = g
    BY <1>6
<1>8. \E h : h = [k \in 0 .. n |-> IF k = 0 THEN 0 ELSE h[k - 1] + Takes(entries[k])]
    BY <1>7
<1>9. TakenUpTo(entries)
         = [k \in 0 .. n |-> IF k = 0 THEN 0 ELSE TakenUpTo(entries)[k - 1] + Takes(entries[k])]
    BY <1>8 DEF TakenUpTo, n
<1> DEFINE h == TakenUpTo(entries)
<1> HIDE DEF h
<1>10. h = [k \in 0 .. n |-> IF k = 0 THEN 0 ELSE h[k - 1] + Takes(entries[k])]
    BY <1>9 DEF h
<1>11. h[0] = 0 /\ \A k \in 1 .. n : h[k] = h[k - 1] + Takes(entries[k])
    BY <1>1, <1>10
<1> QED
    BY <1>11 DEF h, n

\* What an entry takes can be counted.
LEMMA TakesNat ==
    ASSUME NEW e \in Entries
    PROVE  Takes(e) \in Nat
<1>1. e.operation.values \in Seq(Rolls)
    BY DEF Entries, Operations
<1> QED
    BY <1>1 DEF Takes

\* What all the entries take.
Total(entries) == TakenUpTo(entries)[Len(entries)]

\* So can what the entries take up to each of them.
LEMMA TakenNat ==
    ASSUME NEW entries \in Seq(Entries)
    PROVE  \A k \in 0 .. Len(entries) : TakenUpTo(entries)[k] \in Nat
<1> DEFINE n == Len(entries)
           f == TakenUpTo(entries)
           S == {k \in 0 .. n : f[k] \in Nat}
<1>1. n \in Nat /\ \A k \in 1 .. n : Takes(entries[k]) \in Nat
    BY TakesNat
<1>2. f[0] = 0 /\ \A k \in 1 .. n : f[k] = f[k - 1] + Takes(entries[k])
    BY TakenSums
<1> HIDE DEF f, n
<1>3. 0 \in S
    BY <1>1, <1>2
<1>4. \A k \in 1 .. n : k - 1 \in S => k \in S
    BY <1>1, <1>2
<1> HIDE DEF S
<1>5. 0 .. n \subseteq S
    BY <1>1, <1>3, <1>4, CountingUp
<1> QED
    BY <1>5 DEF S, f, n

\* The sums depend on the entries before them only.
LEMMA TakenAgree ==
    ASSUME NEW a \in Seq(Entries), NEW b \in Seq(Entries),
           NEW m \in 0 .. Len(a), m <= Len(b), \A k \in 1 .. m : a[k] = b[k]
    PROVE  TakenUpTo(a)[m] = TakenUpTo(b)[m]
<1> DEFINE f == TakenUpTo(a)
           g == TakenUpTo(b)
           S == {k \in 0 .. m : f[k] = g[k]}
<1>1. /\ Len(a) \in Nat /\ Len(b) \in Nat /\ m \in Nat
      /\ \A k \in 1 .. m : k \in 1 .. Len(a) /\ k \in 1 .. Len(b)
    OBVIOUS
<1>2. /\ f[0] = 0 /\ \A k \in 1 .. Len(a) : f[k] = f[k - 1] + Takes(a[k])
      /\ g[0] = 0 /\ \A k \in 1 .. Len(b) : g[k] = g[k - 1] + Takes(b[k])
    BY TakenSums
<1> HIDE DEF f, g
<1>3. 0 \in S
    BY <1>1, <1>2
<1>4. \A k \in 1 .. m : k - 1 \in S => k \in S
    BY <1>1, <1>2
<1> HIDE DEF S
<1>5. 0 .. m \subseteq S
    BY <1>1, <1>3, <1>4, CountingUp
<1>6. m \in S
    BY <1>1, <1>5
<1> QED
    BY <1>6 DEF S, f, g

\* The entries of one sequence after those of another take what both take.
LEMMA TotalConcat ==
    ASSUME NEW a \in Seq(Entries), NEW b \in Seq(Entries)
    PROVE  Total(a \o b) = Total(a) + Total(b)
<1> DEFINE c == a \o b
           m == Len(a)
           n == Len(b)
           f == TakenUpTo(c)
           g == TakenUpTo(b)
           t == TakenUpTo(a)[m]
           S == {k \in 0 .. n : f[m + k] = t + g[k]}
<1>1. /\ m \in Nat /\ n \in Nat
      /\ c \in Seq(Entries)
      /\ Len(c) = m + n
      /\ \A k \in 1 .. m : c[k] = a[k]
      /\ \A k \in 1 .. n : c[m + k] = b[k]
    BY ConcatProperties
<1>2. f[m] = t
  <2>1. m \in 0 .. Len(c) /\ m <= Len(a)
      BY <1>1
  <2> HIDE DEF c, m
  <2> QED
      BY <1>1, <2>1, TakenAgree
<1>3. /\ \A k \in 1 .. m + n : f[k] = f[k - 1] + Takes(c[k])
      /\ g[0] = 0 /\ \A k \in 1 .. n : g[k] = g[k - 1] + Takes(b[k])
    BY <1>1, TakenSums
<1>4. t \in Nat /\ \A k \in 0 .. n : g[k] \in Nat
    BY TakenNat
<1>5. \A k \in 1 .. n : Takes(b[k]) \in Nat
    BY TakesNat
<1> HIDE DEF c, f, g, t, m, n
<1>6. 0 \in S
    BY <1>1, <1>2, <1>3, <1>4
<1>7. ASSUME NEW k \in 1 .. n, k - 1 \in S
      PROVE  k \in S
  <2>1. m + k \in 1 .. m + n /\ m + k - 1 = m + (k - 1) /\ k - 1 \in 0 .. n
      BY <1>1
  <2>2. f[m + k] = f[m + (k - 1)] + Takes(b[k])
      BY <1>1, <1>3, <2>1
  <2>3. f[m + (k - 1)] = t + g[k - 1]
      BY <1>7
  <2> QED
      BY <1>3, <1>4, <1>5, <2>1, <2>2, <2>3
<1>8. \A k \in 1 .. n : k - 1 \in S => k \in S
    BY <1>7
<1> HIDE DEF S
<1>9. 0 .. n \subseteq S
    BY <1>1, <1>6, <1>8, CountingUp
<1>10. n \in S
    BY <1>1, <1>9
<1>11. f[m + n] = t + g[n]
    BY <1>10 DEF S
<1> QED
    BY <1>1, <1>11 DEF Total, f, g, t, m, n, c

\* No entry takes nothing, and one entry what it takes.
LEMMA TotalShort ==
    /\ Total(<<>>) = 0
    /\ \A e \in Entries : Total(<<e>>) = Takes(e)
<1>1. ASSUME NEW none \in Seq(Entries), none = <<>>
      PROVE  Total(none) = 0
    BY <1>1, TakenSums DEF Total
<1>2. ASSUME NEW e \in Entries
      PROVE  Total(<<e>>) = Takes(e)
  <2> DEFINE one == <<e>>
  <2>1. one \in Seq(Entries) /\ Len(one) = 1 /\ one[1] = e
      OBVIOUS
  <2> HIDE DEF one
  <2>2. /\ TakenUpTo(one)[0] = 0
        /\ \A k \in 1 .. 1 : TakenUpTo(one)[k] = TakenUpTo(one)[k - 1] + Takes(one[k])
      BY <2>1, TakenSums
  <2>3. TakenUpTo(one)[1] = Takes(e)
      BY <2>1, <2>2, TakesNat
  <2> QED
      BY <2>1, <2>3 DEF Total, one
<1>3. <<>> \in Seq(Entries)
    OBVIOUS
<1> QED
    BY <1>1, <1>2, <1>3

\* Entries that a session could have recorded.
Sane == {e \in Entries : Legal(e.operation)}

\* Replayed goes from the checkpoint through the entries, one by one.
LEMMA ReplayedSteps ==
    ASSUME NEW checkpoint \in Sessions, Offers(checkpoint), NEW number \in Nat \ {0},
           NEW entries \in Seq(Sane)
    PROVE  LET f == Replayed(checkpoint, entries, number)
           IN  /\ f[0] = Restore(checkpoint, number)
               /\ \A k \in 1 .. Len(entries) : f[k] = ReplayEntry(f[k - 1], entries[k])
<1> DEFINE n     == Len(entries)
           V     == {Failed} \cup {Made(s) : s \in {u \in Sessions : Able(u)}}
           start == Restore(checkpoint, number)
           step  == [k \in 1 .. n |-> [x \in V |-> ReplayEntry(x, entries[k])]]
<1>1. n \in Nat /\ \A k \in 1 .. n : entries[k] \in Sane
    OBVIOUS
<1>2. start \in V
  <2>1. CASE start = Failed
      BY <2>1
  <2>2. CASE start # Failed
    <3>1. PICK s : start = Made(s)
        BY <2>2 DEF Restore
    <3>2. Able(s)
        BY <3>1, RestoreSound DEF Made
    <3> HIDE DEF start
    <3> QED
        BY <3>1, <3>2 DEF Able
  <2> QED
      BY <2>1, <2>2
<1>3. ASSUME NEW x \in V, NEW e \in Sane
      PROVE  ReplayEntry(x, e) \in V
  <2> DEFINE y == ReplayEntry(x, e)
  <2>1. CASE y = Failed
      BY <2>1
  <2>2. CASE y # Failed
    <3>1. PICK s : y = Made(s)
        BY <2>2 DEF ReplayEntry
    <3>2. x.ok => Able(x.session)
        BY DEF Failed, Made
    <3>3. y.ok /\ y.session = s
        BY <3>1 DEF Made
    <3>4. Able(s)
        BY <3>2, <3>3, ReplayEntrySound DEF Sane
    <3> HIDE DEF y
    <3>5. y \in V
        BY <3>1, <3>4 DEF Able
    <3> QED
        BY <3>5 DEF y
  <2> QED
      BY <2>1, <2>2
<1> HIDE DEF V, start
<1>4. step \in [1 .. n -> [V -> V]]
    BY <1>1, <1>3
<1>5. \A k \in 1 .. n, x \in V : step[k][x] = ReplayEntry(x, entries[k])
    OBVIOUS
<1> HIDE DEF step, n
<1>6. PICK f : Walk(f, n, V, start, step)
    BY <1>1, <1>2, <1>4, StepsTaken
<1> DEFINE g == [k \in 0 .. n |-> IF k = 0 THEN start ELSE ReplayEntry(f[k - 1], entries[k])]
<1>7. ASSUME NEW k \in 0 .. n
      PROVE  f[k] = g[k]
  <2>1. CASE k = 0
      BY <1>6, <2>1 DEF Walk
  <2>2. CASE k # 0
    <3>1. k \in 1 .. n /\ k - 1 \in 0 .. n
        BY <1>1, <2>2
    <3> QED
        BY <1>5, <1>6, <3>1 DEF Walk
  <2> QED
      BY <2>1, <2>2
<1>8. f = g
    BY <1>6, <1>7 DEF Walk
<1>9. \E h : h = [k \in 0 .. n |-> IF k = 0 THEN start ELSE ReplayEntry(h[k - 1], entries[k])]
    BY <1>8
<1> DEFINE h == Replayed(checkpoint, entries, number)
<1>10. h = [k \in 0 .. n |-> IF k = 0 THEN start ELSE ReplayEntry(h[k - 1], entries[k])]
    BY <1>9 DEF Replayed, n, start
<1> HIDE DEF h
<1>11. h[0] = start /\ \A k \in 1 .. n : h[k] = ReplayEntry(h[k - 1], entries[k])
    BY <1>1, <1>10
<1> QED
    BY <1>11 DEF h, n, start

\* A replay that succeeds stands where the checkpoint stood, and what the
\* entries took further on.
LEMMA ReplaySound ==
    ASSUME NEW checkpoint \in Sessions, Offers(checkpoint), NEW number \in Nat \ {0},
           NEW entries \in Seq(Sane), Replay(checkpoint, entries, number).ok
    PROVE  LET s == Replay(checkpoint, entries, number).session
           IN  Able(s) /\ Accounted(s) = Accounted(checkpoint) + Total(entries)
<1> DEFINE n     == Len(entries)
           f     == Replayed(checkpoint, entries, number)
           taken == TakenUpTo(entries)
           base  == Accounted(checkpoint)
           S     == {k \in 0 .. n : f[k].ok => /\ Able(f[k].session)
                                               /\ Accounted(f[k].session) = base + taken[k]}
<1>1. /\ n \in Nat
      /\ entries \in Seq(Entries)
      /\ \A k \in 1 .. n : entries[k] \in Entries /\ Legal(entries[k].operation)
    BY DEF Sane
<1>2. /\ f[0] = Restore(checkpoint, number)
      /\ \A k \in 1 .. n : f[k] = ReplayEntry(f[k - 1], entries[k])
    BY ReplayedSteps
<1>3. /\ taken[0] = 0
      /\ \A k \in 1 .. n : taken[k] = taken[k - 1] + Takes(entries[k])
      /\ \A k \in 0 .. n : taken[k] \in Nat
      /\ \A k \in 1 .. n : Takes(entries[k]) \in Nat
    BY <1>1, TakenSums, TakenNat, TakesNat
<1>4. base \in Nat
    BY AccountedType
<1>5. f[0].ok => Able(f[0].session) /\ Accounted(f[0].session) = base
    BY <1>2, RestoreSound
<1> HIDE DEF f, taken, base, n
<1>6. 0 \in S
    BY <1>1, <1>3, <1>4, <1>5
<1>7. ASSUME NEW k \in 1 .. n, k - 1 \in S
      PROVE  k \in S
  <2> SUFFICES ASSUME f[k].ok
               PROVE  Able(f[k].session) /\ Accounted(f[k].session) = base + taken[k]
      BY <1>1
  <2>1. f[k - 1].ok => Able(f[k - 1].session)
      BY <1>7
  <2>2. ReplayEntry(f[k - 1], entries[k]).ok
      BY <1>2
  <2>3. /\ f[k - 1].ok
        /\ Able(f[k].session)
        /\ Accounted(f[k].session) = Accounted(f[k - 1].session) + Takes(entries[k])
      BY <1>1, <1>2, <2>1, <2>2, ReplayEntrySound
  <2>4. Accounted(f[k - 1].session) = base + taken[k - 1] /\ k - 1 \in 0 .. n
      BY <1>1, <1>7, <2>3
  <2> QED
      BY <1>3, <1>4, <2>3, <2>4
<1>8. \A k \in 1 .. n : k - 1 \in S => k \in S
    BY <1>7
<1> HIDE DEF S
<1>9. 0 .. n \subseteq S
    BY <1>1, <1>6, <1>8, CountingUp
<1>10. n \in S
    BY <1>1, <1>9
<1>11. f[n].ok => Able(f[n].session) /\ Accounted(f[n].session) = base + taken[n]
    BY <1>10 DEF S
<1> QED
    BY <1>11 DEF Replay, Total, f, n, taken, base

-------------------------------------------------------------------------------
(* The invariant. *)

\* Entries of the calls up to "n", with the values "given" to their call; the
\* opening of a save phase has none.
LoggedBy(n, given) ==
    {e \in Sane :
        /\ e.call \in 1 .. n
        /\ e.operation.values = given[e.call] \/ e.outcome.kind = "save"}

\* The calls that may have entries.
Finished == IF call = {} THEN calls ELSE calls - 1

\* A call has what was supplied to it, and the opening of a save phase at most.
Running(c) ==
    /\ c \in [number : Nat, operation : Operations, attempts : Nat, first : Seq(Sane)]
    /\ c.number = calls
    /\ Legal(c.operation)
    /\ c.operation.values = supplied[c.number]
    /\ \/ c.first = <<>>
       \/ \E e \in Sane : /\ c.first = <<e>>
                          /\ e.outcome.kind = "save"
                          /\ e.call = c.number

CallsInv ==
    /\ calls \in 0 .. MaxCalls
    /\ supplied \in [1 .. MaxCalls -> Seq(Rolls)]
    /\ \A n \in 1 .. MaxCalls : n > calls => supplied[n] = <<>>
    /\ call # {} => calls > 0 /\ \E c : call = {c} /\ Running(c)

SavedInv ==
    /\ saved \in [checkpoint : Sessions, from : Nat]
    /\ saved.from <= Len(transcript)
    /\ Offers(saved.checkpoint)
    /\ Accounted(saved.checkpoint) = TakenUpTo(transcript)[saved.from]

IInv ==
    /\ Able(session)
    /\ CallsInv
    /\ transcript \in Seq(LoggedBy(Finished, supplied))
    /\ Accounted(session) = Total(transcript)
    /\ SavedInv

\* Sequences over a set are sequences over a greater one.
LEMMA SeqMonotone ==
    ASSUME NEW S, NEW T, S \subseteq T, NEW s \in Seq(S)
    PROVE  s \in Seq(T)
OBVIOUS

\* Logged entries are entries a session could have recorded.
LEMMA LoggedEntries ==
    ASSUME NEW n, NEW given, NEW t \in Seq(LoggedBy(n, given))
    PROVE  t \in Seq(Sane) /\ t \in Seq(Entries)
<1>1. LoggedBy(n, given) \subseteq Sane /\ LoggedBy(n, given) \subseteq Entries
    BY DEF LoggedBy, Sane
<1> QED
    BY <1>1, SeqMonotone

\* More entries leave the sums before them alone.
LEMMA LogGrows ==
    ASSUME NEW t \in Seq(Entries), NEW more \in Seq(Entries)
    PROVE  /\ t \o more \in Seq(Entries)
           /\ Total(t \o more) = Total(t) + Total(more)
           /\ Len(t \o more) >= Len(t)
           /\ \A m \in 0 .. Len(t) : TakenUpTo(t \o more)[m] = TakenUpTo(t)[m]
<1> DEFINE u == t \o more
<1>1. /\ u \in Seq(Entries)
      /\ Len(u) = Len(t) + Len(more)
      /\ Len(t) \in Nat /\ Len(more) \in Nat
      /\ \A k \in 1 .. Len(t) : u[k] = t[k]
    BY ConcatProperties
<1>2. Total(u) = Total(t) + Total(more)
    BY TotalConcat
<1> HIDE DEF u
<1>3. ASSUME NEW m \in 0 .. Len(t)
      PROVE  TakenUpTo(u)[m] = TakenUpTo(t)[m]
  <2>1. m \in 0 .. Len(u) /\ m <= Len(t) /\ \A k \in 1 .. m : k \in 1 .. Len(t)
      BY <1>1
  <2> QED
      BY <1>1, <2>1, TakenAgree
<1>4. Len(u) >= Len(t)
    BY <1>1
<1> QED
    BY <1>1, <1>2, <1>3, <1>4 DEF u

\* A step that ends or begins a call, or writes entries, leaves what the
\* earlier calls were given.
LEMMA LogKept ==
    ASSUME NEW n \in Nat, NEW m \in Nat, n <= m, NEW given, NEW more,
           \A k \in 1 .. n : more[k] = given[k]
    PROVE  LoggedBy(n, given) \subseteq LoggedBy(m, more)
BY DEF LoggedBy

\* A session begins with nothing pending, recorded or supplied.
LEMMA InitInvariant == ReplayedInit => IInv
<1> SUFFICES ASSUME ReplayedInit PROVE IInv
    OBVIOUS
<1>1. /\ Session0 \in Sessions /\ Offers(Session0) /\ Session0.number # 0
      /\ Session0.reaction = {} /\ Session0.slide = {} /\ Session0.accepted_random_values = 0
    BY DEF Session0, Sessions, Phases, Offers
<1>2. Accounted(Session0) = 0
    BY <1>1, HeldValues DEF Accounted
<1>3. Renumbered(Session0, Unbound(Session0))
    BY <1>1, UnboundKeeps
<1>4. CallsInv
  <2>1. call = {} /\ calls = 0 /\ supplied = [n \in 1 .. MaxCalls |-> <<>>]
      BY DEF ReplayedInit, Init
  <2> DEFINE none == <<>>
  <2>2. none \in Seq(Rolls) /\ 0 \in 0 .. MaxCalls
      BY RecordedAssumption
  <2>3. supplied = [n \in 1 .. MaxCalls |-> none]
      BY <2>1
  <2> HIDE DEF none
  <2>4. supplied \in [1 .. MaxCalls -> Seq(Rolls)] /\ \A n \in 1 .. MaxCalls : supplied[n] = none
      BY <2>2, <2>3
  <2>5. \A n \in 1 .. MaxCalls : n > calls => supplied[n] = <<>>
      BY <2>4 DEF none
  <2>6. calls \in 0 .. MaxCalls
      BY <2>1, <2>2
  <2> QED
      BY <2>1, <2>4, <2>5, <2>6 DEF CallsInv
<1>5. Total(transcript) = 0 /\ transcript \in Seq(Entries) /\ Len(transcript) = 0
    BY TotalShort DEF ReplayedInit, Init
<1>6. transcript \in Seq(LoggedBy(Finished, supplied))
    BY DEF ReplayedInit, Init
<1>7. saved = [checkpoint |-> Unbound(Session0), from |-> 0]
    BY DEF ReplayedInit
<1>8. SavedInv
  <2>1. TakenUpTo(transcript)[0] = 0
      BY <1>5, TakenSums
  <2>2. Unbound(Session0) \in Sessions /\ Offers(Unbound(Session0))
        /\ Accounted(Unbound(Session0)) = 0
      BY <1>2, <1>3 DEF Renumbered
  <2> QED
      BY <1>5, <1>7, <2>1, <2>2 DEF SavedInv
<1> QED
    BY <1>1, <1>2, <1>4, <1>5, <1>6, <1>8 DEF IInv, Able, ReplayedInit, Init

\* A call begins: nothing was supplied to it yet.
LEMMA BeginLoopKeeps ==
    ASSUME IInv, BeginLoop, UNCHANGED saved
    PROVE  IInv'
<1> DEFINE none == <<>>
<1>1. PICK op \in Operations : /\ op.values = none
                               /\ Legal(op)
                               /\ call' = NewCall(op, none)
  <2>0. none \in Seq(Rolls) /\ Len(none) = 0
      OBVIOUS
  <2>1. CASE \E id \in DOMAIN Commands : call' = NewCall(Operation("submit", id, 0), <<>>)
    <3>1. PICK id \in DOMAIN Commands : call' = NewCall(Operation("submit", id, 0), none)
        BY <2>1
    <3> DEFINE op == Operation("submit", id, 0)
    <3>2. /\ op.kind = "submit" /\ op.command = id /\ op.values = none
          /\ op \in Operations
        BY DEF Operation, Operations
    <3>3. Commands[id].checks \in Nat
        BY RecordedAssumption
    <3> HIDE DEF op, none
    <3>4. Legal(op)
        BY <2>0, <3>2, <3>3 DEF Legal, Measured
    <3> QED
        BY <3>1, <3>2, <3>4 DEF op
  <2>2. CASE \E kind \in {"react", "slide"}, binding \in Bindings :
                call' = NewCall(Operation(kind, "none", binding), <<>>)
    <3>1. PICK kind \in {"react", "slide"}, binding \in Bindings :
             call' = NewCall(Operation(kind, "none", binding), none)
        BY <2>2
    <3>2. binding \in Nat
        BY DEF Bindings, IInv, Able, Sessions
    <3> DEFINE op == Operation(kind, "none", binding)
    <3>3. op \in Operations /\ op.values = none /\ Legal(op)
        BY <3>2 DEF Operation, Operations, Legal
    <3> HIDE DEF op, none
    <3> QED
        BY <3>1, <3>3 DEF op
  <2> QED
      BY <2>1, <2>2 DEF BeginLoop
<1>2. /\ call = {} /\ calls < MaxCalls /\ calls' = calls + 1
      /\ UNCHANGED <<session, transcript, supplied, saved>>
    BY DEF BeginLoop
<1>3. /\ calls \in Nat /\ MaxCalls \in Nat /\ calls' \in 1 .. MaxCalls
      /\ supplied[calls'] = none
    BY <1>2, RecordedAssumption DEF IInv, CallsInv
<1>9. PICK c : c = [number |-> calls + 1, operation |-> op, attempts |-> 0, first |-> none]
    OBVIOUS
<1>4. call' = {c}
    BY <1>1, <1>9 DEF NewCall
<1>5. /\ c \in [number : Nat, operation : Operations, attempts : Nat, first : Seq(Sane)]
      /\ c.number = calls' /\ c.operation = op /\ c.first = none
    BY <1>2, <1>3, <1>9
<1> HIDE DEF none
<1>6. Running(c)'
    BY <1>1, <1>2, <1>3, <1>5 DEF Running, none
<1>7. CallsInv'
    BY <1>2, <1>3, <1>4, <1>6 DEF IInv, CallsInv
<1>8. Finished' = Finished /\ call' # {}
    BY <1>2, <1>3, <1>4 DEF Finished
<1> QED
    BY <1>2, <1>7, <1>8 DEF IInv, SavedInv

\* A call fails: what was supplied to it is in no entry.
LEMMA FailedCallKeeps ==
    ASSUME IInv, NEW c \in call, call' = {},
           UNCHANGED <<session, transcript, supplied, calls, saved>>
    PROVE  IInv'
<1>1. calls \in Nat /\ calls > 0
  <2>1. calls \in 0 .. MaxCalls /\ call # {}
      BY DEF IInv, CallsInv
  <2> QED
      BY <2>1, RecordedAssumption DEF IInv, CallsInv
<1>2. CallsInv'
  <2>1. CallsInv
      BY DEF IInv
  <2> QED
      BY <2>1 DEF CallsInv
<1>3. Finished = calls - 1 /\ Finished' = calls
    BY DEF Finished
<1>4. LoggedBy(Finished, supplied) \subseteq LoggedBy(Finished', supplied')
    BY <1>1, <1>3, LogKept
<1>5. transcript' \in Seq(LoggedBy(Finished', supplied'))
    BY <1>4, SeqMonotone DEF IInv
<1> QED
    BY <1>2, <1>5 DEF IInv, SavedInv

\* What a command asks for keeps it measured.
LEMMA AskedMeasured ==
    ASSUME NEW s \in Sessions, Offers(s), NEW op \in Operations, Legal(op),
           NEW more \in Seq(Rolls),
           Perform(s, op).outcome = Request(Len(more)) \/ op.kind # "submit"
    PROVE  Legal([op EXCEPT !.values = op.values \o more])
<1> DEFINE new == [op EXCEPT !.values = op.values \o more]
<1>1. /\ new.kind = op.kind /\ new.command = op.command
      /\ new.values = op.values \o more
    BY DEF Operations
<1> HIDE DEF new
<1>2. op.values \in Seq(Rolls)
    BY DEF Operations
<1>3. CASE op.kind # "submit"
    BY <1>1, <1>3 DEF Legal, new
<1>4. CASE op.kind = "submit"
  <2>1. Perform(s, op) = PerformSubmit(s, op.command, op.values)
      BY <1>4 DEF Perform
  <2>2. /\ Perform(s, op).outcome = Request(Len(more))
        /\ op.command \in DOMAIN Commands
        /\ Measured(op.command, op.values)
      BY <1>4 DEF Legal
  <2>3. Resolve(op.command, op.values, FALSE) = Request(Len(more))
    <3>1. Perform(s, op).outcome # Outcome("rejected")
        BY <2>2 DEF Outcome, Request
    <3>2. \/ PerformSubmit(s, op.command, op.values).outcome = Outcome("rejected")
          \/ PerformSubmit(s, op.command, op.values).outcome = Resolve(op.command, op.values, FALSE)
        BY DEF PerformSubmit, Reject
    <3> QED
        BY <2>1, <2>2, <3>1, <3>2
  <2>4. Commands[op.command].decision # "none" =>
           Len(op.values) + Len(more) <= Commands[op.command].checks
    <3>1. Request(Len(more)).kind = "request" /\ Request(Len(more)).count = Len(more)
        BY DEF Request
    <3> DEFINE r == Resolve(op.command, op.values, FALSE)
    <3>2. r.kind = "request" /\ Measured(op.command, op.values) =>
             (Commands[op.command].decision # "none" =>
                Len(op.values) + r.count <= Commands[op.command].checks)
        BY <1>2, <2>2, ResolveOutcomes
    <3> HIDE DEF r
    <3>3. r.kind = "request" /\ r.count = Len(more)
        BY <2>3, <3>1 DEF r
    <3> QED
        BY <2>2, <3>2, <3>3
  <2>5. Len(new.values) = Len(op.values) + Len(more)
      BY <1>1, <1>2, ConcatProperties
  <2> QED
      BY <1>1, <2>2, <2>4, <2>5 DEF Legal, Measured, new
<1> QED
    BY <1>3, <1>4

\* The source supplies values to the call in progress, whose entries are
\* still to come.
LEMMA DrawKeeps ==
    ASSUME IInv, NEW c \in call, Draw(c), UNCHANGED saved
    PROVE  IInv'
<1>1. /\ calls \in 1 .. MaxCalls /\ calls \in Nat /\ MaxCalls \in Nat
      /\ supplied \in [1 .. MaxCalls -> Seq(Rolls)]
      /\ call = {c} /\ Running(c)
      /\ Able(session)
    BY RecordedAssumption DEF IInv, CallsInv
<1>2. PICK count \in Asks(c) : \E more \in [1 .. count -> Rolls] :
         /\ Fits(c.operation.values, count)
         /\ call' = {[c EXCEPT !.attempts = @ + 1,
                               !.operation.values = Extended(@, more)]}
         /\ supplied' = [supplied EXCEPT ![c.number] = @ \o more]
    BY DEF Draw
<1>3. PICK more \in [1 .. count -> Rolls] :
         /\ call' = {[c EXCEPT !.attempts = @ + 1,
                               !.operation.values = Extended(@, more)]}
         /\ supplied' = [supplied EXCEPT ![c.number] = @ \o more]
    BY <1>2
<1>4. /\ c.operation \in Operations /\ c.operation.values \in Seq(Rolls)
      /\ c.operation.kind # "control" => Perform(session, c.operation).outcome = Request(count)
      /\ count \in Nat
  <2>1. c.operation \in Operations /\ c.operation.values \in Seq(Rolls) /\ Legal(c.operation)
      BY <1>1 DEF Running, Operations
  <2>2. Perform(session, c.operation).outcome \in Outcomes
      BY <1>1, <2>1, PerformSound DEF Able, Sound
  <2>3. CASE c.operation.kind = "control"
      BY <2>1, <2>3 DEF Asks
  <2>4. CASE c.operation.kind # "control"
    <3> DEFINE r == Perform(session, c.operation).outcome
    <3>1. r.kind = "request" /\ count = r.count
        BY <2>4 DEF Asks
    <3> HIDE DEF r
    <3>2. r = Request(count) /\ count \in Nat
      <4>1. r \in Outcomes
          BY <2>2 DEF r
      <4> QED
          BY <3>1, <4>1 DEF Outcomes, Request
    <3> QED
        BY <2>1, <3>2 DEF r
  <2> QED
      BY <2>3, <2>4
<1>5. more \in Seq(Rolls) /\ Len(more) = count
    BY <1>4
<1> DEFINE values == c.operation.values \o more
           op     == [c.operation EXCEPT !.values = values]
<1>6. values \in Seq(Rolls)
    BY <1>4, <1>5, ConcatProperties
<1>7. Legal(op)
  <2>1. Legal(c.operation)
      BY <1>1 DEF Running
  <2>2. Perform(session, c.operation).outcome = Request(Len(more)) \/ c.operation.kind # "submit"
      BY <1>4, <1>5
  <2> QED
      BY <1>1, <1>4, <1>5, <2>1, <2>2, AskedMeasured DEF Able
<1>8. PICK d : d = [c EXCEPT !.attempts = @ + 1, !.operation.values = values]
    OBVIOUS
<1>9. call' = {d}
    BY <1>3, <1>8 DEF Extended
<1> HIDE DEF values
<1>10. /\ op \in Operations
       /\ op.values = values
    BY <1>4, <1>6 DEF Operations
<1>11. /\ d \in [number : Nat, operation : Operations, attempts : Nat, first : Seq(Sane)]
       /\ d.number = c.number /\ d.first = c.first /\ d.operation = op
  <2>1. c \in [number : Nat, operation : Operations, attempts : Nat, first : Seq(Sane)]
      BY <1>1 DEF Running
  <2> DEFINE attempts == c.attempts + 1
  <2>2. d = [c EXCEPT !.attempts = attempts, !.operation = op]
      BY <1>8, <2>1
  <2>3. attempts \in Nat
      BY <2>1
  <2> HIDE DEF op, attempts
  <2> QED
      BY <1>10, <2>1, <2>2, <2>3
<1> HIDE DEF op
<1>12. c.number = calls /\ c.number \in 1 .. MaxCalls /\ c.operation.values = supplied[c.number]
    BY <1>1 DEF Running
<1>13. /\ supplied' \in [1 .. MaxCalls -> Seq(Rolls)]
       /\ supplied'[c.number] = values
       /\ \A n \in 1 .. MaxCalls : n # c.number => supplied'[n] = supplied[n]
    BY <1>1, <1>3, <1>6, <1>12 DEF values
<1>14. calls' = calls /\ transcript' = transcript /\ session' = session
    BY DEF Draw
<1>15. Running(d)'
  <2>1. \/ d.first = <<>>
        \/ \E e \in Sane : d.first = <<e>> /\ e.outcome.kind = "save" /\ e.call = d.number
      BY <1>1, <1>11 DEF Running
  <2>2. d.number = calls' /\ Legal(d.operation) /\ d.operation.values = supplied'[d.number]
      BY <1>7, <1>10, <1>11, <1>12, <1>13, <1>14
  <2> QED
      BY <1>11, <2>1, <2>2 DEF Running
<1>16. CallsInv'
    BY <1>1, <1>9, <1>12, <1>13, <1>14, <1>15 DEF IInv, CallsInv
<1>17. Finished = calls - 1 /\ Finished' = calls - 1
    BY <1>1, <1>9, <1>14 DEF Finished
<1>18. LoggedBy(Finished, supplied) \subseteq LoggedBy(Finished', supplied')
  <2>1. \A n \in 1 .. calls - 1 : supplied'[n] = supplied[n]
      BY <1>1, <1>12, <1>13
  <2>2. Finished \in Nat /\ Finished' \in Nat /\ Finished <= Finished'
      BY <1>1, <1>17
  <2>3. \A n \in 1 .. Finished : supplied'[n] = supplied[n]
      BY <1>17, <2>1
  <2> QED
      BY <2>2, <2>3, LogKept
<1>19. transcript' \in Seq(LoggedBy(Finished', supplied'))
    BY <1>14, <1>18, SeqMonotone DEF IInv
<1> QED
    BY <1>14, <1>16, <1>19 DEF IInv, SavedInv

\* Entries are written for the call that ends.
LEMMA RecordKeeps ==
    ASSUME IInv, Able(session)', call' = {}, calls' \in 0 .. MaxCalls, calls <= calls',
           UNCHANGED <<supplied, saved>>,
           NEW more \in Seq(LoggedBy(calls', supplied)),
           transcript' = transcript \o more,
           Accounted(session)' = Accounted(session) + Total(more)
    PROVE  IInv'
<1>1. calls \in 0 .. MaxCalls /\ MaxCalls \in Nat
    BY RecordedAssumption DEF IInv, CallsInv
<1>2. CallsInv'
    BY <1>1 DEF IInv, CallsInv
<1>3. Finished' = calls' /\ Finished <= calls' /\ Finished \in Nat
  <2>1. call # {} => calls > 0
      BY DEF IInv, CallsInv
  <2> QED
      BY <1>1, <2>1 DEF Finished
<1>4. LoggedBy(Finished, supplied) \subseteq LoggedBy(calls', supplied)
  <2>1. calls' \in Nat
      BY <1>1
  <2> QED
      BY <1>3, <2>1, LogKept
<1>5. transcript \in Seq(LoggedBy(calls', supplied))
    BY <1>4, SeqMonotone DEF IInv
<1>6. transcript' \in Seq(LoggedBy(Finished', supplied'))
    BY <1>3, <1>5, ConcatProperties
<1>7. transcript \in Seq(Entries) /\ more \in Seq(Entries)
    BY <1>5, LoggedEntries
<1>8. Accounted(session)' = Total(transcript)'
  <2>1. Total(transcript \o more) = Total(transcript) + Total(more)
      BY <1>7, LogGrows
  <2>2. Accounted(session) = Total(transcript)
      BY DEF IInv
  <2>3. Total(transcript)' = Total(transcript \o more)
      BY DEF Total
  <2> QED
      BY <2>1, <2>2, <2>3
<1>9. SavedInv'
  <2>1. /\ saved \in [checkpoint : Sessions, from : Nat]
        /\ saved.from <= Len(transcript)
        /\ Offers(saved.checkpoint)
        /\ Accounted(saved.checkpoint) = TakenUpTo(transcript)[saved.from]
      BY DEF IInv, SavedInv
  <2>2. saved.from \in 0 .. Len(transcript) /\ Len(transcript) \in Nat
      BY <1>7, <2>1
  <2>3. /\ TakenUpTo(transcript \o more)[saved.from] = TakenUpTo(transcript)[saved.from]
        /\ Len(transcript \o more) >= Len(transcript)
        /\ Len(transcript \o more) \in Nat
      BY <1>7, <2>2, LogGrows
  <2> QED
      BY <2>1, <2>2, <2>3 DEF SavedInv
<1> QED
    BY <1>2, <1>6, <1>8, <1>9 DEF IInv

\* The entry of an operation holds what was supplied to its call.
LEMMA EntryLogged ==
    ASSUME Able(session), NEW op \in Operations, Legal(op),
           NEW n \in Nat \ {0}, op.values = supplied[n]
    PROVE  /\ Entry(session, op, n) \in LoggedBy(n, supplied)
           /\ Entry(session, op, n) \in Sane
           /\ Takes(Entry(session, op, n)) = Takings(Perform(session, op).outcome, op.values)
           /\ Able(Perform(session, op).session)
           /\ Accounted(Perform(session, op).session)
                 = Accounted(session) + Takings(Perform(session, op).outcome, op.values)
<1>1. session \in Sessions /\ Offers(session) /\ session.number # 0
    BY DEF Able
<1>2. /\ Entry(session, op, n) \in Entries
      /\ Entry(session, op, n).operation = op
      /\ Entry(session, op, n).call = n
      /\ Takes(Entry(session, op, n)) = Takings(Perform(session, op).outcome, op.values)
    BY <1>1, EntryFields
<1>3. Sound(session, op.values, Perform(session, op))
    BY <1>1, PerformSound
<1>4. n \in 1 .. n
    OBVIOUS
<1>5. Entry(session, op, n) \in LoggedBy(n, supplied) /\ Entry(session, op, n) \in Sane
    BY <1>2, <1>4 DEF LoggedBy, Sane
<1> QED
    BY <1>1, <1>2, <1>3, <1>5 DEF Sound, Able

\* The command is carried out with all that was supplied to it, and recorded.
LEMMA FinishKeeps ==
    ASSUME IInv, NEW c \in call, Finish(c), UNCHANGED saved
    PROVE  IInv'
<1>1. /\ calls \in 1 .. MaxCalls /\ calls \in Nat /\ MaxCalls \in Nat
      /\ Running(c) /\ Able(session)
    BY RecordedAssumption DEF IInv, CallsInv
<1> DEFINE op == c.operation
           e  == Entry(session, op, c.number)
<1>2. /\ session' = Perform(session, op).session
      /\ transcript' = transcript \o c.first \o <<e>>
      /\ call' = {} /\ UNCHANGED <<supplied, calls>>
    BY DEF Finish, Tried
<1>3. /\ op \in Operations /\ Legal(op) /\ op.values = supplied[calls] /\ c.number = calls
      /\ calls \in Nat \ {0}
    BY <1>1 DEF Running
<1>4. /\ e \in LoggedBy(calls, supplied) /\ e \in Entries
      /\ Able(Perform(session, op).session)
      /\ Accounted(Perform(session, op).session) = Accounted(session) + Takes(e)
    BY <1>1, <1>3, EntryLogged DEF Sane
<1>5. /\ c.first \in Seq(LoggedBy(calls, supplied)) /\ c.first \in Seq(Entries)
      /\ Total(c.first) = 0
  <2>1. CASE c.first = <<>>
      BY <2>1, TotalShort
  <2>2. CASE c.first # <<>>
    <3>1. PICK x \in Sane : c.first = <<x>> /\ x.outcome.kind = "save" /\ x.call = c.number
        BY <1>1, <2>2 DEF Running
    <3>2. x \in LoggedBy(calls, supplied) /\ x \in Entries
        BY <1>1, <1>3, <3>1 DEF LoggedBy, Sane
    <3>3. Takes(x) = 0
        BY <3>1 DEF Takes
    <3> QED
        BY <3>1, <3>2, <3>3, TotalShort
  <2> QED
      BY <2>1, <2>2
<1> HIDE DEF e, op
<1> DEFINE last == <<e>>
           more == c.first \o last
<1>6. /\ last \in Seq(LoggedBy(calls, supplied)) /\ last \in Seq(Entries)
      /\ Total(last) = Takes(e)
    BY <1>4, TotalShort
<1> HIDE DEF last
<1>7. Total(more) = Takes(e)
  <2>1. Total(more) = 0 + Takes(e)
      BY <1>5, <1>6, TotalConcat
  <2>2. Takes(e) \in Nat
      BY <1>4, TakesNat
  <2> QED
      BY <2>1, <2>2
<1>8. more \in Seq(LoggedBy(calls, supplied))
    BY <1>5, <1>6, ConcatProperties
<1>9. transcript' = transcript \o more
  <2>1. transcript \in Seq(Entries)
      BY LoggedEntries DEF IInv
  <2>2. (transcript \o c.first) \o last = transcript \o (c.first \o last)
    <3>1. \A a \in Seq(Entries), b \in Seq(Entries), x \in Seq(Entries) :
             (a \o b) \o x = a \o (b \o x)
        BY ConcatAssociative
    <3> QED
        BY <1>5, <1>6, <2>1, <3>1
  <2>3. transcript' = (transcript \o c.first) \o last
      BY <1>2 DEF last, e
  <2> QED
      BY <2>2, <2>3
<1> HIDE DEF more
<1>10. Able(session)' /\ Accounted(session)' = Accounted(session) + Total(more)
  <2>1. Able(session)' = Able(session') /\ Accounted(session)' = Accounted(session')
      BY DEF Able, Accounted
  <2> QED
      BY <1>2, <1>4, <1>7, <2>1
<1>11. calls' \in 0 .. MaxCalls /\ calls <= calls' /\ calls' = calls
    BY <1>1, <1>2
<1> QED
    BY <1>2, <1>8, <1>9, <1>10, <1>11, RecordKeeps

\* The end of a turn is recorded at once, unless it opens a save phase.
LEMMA BeginControlKeeps ==
    ASSUME IInv, BeginControl, UNCHANGED saved
    PROVE  IInv'
<1> DEFINE none == <<>>
           n    == calls + 1
           op   == Operation("control", "none", 0)
           e    == Entry(session, op, n)
<1>1. /\ calls \in Nat /\ MaxCalls \in Nat /\ calls < MaxCalls /\ n \in 1 .. MaxCalls
      /\ call = {} /\ calls' = n /\ UNCHANGED <<supplied, saved>>
      /\ Able(session) /\ supplied[n] = <<>>
    BY RecordedAssumption DEF IInv, CallsInv, BeginControl
<1>2. op \in Operations /\ Legal(op) /\ op.values = <<>>
    BY DEF Operation, Operations, Legal
<1>3. /\ e \in LoggedBy(n, supplied) /\ e \in Sane
      /\ Takes(e) = Takings(Perform(session, op).outcome, op.values)
      /\ Able(Perform(session, op).session)
      /\ Accounted(Perform(session, op).session) = Accounted(session) + Takes(e)
  <2>1. n \in Nat \ {0} /\ op.values = supplied[n]
      BY <1>1, <1>2
  <2> HIDE DEF n, op
  <2> QED
      BY <1>1, <1>2, <2>1, EntryLogged
<1>4. /\ e.operation = op
      /\ e.outcome = Perform(session, op).outcome
      /\ e.call = n
    BY DEF Entry
<1>5. /\ session' = Perform(session, op).session
      /\ IF e.outcome.kind = "save"
         THEN /\ call' = NewCall(op, <<e>>)
              /\ UNCHANGED transcript
         ELSE /\ transcript' = Append(transcript, e)
              /\ UNCHANGED call
    BY <1>4 DEF BeginControl
<1>6. Able(session)' = Able(session') /\ Accounted(session)' = Accounted(session')
    BY DEF Able, Accounted
<1> HIDE DEF op, e, n, none
<1>7. CASE e.outcome.kind = "save"
  <2>1. PICK c : c = [number |-> n, operation |-> op, attempts |-> 0, first |-> <<e>>]
      OBVIOUS
  <2>2. call' = {c}
      BY <1>5, <1>7, <2>1 DEF NewCall, n
  <2>3. /\ c \in [number : Nat, operation : Operations, attempts : Nat, first : Seq(Sane)]
        /\ c.number = calls' /\ c.operation = op /\ c.first = <<e>>
      BY <1>1, <1>2, <1>3, <2>1
  <2>4. Running(c)'
    <3>1. \E x \in Sane : c.first = <<x>> /\ x.outcome.kind = "save" /\ x.call = c.number
        BY <1>1, <1>3, <1>4, <1>7, <2>3
    <3>2. c.number = calls' /\ Legal(c.operation) /\ c.operation.values = supplied'[c.number]
        BY <1>1, <1>2, <2>3
    <3> QED
        BY <2>3, <3>1, <3>2 DEF Running
  <2>5. CallsInv'
    <3>1. calls' \in 1 .. MaxCalls /\ supplied' = supplied /\ calls' > calls
        BY <1>1 DEF n
    <3>2. /\ supplied' \in [1 .. MaxCalls -> Seq(Rolls)]
          /\ \A m \in 1 .. MaxCalls : m > calls' => supplied'[m] = <<>>
        BY <1>1, <3>1 DEF IInv, CallsInv
    <3>3. calls' \in 0 .. MaxCalls /\ calls' > 0
        BY <3>1
    <3>4. call' # {} /\ \E x : call' = {x} /\ Running(x)'
        BY <2>2, <2>4
    <3> QED
        BY <3>2, <3>3, <3>4 DEF CallsInv
  <2>6. Finished' = Finished
      BY <1>1, <2>2 DEF Finished, n
  <2>7. Takes(e) = 0 /\ Accounted(session) \in Nat
      BY <1>1, <1>7, AccountedType DEF Takes, Able
  <2>8. transcript' = transcript
      BY <1>5, <1>7
  <2> QED
      BY <1>1, <1>3, <1>5, <1>6, <2>5, <2>6, <2>7, <2>8 DEF IInv, SavedInv
<1>8. CASE e.outcome.kind # "save"
  <2> DEFINE last == <<e>>
  <2>1. transcript' = transcript \o last
    <3>1. transcript \in Seq(Entries) /\ e \in Entries
        BY <1>3, LoggedEntries DEF IInv, Sane
    <3> QED
        BY <1>5, <1>8, <3>1, AppendIsConcat
  <2>2. last \in Seq(LoggedBy(calls', supplied)) /\ Total(last) = Takes(e)
      BY <1>1, <1>3, TotalShort DEF Sane
  <2> HIDE DEF last
  <2>3. call' = {} /\ calls' \in 0 .. MaxCalls /\ calls <= calls'
      BY <1>1, <1>5, <1>8 DEF n
  <2>4. Able(session)' /\ Accounted(session)' = Accounted(session) + Total(last)
      BY <1>3, <1>5, <1>6, <2>2
  <2> QED
      BY <1>1, <2>1, <2>2, <2>3, <2>4, RecordKeeps
<1> QED
    BY <1>7, <1>8

\* A checkpoint stands where the session stands.
LEMMA CheckpointKeeps ==
    ASSUME IInv, TakeCheckpoint
    PROVE  IInv'
<1>1. /\ UNCHANGED <<session, call, transcript, supplied, calls>>
      /\ saved' = [checkpoint |-> Unbound(session), from |-> Len(transcript)]
      /\ session \in Sessions /\ Offers(session)
      /\ Accounted(session) = Total(transcript)
    BY DEF IInv, TakeCheckpoint, vars, Able
<1>2. Renumbered(session, Unbound(session))
    BY <1>1, UnboundKeeps
<1>3. Len(transcript) \in Nat
    BY DEF IInv
<1>4. SavedInv'
    BY <1>1, <1>2, <1>3 DEF SavedInv, Renumbered, Total
<1>5. CallsInv' /\ Finished' = Finished
    BY <1>1 DEF IInv, CallsInv, Running, Finished
<1> QED
    BY <1>1, <1>4, <1>5 DEF IInv, Total

\* A clone takes all over but the number.
LEMMA CloneKeeps ==
    ASSUME IInv, Clone
    PROVE  IInv'
<1>1. /\ session' = Rebound(session, session.number + 1)
      /\ UNCHANGED <<call, transcript, supplied, calls, saved>>
      /\ session \in Sessions /\ Offers(session) /\ session.number # 0
      /\ session.number + 1 \in Nat /\ session.number + 1 # 0
    BY DEF IInv, Clone, Able, Sessions
<1>2. Renumbered(session, session') /\ session'.number # 0
    BY <1>1, ReboundKeeps
<1>3. Able(session)' /\ Accounted(session)' = Accounted(session)
    BY <1>2 DEF Renumbered, Able, Accounted
<1>4. CallsInv' /\ Finished' = Finished
    BY <1>1 DEF IInv, CallsInv, Running, Finished
<1> QED
    BY <1>1, <1>3, <1>4 DEF IInv, Total, SavedInv

\* Parts of a sequence, with a member more or less.
LEMMA PartsOfSequence ==
    ASSUME NEW S, NEW t \in Seq(S)
    PROVE  /\ \A a \in 1 .. Len(t) + 1, b \in 0 .. Len(t) :
                 /\ SubSeq(t, a, b) \in Seq(S)
                 /\ Len(SubSeq(t, a, b)) = IF a <= b THEN b - a + 1 ELSE 0
           /\ \A k \in 1 .. Len(t) :
                 RemoveAt(t, k) \in Seq(S) /\ Len(RemoveAt(t, k)) = Len(t) - 1
           /\ \A k \in 1 .. Len(t) + 1, e \in S : InsertAt(t, k, e) \in Seq(S)
<1> DEFINE n == Len(t)
<1>1. n \in Nat /\ \A i \in 1 .. n : t[i] \in S
    OBVIOUS
<1>2. ASSUME NEW a \in 1 .. n + 1, NEW b \in 0 .. n
      PROVE  /\ SubSeq(t, a, b) \in Seq(S)
             /\ Len(SubSeq(t, a, b)) = IF a <= b THEN b - a + 1 ELSE 0
  <2>1. a \in Int /\ b \in Int /\ \A i \in a .. b : t[i] \in S
      BY <1>1
  <2> QED
      BY <2>1, SubSeqProperties
<1>3. ASSUME NEW k \in 1 .. n
      PROVE  RemoveAt(t, k) \in Seq(S) /\ Len(RemoveAt(t, k)) = n - 1
  <2> DEFINE u == SubSeq(t, 1, k - 1)
             v == SubSeq(t, k + 1, n)
  <2>1. /\ 1 \in 1 .. n + 1 /\ k - 1 \in 0 .. n
        /\ k + 1 \in 1 .. n + 1 /\ n \in 0 .. n
      BY <1>1
  <2>2. /\ u \in Seq(S) /\ Len(u) = IF 1 <= k - 1 THEN k - 1 - 1 + 1 ELSE 0
        /\ v \in Seq(S) /\ Len(v) = IF k + 1 <= n THEN n - (k + 1) + 1 ELSE 0
      BY <1>2, <2>1
  <2>3. RemoveAt(t, k) = u \o v
      BY DEF RemoveAt
  <2> HIDE DEF u, v
  <2>4. Len(u) = k - 1 /\ Len(v) = n - k
      BY <1>1, <2>2
  <2>5. u \o v \in Seq(S) /\ Len(u \o v) = Len(u) + Len(v)
      BY <2>2, ConcatProperties
  <2> QED
      BY <1>1, <2>3, <2>4, <2>5
<1>4. ASSUME NEW k \in 1 .. n + 1, NEW e \in S
      PROVE  InsertAt(t, k, e) \in Seq(S)
  <2> DEFINE u == SubSeq(t, 1, k - 1)
             v == SubSeq(t, k, n)
             w == <<e>>
  <2>1. 1 \in 1 .. n + 1 /\ k - 1 \in 0 .. n /\ n \in 0 .. n
      BY <1>1
  <2>2. u \in Seq(S) /\ v \in Seq(S) /\ w \in Seq(S)
      BY <1>2, <2>1
  <2>3. InsertAt(t, k, e) = (u \o w) \o v
      BY DEF InsertAt
  <2> HIDE DEF u, v, w
  <2>4. u \o w \in Seq(S)
      BY <2>2, ConcatProperties
  <2>5. (u \o w) \o v \in Seq(S)
      BY <2>2, <2>4, ConcatProperties
  <2> QED
      BY <2>3, <2>5
<1> QED
    BY <1>2, <1>3, <1>4

\* A sequence is its first members and the others.
LEMMA SplitAt ==
    ASSUME NEW S, NEW t \in Seq(S), NEW k \in 0 .. Len(t)
    PROVE  /\ SubSeq(t, 1, k) \in Seq(S) /\ SubSeq(t, k + 1, Len(t)) \in Seq(S)
           /\ Len(SubSeq(t, 1, k)) = k
           /\ t = SubSeq(t, 1, k) \o SubSeq(t, k + 1, Len(t))
<1> DEFINE n == Len(t)
<1>1. n \in Nat /\ k \in Nat /\ k <= n
    OBVIOUS
<1>2. /\ 1 \in 1 .. n + 1 /\ k \in 1 - 1 .. n /\ n \in k .. n
      /\ k + 1 \in 1 .. n + 1 /\ k \in 0 .. n /\ n \in 0 .. n
    BY <1>1
<1>3. SubSeq(t, 1, k) \o SubSeq(t, k + 1, n) = SubSeq(t, 1, n)
    BY <1>2, ConcatAdjacentSubSeq
<1>4. SubSeq(t, 1, n) = t
    BY SubSeqFull
<1>5. /\ SubSeq(t, 1, k) \in Seq(S) /\ SubSeq(t, k + 1, n) \in Seq(S)
      /\ Len(SubSeq(t, 1, k)) = IF 1 <= k THEN k - 1 + 1 ELSE 0
    BY <1>2, PartsOfSequence
<1>6. Len(SubSeq(t, 1, k)) = k
    BY <1>1, <1>5
<1> QED
    BY <1>3, <1>4, <1>5, <1>6

\* Whatever the storage gives back is made of entries of the journal.
LEMMA StoredEntries ==
    ASSUME NEW S, NEW journal \in Seq(S), NEW given \in Stored(journal)
    PROVE  given \in Seq(S)
<1> DEFINE n == Len(journal)
<1>1. n \in Nat /\ \A k \in 1 .. n : journal[k] \in S
    OBVIOUS
<1>2. CASE \E k \in 0 .. n : given = SubSeq(journal, 1, k)
  <2>1. 1 \in 1 .. n + 1
      BY <1>1
  <2> QED
      BY <1>2, <2>1, PartsOfSequence
<1>3. CASE \E k \in 1 .. n : given = RemoveAt(journal, k)
    BY <1>3, PartsOfSequence
<1>4. CASE \E k \in 1 .. n : given = InsertAt(journal, k, journal[k])
  <2>1. \A k \in 1 .. n : k \in 1 .. n + 1
      BY <1>1
  <2> QED
      BY <1>1, <1>4, <2>1, PartsOfSequence
<1>5. CASE \E k \in 1 .. n - 1 : given = InsertAt(RemoveAt(journal, k), k + 1, journal[k])
  <2>1. PICK k \in 1 .. n - 1 : given = InsertAt(RemoveAt(journal, k), k + 1, journal[k])
      BY <1>5
  <2>2. k \in 1 .. n /\ k + 1 \in 1 .. (n - 1) + 1
      BY <1>1
  <2> DEFINE u == RemoveAt(journal, k)
  <2>3. u \in Seq(S) /\ Len(u) = n - 1
      BY <2>2, PartsOfSequence
  <2> HIDE DEF u
  <2>4. InsertAt(u, k + 1, journal[k]) \in Seq(S)
      BY <1>1, <2>2, <2>3, PartsOfSequence
  <2> QED
      BY <2>1, <2>4 DEF u
<1> QED
    BY <1>2, <1>3, <1>4, <1>5 DEF Stored

\* A replay goes on from the checkpoint: what the entries that the storage
\* gives back took is counted again, and nothing else.
LEMMA ReplayIntoKeeps ==
    ASSUME IInv, NEW journal \in Stored(Journal), ReplayInto(journal)
    PROVE  IInv'
<1> DEFINE t      == transcript
           from   == saved.from
           base   == Accounted(saved.checkpoint)
           before == SubSeq(t, 1, from)
           made   == Replay(saved.checkpoint, journal, session.number + 1)
           Log    == LoggedBy(Finished, supplied)
<1>1. /\ t \in Seq(Log) /\ t \in Seq(Entries)
      /\ from \in 0 .. Len(t) /\ from \in Nat
      /\ saved.checkpoint \in Sessions /\ Offers(saved.checkpoint)
      /\ base = TakenUpTo(t)[from]
      /\ session.number + 1 \in Nat \ {0}
      /\ calls \in 0 .. MaxCalls
    BY LoggedEntries DEF IInv, SavedInv, Able, Sessions, CallsInv
<1>2. Len(t) \in Nat
    BY <1>1
<1>3. journal \in Seq(Log)
  <2>1. from + 1 \in 1 .. Len(t) + 1 /\ Len(t) \in 0 .. Len(t)
      BY <1>1, <1>2
  <2> HIDE DEF Log
  <2>2. Journal \in Seq(Log)
      BY <1>1, <2>1, PartsOfSequence DEF Journal
  <2> QED
      BY <2>2, StoredEntries
<1>4. journal \in Seq(Sane) /\ journal \in Seq(Entries)
    BY <1>3, LoggedEntries
<1>5. /\ before \in Seq(Log) /\ before \in Seq(Entries)
      /\ Len(before) = from
      /\ \A k \in 1 .. from : before[k] = t[k]
  <2>1. \A k \in 1 .. from : t[k] \in Log
    <3>1. \A k \in 1 .. from : k \in 1 .. Len(t)
        BY <1>1, <1>2
    <3> HIDE DEF Log
    <3> QED
        BY <1>1, <3>1
  <2> HIDE DEF Log
  <2>2. /\ before \in Seq(Log)
        /\ Len(before) = IF 1 <= from THEN from - 1 + 1 ELSE 0
        /\ \A k \in 1 .. from - 1 + 1 : before[k] = t[1 + k - 1]
      BY <1>1, <2>1, SubSeqProperties
  <2>3. before \in Seq(Entries)
      BY <2>2, LoggedEntries DEF Log
  <2> HIDE DEF before
  <2>4. Len(before) = from
      BY <1>1, <2>2
  <2>5. ASSUME NEW k \in 1 .. from
        PROVE  before[k] = t[k]
    <3>1. k \in 1 .. from - 1 + 1 /\ 1 + k - 1 = k
        BY <1>1
    <3> QED
        BY <2>2, <3>1
  <2> QED
      BY <2>2, <2>3, <2>4, <2>5
<1>6. /\ made.ok
      /\ session' = made.session
      /\ call' = {}
      /\ transcript' = before \o journal
      /\ UNCHANGED <<supplied, calls, saved>>
    BY DEF ReplayInto
<1>7. Able(session)' /\ Accounted(session)' = base + Total(journal)
  <2>1. Able(made.session) /\ Accounted(made.session) = base + Total(journal)
      BY <1>1, <1>4, <1>6, ReplaySound
  <2>2. Able(session)' = Able(session') /\ Accounted(session)' = Accounted(session')
      BY DEF Able, Accounted
  <2> HIDE DEF made
  <2> QED
      BY <1>6, <2>1, <2>2
<1> HIDE DEF made, before, Log
<1>8. Total(before) = base /\ TakenUpTo(before)[from] = base
  <2>1. \A k \in 1 .. from : t[k] = before[k]
      BY <1>5
  <2>2. from <= Len(before)
      BY <1>1, <1>5
  <2>3. TakenUpTo(t)[from] = TakenUpTo(before)[from]
      BY <1>1, <1>5, <2>1, <2>2, TakenAgree
  <2> QED
      BY <1>1, <1>5, <2>3 DEF Total
<1>9. /\ Total(before \o journal) = base + Total(journal)
      /\ TakenUpTo(before \o journal)[from] = base
      /\ from <= Len(before \o journal)
  <2>1. from \in 0 .. Len(before)
      BY <1>1, <1>5
  <2>2. /\ Total(before \o journal) = Total(before) + Total(journal)
        /\ Len(before \o journal) >= Len(before)
        /\ TakenUpTo(before \o journal)[from] = TakenUpTo(before)[from]
      BY <1>4, <1>5, <2>1, LogGrows
  <2>3. Len(before \o journal) \in Nat
      BY <1>4, <1>5, ConcatProperties
  <2> QED
      BY <1>1, <1>5, <1>8, <2>2, <2>3
<1>10. Accounted(session)' = Total(transcript)'
  <2>1. Total(transcript)' = Total(before \o journal)
      BY <1>6 DEF Total
  <2> QED
      BY <1>7, <1>9, <2>1
<1>11. SavedInv'
    BY <1>1, <1>6, <1>9 DEF IInv, SavedInv
<1>12. CallsInv'
    BY <1>6 DEF IInv, CallsInv
<1>13. transcript' \in Seq(LoggedBy(Finished', supplied'))
  <2>1. /\ Finished \in Nat /\ Finished' \in Nat /\ Finished <= Finished'
    <3>1. call # {} => calls > 0
        BY DEF IInv, CallsInv
    <3>2. calls \in Nat /\ calls' = calls
        BY <1>1, <1>6
    <3> QED
        BY <1>6, <3>1, <3>2 DEF Finished
  <2>2. Log \subseteq LoggedBy(Finished', supplied')
      BY <1>6, <2>1, LogKept DEF Log
  <2>3. before \o journal \in Seq(Log)
      BY <1>3, <1>5, ConcatProperties
  <2> QED
      BY <1>6, <2>2, <2>3, SeqMonotone
<1> QED
    BY <1>7, <1>10, <1>11, <1>12, <1>13 DEF IInv

-------------------------------------------------------------------------------
(* What a journal makes again. *)

\* Sessions that differ in their numbers and bindings at most.
Alike(s, u) ==
    /\ u.revision = s.revision
    /\ u.accepted_random_values = s.accepted_random_values
    /\ u.save = s.save
    /\ PhaseUnder(u.reaction, 0) = PhaseUnder(s.reaction, 0)
    /\ PhaseUnder(u.slide, 0) = PhaseUnder(s.slide, 0)

\* What leaves the session is all of it but the number and the bindings.
LEMMA UnboundFields ==
    ASSUME NEW s \in Sessions
    PROVE  /\ Unbound(s) \in Sessions
           /\ Unbound(s).number = 0
           /\ Unbound(s).revision = s.revision
           /\ Unbound(s).accepted_random_values = s.accepted_random_values
           /\ Unbound(s).save = s.save
           /\ Unbound(s).reaction = PhaseUnder(s.reaction, 0)
           /\ Unbound(s).slide = PhaseUnder(s.slide, 0)
<1>1. ASSUME NEW phase
      PROVE  {[p EXCEPT !.binding = 0] : p \in phase} = PhaseUnder(phase, 0)
  <2>1. \A p : [p EXCEPT !.binding = 0] = Under(p, 0)
      BY DEF Under
  <2> QED
      BY <2>1 DEF PhaseUnder
<1> DEFINE a == {[p EXCEPT !.binding = 0] : p \in s.reaction}
           b == {[p EXCEPT !.binding = 0] : p \in s.slide}
<1>2. Unbound(s) = [s EXCEPT !.number = 0, !.reaction = a, !.slide = b]
    BY DEF Unbound
<1>3. a = PhaseUnder(s.reaction, 0) /\ b = PhaseUnder(s.slide, 0)
    BY <1>1
<1>4. a \in Phases /\ b \in Phases
  <2>1. s.reaction \in Phases /\ s.slide \in Phases
      BY DEF Sessions
  <2>2. PhaseUnder(s.reaction, 0) \in Phases /\ PhaseUnder(s.slide, 0) \in Phases
      BY <2>1, PhaseUnderFields
  <2> HIDE DEF a, b
  <2> QED
      BY <1>3, <2>2
<1> DEFINE u == Unbound(s)
<1>5. u = [s EXCEPT !.number = 0, !.reaction = a, !.slide = b]
    BY <1>2
<1> HIDE DEF a, b, u
<1>6. /\ u \in Sessions /\ u.number = 0 /\ u.revision = s.revision /\ u.save = s.save
      /\ u.accepted_random_values = s.accepted_random_values
      /\ u.reaction = a /\ u.slide = b
    BY <1>4, <1>5 DEF Sessions
<1> QED
    BY <1>3, <1>6 DEF u

\* Sessions are alike if what leaves them is equal.
LEMMA AlikeUnbound ==
    ASSUME NEW s \in Sessions, NEW u \in Sessions
    PROVE  Unbound(s) = Unbound(u) <=> Alike(s, u)
<1> DEFINE x == Unbound(s)
           y == Unbound(u)
<1>1. /\ x \in Sessions /\ y \in Sessions
      /\ x.number = 0 /\ y.number = 0
      /\ x.revision = s.revision /\ y.revision = u.revision
      /\ x.accepted_random_values = s.accepted_random_values
      /\ y.accepted_random_values = u.accepted_random_values
      /\ x.save = s.save /\ y.save = u.save
      /\ x.reaction = PhaseUnder(s.reaction, 0) /\ y.reaction = PhaseUnder(u.reaction, 0)
      /\ x.slide = PhaseUnder(s.slide, 0) /\ y.slide = PhaseUnder(u.slide, 0)
    BY UnboundFields
<1> HIDE DEF x, y
<1>2. Alike(s, u) => x = y
    BY <1>1 DEF Alike, Sessions
<1>3. x = y => Alike(s, u)
    BY <1>1 DEF Alike
<1> QED
    BY <1>2, <1>3 DEF x, y

\* Phases that agree but for their bindings hold the same command.
LEMMA AlikePhases ==
    ASSUME NEW a \in Phases, NEW b \in Phases, PhaseUnder(a, 0) = PhaseUnder(b, 0)
    PROVE  \/ a = {} /\ b = {}
           \/ \E p \in Pendings, q \in Pendings :
                 /\ a = {p} /\ b = {q}
                 /\ p.command = q.command
                 /\ p.values = q.values
                 /\ p.revision = q.revision
<1>1. CASE a = {}
  <2>1. PhaseUnder(a, 0) = {} /\ PhaseUnder(b, 0) = {}
      BY <1>1, PhaseUnderFields
  <2>2. b = {}
      BY <2>1, PhaseUnderFields
  <2> QED
      BY <1>1, <2>2
<1>2. CASE a # {}
  <2>1. PICK p \in Pendings : a = {p}
      BY <1>2 DEF Phases
  <2>2. b # {}
      BY <1>2, PhaseUnderFields
  <2>3. PICK q \in Pendings : b = {q}
      BY <2>2 DEF Phases
  <2>4. PhaseUnder(a, 0) = {Under(p, 0)} /\ PhaseUnder(b, 0) = {Under(q, 0)}
      BY <2>1, <2>3 DEF PhaseUnder
  <2>5. Under(p, 0) = Under(q, 0)
      BY <2>4
  <2>6. p.command = q.command /\ p.values = q.values /\ p.revision = q.revision
    <3>1. /\ Under(p, 0).command = p.command /\ Under(q, 0).command = q.command
          /\ Under(p, 0).values = p.values /\ Under(q, 0).values = q.values
          /\ Under(p, 0).revision = p.revision /\ Under(q, 0).revision = q.revision
        BY UnderFields
    <3> QED
        BY <2>5, <3>1
  <2> QED
      BY <2>1, <2>3, <2>6
<1> QED
    BY <1>1, <1>2

\* And the other way around.
LEMMA AlikeCommands ==
    ASSUME NEW p \in Pendings, NEW q \in Pendings,
           p.command = q.command, p.values = q.values, p.revision = q.revision
    PROVE  PhaseUnder({p}, 0) = PhaseUnder({q}, 0)
<1> DEFINE x == Under(p, 0)
           y == Under(q, 0)
<1>1. /\ x \in Pendings /\ y \in Pendings
      /\ x.command = y.command /\ x.values = y.values /\ x.revision = y.revision
      /\ x.binding = 0 /\ y.binding = 0
    BY UnderFields
<1> HIDE DEF x, y
<1>2. x = y
    BY <1>1 DEF Pendings
<1> QED
    BY <1>2 DEF PhaseUnder, x, y

\* No evidence is evidence too.
LEMMA NoValues == <<>> \in Seq(Rolls)
OBVIOUS

\* The same transaction, carried out in both.
LEMMA CommittedAlike ==
    ASSUME NEW s \in Sessions, NEW u \in Sessions, Alike(s, u),
           NEW captured \in Seq(Rolls), NEW values \in Seq(Rolls)
    PROVE  /\ Alike(Committed(s, captured, values), Committed(u, captured, values))
           /\ Committed(s, captured, values) \in Sessions
           /\ Committed(s, captured, values).reaction = s.reaction
           /\ Committed(s, captured, values).slide = s.slide
           /\ Committed(s, captured, values).save = s.save
<1> DEFINE x == Committed(s, captured, values)
           y == Committed(u, captured, values)
<1>1. /\ x.reaction = s.reaction /\ y.reaction = u.reaction
      /\ x.slide = s.slide /\ y.slide = u.slide
      /\ x.save = s.save /\ y.save = u.save
      /\ x.accepted_random_values = s.accepted_random_values + Len(captured) + Len(values)
      /\ y.accepted_random_values = u.accepted_random_values + Len(captured) + Len(values)
      /\ x \in Sessions
    BY CommittedFields
<1>2. x.revision = s.revision + 1 /\ y.revision = u.revision + 1
    BY DEF Committed, Sessions
<1> HIDE DEF x, y
<1>3. Alike(x, y)
    BY <1>1, <1>2 DEF Alike
<1> QED
    BY <1>1, <1>3 DEF x, y

\* Both phases are empty, or neither is.
LEMMA AlikeEmpty ==
    ASSUME NEW s \in Sessions, NEW u \in Sessions, Alike(s, u)
    PROVE  /\ s.reaction = {} <=> u.reaction = {}
           /\ s.slide = {} <=> u.slide = {}
           /\ s.save = u.save
           /\ s.revision = u.revision
<1>1. /\ s.reaction \in Phases /\ u.reaction \in Phases
      /\ s.slide \in Phases /\ u.slide \in Phases
    BY DEF Sessions
<1>2. /\ PhaseUnder(s.reaction, 0) = PhaseUnder(u.reaction, 0)
      /\ PhaseUnder(s.slide, 0) = PhaseUnder(u.slide, 0)
    BY DEF Alike
<1>3. s.reaction = {} <=> u.reaction = {}
    BY <1>1, <1>2, AlikePhases
<1>4. s.slide = {} <=> u.slide = {}
    BY <1>1, <1>2, AlikePhases
<1> QED
    BY <1>3, <1>4 DEF Alike

\* A command submitted to both has the same outcome.
LEMMA SubmitAlike ==
    ASSUME NEW s \in Sessions, NEW u \in Sessions, Alike(s, u),
           NEW id \in DOMAIN Commands, NEW values \in Seq(Rolls), Measured(id, values)
    PROVE  /\ PerformSubmit(s, id, values).outcome = PerformSubmit(u, id, values).outcome
           /\ Alike(PerformSubmit(s, id, values).session, PerformSubmit(u, id, values).session)
<1> DEFINE outcome == Resolve(id, values, FALSE)
           x == PerformSubmit(s, id, values)
           y == PerformSubmit(u, id, values)
<1>1. (s.reaction # {} \/ s.slide # {} \/ s.save # {}) <=>
         (u.reaction # {} \/ u.slide # {} \/ u.save # {})
    BY AlikeEmpty
<1>2. CASE s.reaction # {} \/ s.slide # {} \/ s.save # {}
  <2>1. x.outcome = Outcome("rejected") /\ x.session = s
      BY <1>2 DEF PerformSubmit, Reject
  <2>2. y.outcome = Outcome("rejected") /\ y.session = u
      BY <1>1, <1>2 DEF PerformSubmit, Reject
  <2> QED
      BY <2>1, <2>2
<1>3. CASE ~(s.reaction # {} \/ s.slide # {} \/ s.save # {})
  <2> DEFINE of(t) ==
         CASE outcome.kind = "accepted" -> Committed(t, <<>>, values)
           [] outcome.kind \in {"reaction", "movement"} ->
                 [t EXCEPT !.reaction = {Suspend(t, id, values)}]
           [] outcome.kind = "slide" -> [t EXCEPT !.slide = {Suspend(t, id, values)}]
           [] OTHER -> t
  <2>1. x.outcome = outcome /\ x.session = of(s)
      BY <1>3 DEF PerformSubmit
  <2>2. y.outcome = outcome /\ y.session = of(u)
      BY <1>1, <1>3 DEF PerformSubmit
  <2> DEFINE k == outcome.kind
  <2>3. k \in {"reaction", "movement", "slide"} =>
           Hits(id, values) /\ Len(values) >= Commands[id].checks /\ Commands[id].decision = k
      BY ResolveOutcomes
  <2>4. CASE k = "accepted"
    <3>1. of(s) = Committed(s, <<>>, values) /\ of(u) = Committed(u, <<>>, values)
        BY <2>4
    <3>2. Alike(Committed(s, <<>>, values), Committed(u, <<>>, values))
        BY NoValues, CommittedAlike
    <3> HIDE DEF of
    <3> QED
        BY <2>1, <2>2, <3>1, <3>2
  <2>5. CASE k \in {"reaction", "movement", "slide"}
    <3> DEFINE p == Suspend(s, id, values)
               q == Suspend(u, id, values)
    <3>1. Commands[id].decision # "none"
        BY <2>3, <2>5
    <3>0. Hits(id, values) /\ Len(values) >= Commands[id].checks
        BY <2>3, <2>5
    <3> HIDE DEF of, outcome, k
    <3>2. /\ p \in Pendings /\ q \in Pendings
          /\ p.command = q.command /\ p.values = q.values
          /\ p.revision = s.revision /\ q.revision = u.revision
      <4>1. p \in Pendings /\ p.command = id /\ p.values = values /\ p.revision = s.revision
          BY <3>0, <3>1, SuspendedCommand
      <4>2. q \in Pendings /\ q.command = id /\ q.values = values /\ q.revision = u.revision
          BY <3>0, <3>1, SuspendedCommand
      <4> QED
          BY <4>1, <4>2
    <3>3. p.revision = q.revision
        BY <3>2, AlikeEmpty
    <3>4. CASE k \in {"reaction", "movement"}
      <4>1. of(s) = [s EXCEPT !.reaction = {p}] /\ of(u) = [u EXCEPT !.reaction = {q}]
          BY <3>4 DEF of, k
      <4> HIDE DEF p, q
      <4>2. PhaseUnder({p}, 0) = PhaseUnder({q}, 0)
          BY <3>2, <3>3, AlikeCommands
      <4>3. Alike(of(s), of(u))
          BY <4>1, <4>2 DEF Alike, Sessions
      <4> QED
          BY <2>1, <2>2, <4>3
    <3>5. CASE k = "slide"
      <4>1. of(s) = [s EXCEPT !.slide = {p}] /\ of(u) = [u EXCEPT !.slide = {q}]
          BY <3>5 DEF of, k
      <4> HIDE DEF p, q
      <4>2. PhaseUnder({p}, 0) = PhaseUnder({q}, 0)
          BY <3>2, <3>3, AlikeCommands
      <4>3. Alike(of(s), of(u))
          BY <4>1, <4>2 DEF Alike, Sessions
      <4> QED
          BY <2>1, <2>2, <4>3
    <3> QED
        BY <2>5, <3>4, <3>5
  <2>6. CASE k \notin {"accepted", "reaction", "movement", "slide"}
    <3>1. of(s) = s /\ of(u) = u
        BY <2>6
    <3> QED
        BY <2>1, <2>2, <3>1
  <2> QED
      BY <2>4, <2>5, <2>6
<1> QED
    BY <1>2, <1>3

\* The end of a turn has the same outcome in both.
LEMMA ControlAlike ==
    ASSUME NEW s \in Sessions, NEW u \in Sessions, Alike(s, u), NEW values \in Seq(Rolls)
    PROVE  /\ PerformControl(s, values).outcome = PerformControl(u, values).outcome
           /\ Alike(PerformControl(s, values).session, PerformControl(u, values).session)
<1> DEFINE x == PerformControl(s, values)
           y == PerformControl(u, values)
           n == Saves[s.revision]
<1>1. /\ s.reaction = {} <=> u.reaction = {}
      /\ s.save = u.save
      /\ s.revision = u.revision
    BY AlikeEmpty
<1>2. CASE s.reaction # {}
  <2>1. x = Reject(s) /\ y = Reject(u)
      BY <1>1, <1>2 DEF PerformControl
  <2> QED
      BY <2>1 DEF Reject
<1>3. CASE s.reaction = {} /\ s.save # {}
  <2>1. x = CASE Len(values) < n -> [outcome |-> Request(1), session |-> s]
              [] Len(values) = n ->
                    [outcome |-> Outcome("accepted"),
                     session |-> [Committed(s, <<>>, values) EXCEPT !.save = {}]]
              [] OTHER -> Reject(s)
      BY <1>3 DEF PerformControl
  <2>2. y = CASE Len(values) < n -> [outcome |-> Request(1), session |-> u]
              [] Len(values) = n ->
                    [outcome |-> Outcome("accepted"),
                     session |-> [Committed(u, <<>>, values) EXCEPT !.save = {}]]
              [] OTHER -> Reject(u)
      BY <1>1, <1>3 DEF PerformControl
  <2> DEFINE a == Committed(s, <<>>, values)
             b == Committed(u, <<>>, values)
  <2>3. Alike(a, b) /\ a \in Sessions /\ b \in Sessions
    <3>1. Alike(u, s)
        BY DEF Alike
    <3> QED
        BY <3>1, NoValues, CommittedAlike
  <2> HIDE DEF a, b, x, y, n
  <2>4. Alike([a EXCEPT !.save = {}], [b EXCEPT !.save = {}])
      BY <2>3 DEF Alike, Sessions
  <2>5. CASE Len(values) < n
      BY <2>1, <2>2, <2>5 DEF x, y
  <2>6. CASE ~(Len(values) < n) /\ Len(values) = n
    <3>1. x.outcome = y.outcome
        BY <2>1, <2>2, <2>6
    <3>2. x.session = [a EXCEPT !.save = {}] /\ y.session = [b EXCEPT !.save = {}]
        BY <2>1, <2>2, <2>6 DEF a, b
    <3> QED
        BY <2>4, <3>1, <3>2 DEF x, y
  <2>7. CASE ~(Len(values) < n) /\ Len(values) # n
    <3>1. x = Reject(s) /\ y = Reject(u)
        BY <2>1, <2>2, <2>7
    <3> QED
        BY <3>1 DEF Reject, x, y
  <2> QED
      BY <2>5, <2>6, <2>7
<1>4. CASE s.reaction = {} /\ s.save = {}
  <2>1. x = CASE values # <<>> -> Reject(s)
              [] values = <<>> /\ n > 0 ->
                    [outcome |-> Outcome("save"), session |-> [s EXCEPT !.save = {n}]]
              [] OTHER -> [outcome |-> Outcome("accepted"),
                           session |-> Committed(s, <<>>, <<>>)]
      BY <1>4 DEF PerformControl
  <2>2. y = CASE values # <<>> -> Reject(u)
              [] values = <<>> /\ n > 0 ->
                    [outcome |-> Outcome("save"), session |-> [u EXCEPT !.save = {n}]]
              [] OTHER -> [outcome |-> Outcome("accepted"),
                           session |-> Committed(u, <<>>, <<>>)]
      BY <1>1, <1>4 DEF PerformControl
  <2> DEFINE a == Committed(s, <<>>, <<>>)
             b == Committed(u, <<>>, <<>>)
  <2>3. Alike(a, b)
      BY NoValues, CommittedAlike
  <2> HIDE DEF a, b, x, y, n
  <2>4. Alike([s EXCEPT !.save = {n}], [u EXCEPT !.save = {n}])
      BY DEF Alike, Sessions
  <2>5. CASE values # <<>>
    <3>1. x = Reject(s) /\ y = Reject(u)
        BY <2>1, <2>2, <2>5
    <3> QED
        BY <3>1 DEF Reject, x, y
  <2>6. CASE values = <<>> /\ n > 0
    <3>1. /\ x.outcome = Outcome("save") /\ y.outcome = Outcome("save")
          /\ x.session = [s EXCEPT !.save = {n}] /\ y.session = [u EXCEPT !.save = {n}]
        BY <2>1, <2>2, <2>6
    <3> QED
        BY <2>4, <3>1 DEF x, y
  <2>7. CASE values = <<>> /\ ~(n > 0)
    <3>1. x.outcome = y.outcome /\ x.session = a /\ y.session = b
        BY <2>1, <2>2, <2>7 DEF a, b
    <3> QED
        BY <2>3, <3>1 DEF x, y
  <2> QED
      BY <2>5, <2>6, <2>7
<1> QED
    BY <1>2, <1>3, <1>4

\* A decision that names the pending command in both, or in neither, has the
\* same outcome.
LEMMA DecisionAlike ==
    ASSUME NEW s \in Sessions, NEW u \in Sessions, Alike(s, u),
           NEW phase \in {"reaction", "slide"}, NEW b, NEW c, NEW values \in Seq(Rolls),
           \A p \in s[phase], q \in u[phase] : p.binding = b <=> q.binding = c
    PROVE  /\ PerformDecision(s, phase, b, values).outcome
                 = PerformDecision(u, phase, c, values).outcome
           /\ Alike(PerformDecision(s, phase, b, values).session,
                    PerformDecision(u, phase, c, values).session)
<1> DEFINE x == PerformDecision(s, phase, b, values)
           y == PerformDecision(u, phase, c, values)
           sStops == \/ s.save # {}
                     \/ phase = "slide" /\ s.reaction # {}
                     \/ \A p \in s[phase] : p.revision # s.revision \/ p.binding # b
           uStops == \/ u.save # {}
                     \/ phase = "slide" /\ u.reaction # {}
                     \/ \A q \in u[phase] : q.revision # u.revision \/ q.binding # c
<1>1. /\ s.reaction = {} <=> u.reaction = {}
      /\ s.save = u.save
      /\ s.revision = u.revision
    BY AlikeEmpty
<1>2. /\ s[phase] \in Phases /\ u[phase] \in Phases
      /\ PhaseUnder(s[phase], 0) = PhaseUnder(u[phase], 0)
  <2>1. /\ s["reaction"] = s.reaction /\ s["slide"] = s.slide
        /\ u["reaction"] = u.reaction /\ u["slide"] = u.slide
      OBVIOUS
  <2> QED
      BY <2>1 DEF Sessions, Alike
<1>3. \/ s[phase] = {} /\ u[phase] = {}
      \/ \E p \in Pendings, q \in Pendings :
            /\ s[phase] = {p} /\ u[phase] = {q}
            /\ p.command = q.command
            /\ p.values = q.values
            /\ p.revision = q.revision
    BY <1>2, AlikePhases
<1>4. sStops <=> uStops
    BY <1>1, <1>3
<1>5. CASE sStops
  <2>1. x = Reject(s) /\ y = Reject(u)
    <3>1. uStops
        BY <1>4, <1>5
    <3>2. x = Reject(s)
        BY <1>5 DEF PerformDecision
    <3>3. y = Reject(u)
        BY <3>1 DEF PerformDecision
    <3> QED
        BY <3>2, <3>3
  <2> QED
      BY <2>1 DEF Reject
<1>6. CASE ~sStops
  <2>1. PICK p \in Pendings, q \in Pendings :
           /\ s[phase] = {p} /\ u[phase] = {q}
           /\ p.command = q.command
           /\ p.values = q.values
      BY <1>3, <1>6
  <2>2. (CHOOSE r \in s[phase] : TRUE) = p /\ (CHOOSE r \in u[phase] : TRUE) = q
      BY <2>1
  <2> DEFINE outcome == Resolve(p.command, p.values \o values, TRUE)
             a == Committed(s, p.values, values)
             d == Committed(u, p.values, values)
  <2>3. x = [outcome |-> outcome,
             session |-> IF outcome.kind = "accepted" THEN [a EXCEPT ![phase] = {}] ELSE s]
      BY <1>6, <2>2 DEF PerformDecision
  <2>4. y = [outcome |-> outcome,
             session |-> IF outcome.kind = "accepted" THEN [d EXCEPT ![phase] = {}] ELSE u]
    <3>1. ~uStops
        BY <1>4, <1>6
    <3> QED
        BY <2>1, <2>2, <3>1 DEF PerformDecision
  <2>5. Alike(a, d) /\ a \in Sessions /\ d \in Sessions
    <3>1. p.values \in Seq(Rolls)
        BY DEF Pendings
    <3>2. Alike(u, s)
        BY DEF Alike
    <3> QED
        BY <3>1, <3>2, CommittedAlike
  <2> HIDE DEF a, d, outcome, x, y
  <2>6. Alike([a EXCEPT ![phase] = {}], [d EXCEPT ![phase] = {}])
    <3>1. CASE phase = "reaction"
        BY <2>5, <3>1 DEF Alike, Sessions
    <3>2. CASE phase = "slide"
        BY <2>5, <3>2 DEF Alike, Sessions
    <3> QED
        BY <3>1, <3>2
  <2>7. x.outcome = y.outcome
      BY <2>3, <2>4
  <2>8. Alike(x.session, y.session)
    <3>1. CASE outcome.kind = "accepted"
      <4>1. x.session = [a EXCEPT ![phase] = {}] /\ y.session = [d EXCEPT ![phase] = {}]
          BY <2>3, <2>4, <3>1
      <4> QED
          BY <2>6, <4>1
    <3>2. CASE outcome.kind # "accepted"
      <4>1. x.session = s /\ y.session = u
          BY <2>3, <2>4, <3>2
      <4> QED
          BY <4>1
    <3> QED
        BY <3>1, <3>2
  <2> QED
      BY <2>7, <2>8 DEF x, y
<1> QED
    BY <1>5, <1>6

\* A save phase waits for the candidates of its revision, and for nothing else.
Phased(s) ==
    s.save # {} => /\ s.reaction = {} /\ s.slide = {}
                   /\ s.save = {Saves[s.revision]}
                   /\ Saves[s.revision] > 0

\* What a checkpoint holds, if it can be restored: nothing of it is bound, and
\* a slide is not left behind.
Restorable(c) ==
    /\ c \in Sessions
    /\ Offers(c)
    /\ Phased(c)
    /\ Unbound(c) = c
    /\ ~LeftBehind(c)

\* A pending command that is submitted again stops where it stopped.
LEMMA SuspendsAgain ==
    ASSUME NEW p \in Pendings, NEW s, Captured(s, p), Commands[p.command].decision # "none"
    PROVE  Resolve(p.command, p.values, FALSE) = Outcome(Commands[p.command].decision)
<1>1. /\ Len(p.values) = Commands[p.command].checks
      /\ Hits(p.command, p.values)
      /\ Commands[p.command].checks \in Nat
    BY RecordedAssumption DEF Captured, Pendings
<1> QED
    BY <1>1 DEF Resolve, Hits

\* A number given to a phase leaves it the same otherwise.
LEMMA PhaseUnderAgain ==
    ASSUME NEW phase \in Phases, NEW n \in Nat
    PROVE  PhaseUnder(PhaseUnder(phase, n), 0) = PhaseUnder(phase, 0)
<1>1. CASE phase = {}
  <2>1. PhaseUnder(phase, n) = phase
      BY <1>1 DEF PhaseUnder
  <2> QED
      BY <2>1
<1>2. CASE phase # {}
  <2>1. PICK p \in Pendings : phase = {p}
      BY <1>2 DEF Phases
  <2>2. PhaseUnder(phase, n) = {Under(p, n)}
      BY <2>1 DEF PhaseUnder
  <2>3. /\ Under(p, n) \in Pendings
        /\ Under(p, n).command = p.command
        /\ Under(p, n).values = p.values
        /\ Under(p, n).revision = p.revision
      BY UnderFields
  <2>4. PhaseUnder({Under(p, n)}, 0) = PhaseUnder({p}, 0)
      BY <2>3, AlikeCommands
  <2> QED
      BY <2>1, <2>2, <2>4
<1> QED
    BY <1>1, <1>2

\* A session made of another under a new number is like it.
LEMMA ReboundAlike ==
    ASSUME NEW s \in Sessions, NEW n \in Nat
    PROVE  Rebound(s, n) \in Sessions /\ Unbound(Rebound(s, n)) = Unbound(s)
<1> DEFINE a == PhaseUnder(s.reaction, n)
           b == PhaseUnder(s.slide, n)
           u == Rebound(s, n)
<1>1. s.reaction \in Phases /\ s.slide \in Phases
    BY DEF Sessions
<1>2. /\ a \in Phases /\ b \in Phases
      /\ PhaseUnder(a, 0) = PhaseUnder(s.reaction, 0)
      /\ PhaseUnder(b, 0) = PhaseUnder(s.slide, 0)
  <2>1. a \in Phases /\ PhaseUnder(a, 0) = PhaseUnder(s.reaction, 0)
      BY <1>1, PhaseUnderFields, PhaseUnderAgain
  <2>2. b \in Phases /\ PhaseUnder(b, 0) = PhaseUnder(s.slide, 0)
      BY <1>1, PhaseUnderFields, PhaseUnderAgain
  <2> QED
      BY <2>1, <2>2
<1>3. u = [s EXCEPT !.number = n, !.reaction = a, !.slide = b]
    BY DEF Rebound, PhaseUnder, Under
<1> HIDE DEF a, b, u
<1>4. u \in Sessions /\ Alike(s, u)
    BY <1>2, <1>3 DEF Sessions, Alike
<1>5. Unbound(s) = Unbound(u)
    BY <1>4, AlikeUnbound
<1> QED
    BY <1>4, <1>5 DEF u

\* A checkpoint that is not left behind is accepted and restores what it holds.
LEMMA Restores ==
    ASSUME NEW c, Restorable(c), NEW number \in Nat \ {0}
    PROVE  /\ Restore(c, number).ok
           /\ Able(Restore(c, number).session)
           /\ Unbound(Restore(c, number).session) = c
<1> DEFINE baseline == [c EXCEPT !.number = number, !.reaction = {}, !.slide = {}, !.save = {}]
           again == {PerformSubmit(baseline, p.command, p.values).session :
                        p \in c.reaction \cup c.slide}
                      \cup {PerformControl(baseline, <<>>).session : x \in c.save}
           proof == ProvePhase(c, number)
<1>1. c \in Sessions /\ Offers(c) /\ Phased(c) /\ Unbound(c) = c
    BY DEF Restorable
<1>2. /\ baseline \in Sessions
      /\ baseline.reaction = {} /\ baseline.slide = {} /\ baseline.save = {}
      /\ baseline.revision = c.revision
      /\ baseline.accepted_random_values = c.accepted_random_values
    BY <1>1 DEF Sessions, Phases
<1>3. proof = IF again = {} THEN baseline ELSE CHOOSE s \in again : TRUE
    BY DEF ProvePhase
<1>4. \A x : (CHOOSE s \in {x} : TRUE) = x
    OBVIOUS
<1> HIDE DEF baseline, proof
<1>5. ASSUME c.reaction = {}, c.slide = {}, c.save = {}
      PROVE  proof \in Sessions /\ Alike(c, proof)
  <2>1. again = {}
      BY <1>5
  <2>2. proof = baseline
      BY <1>3, <2>1
  <2> QED
      BY <1>2, <1>5, <2>2 DEF Alike
<1>6. ASSUME NEW p \in Pendings, Captured(c, p), p.revision = c.revision,
             Commands[p.command].decision # "none"
      PROVE  LET q == Suspend(baseline, p.command, p.values)
             IN  /\ q \in Pendings
                 /\ PhaseUnder({q}, 0) = PhaseUnder({p}, 0)
                 /\ PerformSubmit(baseline, p.command, p.values).session =
                      CASE Commands[p.command].decision \in {"reaction", "movement"} ->
                              [baseline EXCEPT !.reaction = {q}]
                        [] Commands[p.command].decision = "slide" ->
                              [baseline EXCEPT !.slide = {q}]
  <2> DEFINE q == Suspend(baseline, p.command, p.values)
  <2>1. /\ p.command \in DOMAIN Commands
        /\ p.values \in Seq(Rolls)
        /\ Commands[p.command].checks \in Nat
        /\ Commands[p.command].decision \in {"reaction", "movement", "slide"}
      BY <1>6, RecordedAssumption DEF Pendings
  <2>2. Measured(p.command, p.values) /\ Len(p.values) >= Commands[p.command].checks
        /\ Hits(p.command, p.values)
      BY <1>6, <2>1 DEF Captured, Measured
  <2>3. /\ q \in Pendings /\ q.command = p.command /\ q.values = p.values
        /\ q.revision = baseline.revision
      BY <1>2, <1>6, <2>1, <2>2, SuspendedCommand
  <2> HIDE DEF q
  <2>4. PhaseUnder({q}, 0) = PhaseUnder({p}, 0)
      BY <1>2, <1>6, <2>3, AlikeCommands
  <2>5. Resolve(p.command, p.values, FALSE) = Outcome(Commands[p.command].decision)
      BY <1>6, SuspendsAgain
  <2> DEFINE k == Commands[p.command].decision
  <2>6. PerformSubmit(baseline, p.command, p.values).session =
           CASE k \in {"reaction", "movement"} -> [baseline EXCEPT !.reaction = {q}]
             [] k = "slide" -> [baseline EXCEPT !.slide = {q}]
    <3>0. \A d : Outcome(d).kind = d
        BY DEF Outcome
    <3>1. Resolve(p.command, p.values, FALSE).kind = k /\ k \in {"reaction", "movement", "slide"}
        BY <2>1, <2>5, <3>0
    <3> HIDE DEF k
    <3>2. CASE k \in {"reaction", "movement"}
        BY <1>2, <3>1, <3>2 DEF PerformSubmit, q
    <3>3. CASE k = "slide"
        BY <1>2, <3>1, <3>3 DEF PerformSubmit, q
    <3> QED
        BY <3>1, <3>2, <3>3
  <2> QED
      BY <2>3, <2>4, <2>6 DEF q
<1>7. ASSUME c.reaction # {}
      PROVE  proof \in Sessions /\ Alike(c, proof)
  <2>1. c.slide = {} /\ c.save = {}
      BY <1>1, <1>7 DEF Offers, Phased
  <2>2. PICK p \in Pendings : c.reaction = {p}
      BY <1>1, <1>7 DEF Sessions, Phases
  <2>3. /\ Captured(c, p) /\ p.revision = c.revision
        /\ Commands[p.command].decision \in {"reaction", "movement"}
      BY <1>1, <2>2 DEF Offers
  <2>4. PICK q \in Pendings :
           /\ PhaseUnder({q}, 0) = PhaseUnder({p}, 0)
           /\ PerformSubmit(baseline, p.command, p.values).session = [baseline EXCEPT !.reaction = {q}]
      BY <1>6, <2>3
  <2>5. again = {PerformSubmit(baseline, p.command, p.values).session}
      BY <2>1, <2>2
  <2> HIDE DEF again
  <2>6. proof = [baseline EXCEPT !.reaction = {q}]
      BY <1>3, <1>4, <2>4, <2>5
  <2> QED
      BY <1>2, <2>1, <2>2, <2>4, <2>6 DEF Alike, Sessions, Phases
<1>8. ASSUME c.slide # {}
      PROVE  proof \in Sessions /\ Alike(c, proof)
  <2>1. c.reaction = {} /\ c.save = {}
      BY <1>1, <1>8 DEF Offers, Phased
  <2>2. PICK p \in Pendings : c.slide = {p}
      BY <1>1, <1>8 DEF Sessions, Phases
  <2>3. /\ Captured(c, p) /\ p.revision = c.revision
        /\ Commands[p.command].decision = "slide"
      BY <1>1, <2>2 DEF Offers, Restorable, LeftBehind
  <2>4. PICK q \in Pendings :
           /\ PhaseUnder({q}, 0) = PhaseUnder({p}, 0)
           /\ PerformSubmit(baseline, p.command, p.values).session = [baseline EXCEPT !.slide = {q}]
      BY <1>6, <2>3
  <2>5. again = {PerformSubmit(baseline, p.command, p.values).session}
      BY <2>1, <2>2
  <2> HIDE DEF again
  <2>6. proof = [baseline EXCEPT !.slide = {q}]
      BY <1>3, <1>4, <2>4, <2>5
  <2> QED
      BY <1>2, <2>1, <2>2, <2>4, <2>6 DEF Alike, Sessions, Phases
<1>9. ASSUME c.save # {}
      PROVE  proof \in Sessions /\ Alike(c, proof)
  <2>1. /\ c.reaction = {} /\ c.slide = {}
        /\ c.save = {Saves[c.revision]} /\ Saves[c.revision] > 0
      BY <1>1, <1>9 DEF Phased
  <2>2. PerformControl(baseline, <<>>).session = [baseline EXCEPT !.save = {Saves[c.revision]}]
      BY <1>2, <2>1 DEF PerformControl
  <2>3. again = {PerformControl(baseline, <<>>).session}
      BY <2>1
  <2> HIDE DEF again
  <2>4. proof = [baseline EXCEPT !.save = c.save]
      BY <1>3, <1>4, <2>1, <2>2, <2>3
  <2> QED
      BY <1>1, <1>2, <2>1, <2>4 DEF Alike, Sessions
<1>10. proof \in Sessions /\ Alike(c, proof)
    BY <1>2, <1>5, <1>7, <1>8, <1>9 DEF Sessions
<1>11. Unbound(proof) = c
    BY <1>1, <1>10, AlikeUnbound
<1>12. Restore(c, number) = Made(Rebound(proof, number + 1))
    BY <1>11 DEF Restore, proof
<1>13. Unbound(Rebound(proof, number + 1)) = c
    BY <1>10, <1>11, ReboundAlike
<1>14. Restore(c, number).ok /\ Unbound(Restore(c, number).session) = c
    BY <1>12, <1>13 DEF Made
<1> QED
    BY <1>1, <1>14, RestoreSound

-------------------------------------------------------------------------------
(* Entries that replay. *)

\* An entry that some session has recorded.
Faithful(e) ==
    /\ Phased(e.after)
    /\ \E s \in Sessions :
          /\ Offers(s)
          /\ e.before = Unbound(s)
          /\ e.outcome = Perform(s, e.operation).outcome
          /\ e.after = Unbound(Perform(s, e.operation).session)

\* Whatever a decision was refused for, a phase that waits for another session's
\* option is named by its own session alone.
LEMMA Reissues ==
    ASSUME NEW s \in Sessions, Offers(s), NEW u \in Sessions, Offers(u), Alike(s, u),
           u.number # 0,
           NEW op \in Operations, op.kind \in {"react", "slide"},
           \/ Perform(s, op).outcome.kind # "rejected"
           \/ \A p \in s.reaction \cup s.slide : Commands[p.command].decision = "reaction"
    PROVE  LET phase == IF op.kind = "react" THEN "reaction" ELSE "slide"
           IN  \A p \in s[phase], q \in u[phase] :
                  p.binding = op.binding <=> q.binding = Reissued(u, op).binding
<1> DEFINE phase == IF op.kind = "react" THEN "reaction" ELSE "slide"
<1> SUFFICES ASSUME NEW p \in s[phase], NEW q \in u[phase]
             PROVE  p.binding = op.binding <=> q.binding = Reissued(u, op).binding
    OBVIOUS
<1>1. /\ s["reaction"] = s.reaction /\ s["slide"] = s.slide
      /\ u["reaction"] = u.reaction /\ u["slide"] = u.slide
    OBVIOUS
<1>2. /\ s[phase] \in Phases /\ u[phase] \in Phases
      /\ PhaseUnder(s[phase], 0) = PhaseUnder(u[phase], 0)
    BY <1>1 DEF Sessions, Alike
<1>3. /\ p \in Pendings /\ q \in Pendings
      /\ s[phase] = {p} /\ u[phase] = {q}
      /\ p.command = q.command
    BY <1>2, AlikePhases
<1>4. /\ Commands[p.command].decision \in {"reaction", "movement", "slide"}
      /\ p.binding = Binding(s, p.command)
      /\ q.binding = Binding(u, p.command)
    BY <1>1, <1>3 DEF Offers, Captured
<1>5. Perform(s, op) = PerformDecision(s, phase, op.binding, op.values)
    BY DEF Perform
<1>6. p.binding # op.binding => Perform(s, op).outcome.kind = "rejected"
    BY <1>3, <1>5 DEF PerformDecision, Reject, Outcome
<1>7. CASE op.kind = "slide"
  <2>1. Commands[p.command].decision = "slide"
      BY <1>1, <1>7 DEF Offers
  <2>2. p.binding = op.binding
      BY <1>1, <1>6, <1>7, <2>1
  <2>3. Reissued(u, op).binding = u.number
      BY <1>7 DEF Reissued, Operations
  <2> QED
      BY <1>4, <2>1, <2>2, <2>3 DEF Binding
<1>8. CASE op.kind = "react"
  <2>1. u.reaction = {q}
      BY <1>1, <1>3, <1>8
  <2>2. CASE Commands[p.command].decision = "reaction"
    <3>1. p.binding = 0 /\ q.binding = 0
        BY <1>4, <2>2 DEF Binding
    <3>2. Reissued(u, op).binding = op.binding
        BY <1>8, <2>1, <3>1 DEF Reissued, Operations
    <3> QED
        BY <3>1, <3>2
  <2>3. CASE Commands[p.command].decision # "reaction"
    <3>1. p.binding = op.binding
        BY <1>1, <1>6, <1>8, <2>3
    <3>2. q.binding = u.number
        BY <1>4, <2>3 DEF Binding
    <3>3. Reissued(u, op).binding = u.number
        BY <1>8, <2>1, <3>2 DEF Reissued, Operations
    <3> QED
        BY <3>1, <3>2, <3>3
  <2> QED
      BY <2>2, <2>3
<1> QED
    BY <1>7, <1>8

\* An operation that was recorded is the same for every session that is alike.
LEMMA PerformAlike ==
    ASSUME NEW s \in Sessions, Offers(s), NEW u \in Sessions, Offers(u), Alike(s, u),
           u.number # 0,
           NEW op \in Operations, Legal(op),
           \/ op.kind \notin {"react", "slide"}
           \/ Perform(s, op).outcome.kind # "rejected"
           \/ \A p \in s.reaction \cup s.slide : Commands[p.command].decision = "reaction"
    PROVE  /\ Perform(u, Reissued(u, op)).outcome = Perform(s, op).outcome
           /\ Alike(Perform(s, op).session, Perform(u, Reissued(u, op)).session)
<1> DEFINE new == Reissued(u, op)
<1>1. op.values \in Seq(Rolls) /\ op.kind \in {"submit", "react", "slide", "control"}
    BY DEF Operations
<1>2. CASE op.kind = "submit"
  <2>1. new = op
      BY <1>2 DEF Reissued
  <2>2. /\ Perform(s, op) = PerformSubmit(s, op.command, op.values)
        /\ Perform(u, new) = PerformSubmit(u, op.command, op.values)
      BY <1>2, <2>1 DEF Perform
  <2> QED
      BY <1>1, <1>2, <2>2, SubmitAlike DEF Legal
<1>3. CASE op.kind = "control"
  <2>1. new = op
      BY <1>3 DEF Reissued
  <2>2. /\ Perform(s, op) = PerformControl(s, op.values)
        /\ Perform(u, new) = PerformControl(u, op.values)
      BY <1>3, <2>1 DEF Perform
  <2> QED
      BY <1>1, <2>2, ControlAlike
<1>4. CASE op.kind \in {"react", "slide"}
  <2> DEFINE phase == IF op.kind = "react" THEN "reaction" ELSE "slide"
  <2>1. \A p \in s[phase], q \in u[phase] : p.binding = op.binding <=> q.binding = new.binding
      BY <1>4, Reissues
  <2>2. new.kind = op.kind /\ new.values = op.values
    <3>1. CASE op.kind = "slide"
        BY <3>1 DEF Reissued, Operations
    <3>2. CASE op.kind = "react"
      <4>1. new = [op EXCEPT !.binding = IF \E p \in u.reaction : p.binding # 0
                                         THEN u.number ELSE @]
          BY <3>2 DEF Reissued
      <4> QED
          BY <4>1 DEF Operations
    <3> QED
        BY <1>4, <3>1, <3>2
  <2> HIDE DEF new
  <2>3. /\ Perform(s, op) = PerformDecision(s, phase, op.binding, op.values)
        /\ Perform(u, new) = PerformDecision(u, phase, new.binding, op.values)
      BY <1>4, <2>2 DEF Perform
  <2>4. phase \in {"reaction", "slide"}
      OBVIOUS
  <2> HIDE DEF phase
  <2>5. /\ PerformDecision(s, phase, op.binding, op.values).outcome
              = PerformDecision(u, phase, new.binding, op.values).outcome
        /\ Alike(PerformDecision(s, phase, op.binding, op.values).session,
                 PerformDecision(u, phase, new.binding, op.values).session)
      BY <1>1, <2>1, <2>4, DecisionAlike
  <2> QED
      BY <2>3, <2>5 DEF new
<1> QED
    BY <1>1, <1>2, <1>3, <1>4

\* A recorded entry replays on a session that stands where it began.
LEMMA EntryReplays ==
    ASSUME NEW e \in Sane, Faithful(e), ~Stale(e),
           NEW made, made.ok, Able(made.session), Unbound(made.session) = e.before
    PROVE  /\ ReplayEntry(made, e).ok
           /\ Able(ReplayEntry(made, e).session)
           /\ Unbound(ReplayEntry(made, e).session) = e.after
<1>1. PICK s \in Sessions :
         /\ Offers(s)
         /\ e.before = Unbound(s)
         /\ e.outcome = Perform(s, e.operation).outcome
         /\ e.after = Unbound(Perform(s, e.operation).session)
    BY DEF Faithful
<1> DEFINE u      == made.session
           op     == e.operation
           result == Perform(u, Reissued(u, op))
<1>2. op \in Operations /\ Legal(op)
    BY DEF Sane, Entries
<1>3. u \in Sessions /\ Offers(u) /\ u.number # 0
    BY DEF Able
<1>4. Alike(s, u) /\ Unbound(u) = e.before
    BY <1>1, <1>3, AlikeUnbound
<1>5. \/ op.kind \notin {"react", "slide"}
      \/ Perform(s, op).outcome.kind # "rejected"
      \/ \A p \in s.reaction \cup s.slide : Commands[p.command].decision = "reaction"
  <2> SUFFICES ASSUME op.kind \in {"react", "slide"},
                      Perform(s, op).outcome.kind = "rejected",
                      NEW p \in s.reaction \cup s.slide,
                      Commands[p.command].decision # "reaction"
               PROVE  FALSE
      OBVIOUS
  <2>1. e.before.reaction = PhaseUnder(s.reaction, 0) /\ e.before.slide = PhaseUnder(s.slide, 0)
      BY <1>1, UnboundFields
  <2>2. Under(p, 0) \in e.before.reaction \cup e.before.slide
      BY <2>1 DEF PhaseUnder
  <2>3. p \in Pendings
      BY DEF Sessions, Phases
  <2>4. Under(p, 0).command = p.command
      BY <2>3, UnderFields
  <2> QED
      BY <1>1, <2>2, <2>4 DEF Stale
<1>6. result.outcome = e.outcome /\ Alike(Perform(s, op).session, result.session)
    BY <1>1, <1>2, <1>3, <1>4, <1>5, PerformAlike
<1>7. Perform(s, op).session \in Sessions
    BY <1>1, <1>2, PerformSound DEF Sound
<1>8. Able(result.session)
  <2>1. Reissued(u, op) \in Operations /\ Legal(Reissued(u, op))
    <3>1. u.number \in Nat
        BY <1>3 DEF Sessions
    <3>2. CASE op.kind = "react"
      <4> DEFINE b == IF \E p \in u.reaction : p.binding # 0 THEN u.number ELSE op.binding
      <4>1. b \in Nat /\ Reissued(u, op) = [op EXCEPT !.binding = b]
          BY <1>2, <3>1, <3>2 DEF Reissued, Operations
      <4> HIDE DEF b, op
      <4> QED
          BY <1>2, <3>2, <4>1 DEF Operations, Legal
    <3>3. CASE op.kind = "slide"
      <4>1. Reissued(u, op) = [op EXCEPT !.binding = u.number]
          BY <3>3 DEF Reissued
      <4> HIDE DEF op
      <4> QED
          BY <1>2, <3>1, <3>3, <4>1 DEF Operations, Legal
    <3>4. CASE op.kind \notin {"react", "slide"}
      <4>1. Reissued(u, op) = op
          BY <3>4 DEF Reissued
      <4> QED
          BY <1>2, <4>1
    <3> QED
        BY <3>2, <3>3, <3>4
  <2>2. Sound(u, Reissued(u, op).values, result)
      BY <1>3, <2>1, PerformSound
  <2> HIDE DEF result
  <2> QED
      BY <1>3, <2>2 DEF Sound, Able
<1>9. Unbound(result.session) = e.after
    BY <1>1, <1>6, <1>7, <1>8, AlikeUnbound DEF Able
<1>10. ReplayEntry(made, e) = Made(result.session)
    BY <1>4, <1>6, <1>9 DEF ReplayEntry, SameBoundary
<1> HIDE DEF result
<1> QED
    BY <1>8, <1>9, <1>10 DEF Made

\* Entries that some session has recorded.
Recorded == {e \in Sane : Faithful(e)}

\* From "a" to "b" nothing was done, or an opening of a save phase was lost.
Joins(a, b) == b = a \/ (a.save = {} /\ b = [a EXCEPT !.save = {Saves[a.revision]}])

\* Where a session stands after the first "k" entries of a journal, and where
\* it stood before the next one, or stands now.
After(checkpoint, journal, k) == IF k = 0 THEN checkpoint ELSE journal[k].after

Before(journal, now, k) == IF k = Len(journal) THEN now ELSE journal[k + 1].before

Linked(checkpoint, journal, now) ==
    \A k \in 0 .. Len(journal) :
        Joins(After(checkpoint, journal, k), Before(journal, now, k))

\* Each entry begins where the one before it has ended.
Chained(checkpoint, journal) ==
    \A k \in 1 .. Len(journal) : journal[k].before = After(checkpoint, journal, k - 1)

\* A journal that ends where the session stands goes on with what it does next.
LEMMA LinkGrows ==
    ASSUME NEW chk, NEW j \in Seq(Sane), NEW e \in Sane, Linked(chk, j, e.before)
    PROVE  Linked(chk, j \o <<e>>, e.after)
<1> DEFINE i == j \o <<e>>
           n == Len(j)
<1>1. n \in Nat /\ Len(i) = n + 1 /\ i[n + 1] = e /\ \A k \in 1 .. n : i[k] = j[k]
    OBVIOUS
<1> HIDE DEF i
<1> SUFFICES ASSUME NEW k \in 0 .. n + 1
             PROVE  Joins(After(chk, i, k), Before(i, e.after, k))
    BY <1>1 DEF Linked, i
<1>2. CASE k = n + 1
  <2>1. After(chk, i, k) = e.after /\ Before(i, e.after, k) = e.after
      BY <1>1, <1>2 DEF After, Before
  <2> QED
      BY <2>1 DEF Joins
<1>3. CASE k # n + 1
  <2>1. k \in 0 .. n
      BY <1>1, <1>3
  <2>2. After(chk, i, k) = After(chk, j, k)
      BY <1>1, <2>1 DEF After
  <2>3. Before(i, e.after, k) = Before(j, e.before, k)
    <3>1. CASE k = n
        BY <1>1, <3>1 DEF Before
    <3>2. CASE k # n
      <4>1. k + 1 \in 1 .. n /\ k # n + 1
          BY <1>1, <2>1, <3>2
      <4> QED
          BY <1>1, <3>2, <4>1 DEF Before
    <3> QED
        BY <3>1, <3>2
  <2>4. Joins(After(chk, j, k), Before(j, e.before, k))
      BY <2>1 DEF Linked
  <2> QED
      BY <2>2, <2>3, <2>4
<1> QED
    BY <1>2, <1>3

\* What a session does without an entry joins the end of its journal.
LEMMA LinkMoves ==
    ASSUME NEW chk, NEW j \in Seq(Sane), NEW now, NEW next, Linked(chk, j, now),
           Joins(After(chk, j, Len(j)), next)
    PROVE  Linked(chk, j, next)
<1> SUFFICES ASSUME NEW k \in 0 .. Len(j)
             PROVE  Joins(After(chk, j, k), Before(j, next, k))
    BY DEF Linked
<1>1. CASE k = Len(j)
    BY <1>1 DEF Before
<1>2. CASE k # Len(j)
  <2>1. Before(j, next, k) = Before(j, now, k)
      BY <1>2 DEF Before
  <2> QED
      BY <2>1 DEF Linked
<1> QED
    BY <1>1, <1>2

\* The end of a journal joins where its session stands.
LEMMA LinkEnds ==
    ASSUME NEW chk, NEW j \in Seq(Sane), NEW now, Linked(chk, j, now)
    PROVE  Joins(After(chk, j, Len(j)), now)
<1>1. Len(j) \in 0 .. Len(j) /\ Before(j, now, Len(j)) = now
    BY DEF Before
<1> QED
    BY <1>1 DEF Linked

\* A journal that begins and goes on where it has ended is linked.
LEMMA ChainLinks ==
    ASSUME NEW chk, NEW j \in Seq(Sane), Chained(chk, j)
    PROVE  Linked(chk, j, After(chk, j, Len(j)))
<1> DEFINE now == After(chk, j, Len(j))
<1> SUFFICES ASSUME NEW k \in 0 .. Len(j)
             PROVE  Before(j, now, k) = After(chk, j, k)
    BY DEF Linked, Joins
<1> HIDE DEF now
<1>1. CASE k = Len(j)
    BY <1>1 DEF Before, now
<1>2. CASE k # Len(j)
  <2>1. k + 1 \in 1 .. Len(j) /\ (k + 1) - 1 = k
      BY <1>2
  <2>2. Before(j, now, k) = j[k + 1].before
      BY <1>2 DEF Before
  <2>3. j[k + 1].before = After(chk, j, (k + 1) - 1)
      BY <2>1 DEF Chained
  <2> QED
      BY <2>1, <2>2, <2>3
<1> QED
    BY <1>1, <1>2

\* A journal without gaps goes on where it has ended, up to the session.
LEMMA NoGapChains ==
    ASSUME NEW j \in Seq(Sane), session \in Sessions,
           Linked(saved.checkpoint, j, Unbound(session)), ~Gap(j)
    PROVE  /\ Chained(saved.checkpoint, j)
           /\ Unbound(session) = After(saved.checkpoint, j, Len(j))
<1> DEFINE chk  == saved.checkpoint
           now  == Unbound(session)
           ends == Append([k \in DOMAIN j |-> j[k].before], now)
           n    == Len(j)
<1>1. n \in Nat /\ DOMAIN j = 1 .. n /\ \A k \in 1 .. n : j[k] \in Entries
    BY DEF Sane
<1>2. now \in Sessions
    BY UnboundFields
<1>3. \A k \in 0 .. n : ends[k + 1] = Before(j, now, k)
  <2> DEFINE f == [k \in DOMAIN j |-> j[k].before]
  <2>1. f \in Seq(Sessions) /\ Len(f) = n
    <3>1. \A k \in 1 .. n : j[k].before \in Sessions
        BY <1>1 DEF Entries
    <3>2. f \in [1 .. n -> Sessions]
        BY <1>1, <3>1
    <3> HIDE DEF f
    <3> QED
        BY <1>1, <3>2
  <2>2. \A k \in 1 .. n : f[k] = j[k].before
      BY <1>1
  <2> HIDE DEF f, now, n
  <2>3. \A k \in 1 .. n + 1 : Append(f, now)[k] = IF k = n + 1 THEN now ELSE f[k]
      BY <1>1, <1>2, <2>1
  <2> SUFFICES ASSUME NEW k \in 0 .. n
               PROVE  Append(f, now)[k + 1] = Before(j, now, k)
      BY DEF f
  <2>4. k \in Nat /\ k + 1 \in 1 .. n + 1
      BY <1>1
  <2>5. CASE k = n
      BY <2>3, <2>4, <2>5 DEF Before, n
  <2>6. CASE k # n
    <3>1. k + 1 \in 1 .. n /\ k + 1 # n + 1
        BY <1>1, <2>4, <2>6
    <3> QED
        BY <2>2, <2>3, <2>4, <2>6, <3>1 DEF Before, n
  <2> QED
      BY <2>5, <2>6
<1> HIDE DEF ends
<1>4. \A k \in 0 .. n : Before(j, now, k) = After(chk, j, k)
  <2> SUFFICES ASSUME NEW k \in 0 .. n
               PROVE  Before(j, now, k) = After(chk, j, k)
      OBVIOUS
  <2> DEFINE start == After(chk, j, k)
  <2>1. k \in DOMAIN j \cup {0} /\ start = IF k = 0 THEN saved.checkpoint ELSE j[k].after
      BY <1>1 DEF After
  <2>2. ~(start.save = {} /\ ends[k + 1] = [start EXCEPT !.save = {Saves[start.revision]}])
      BY <2>1 DEF Gap, ends, now
  <2> HIDE DEF start, now, chk
  <2>3. ~(start.save = {} /\ Before(j, now, k) = [start EXCEPT !.save = {Saves[start.revision]}])
      BY <1>3, <2>2
  <2>4. Joins(start, Before(j, now, k))
      BY DEF Linked, start, now, chk
  <2> QED
      BY <2>3, <2>4 DEF Joins, start
<1>5. Chained(chk, j)
  <2> SUFFICES ASSUME NEW k \in 1 .. n
               PROVE  j[k].before = After(chk, j, k - 1)
      BY DEF Chained
  <2>1. k - 1 \in 0 .. n /\ k - 1 # n /\ (k - 1) + 1 = k
      BY <1>1
  <2>2. Before(j, now, k - 1) = j[k].before
      BY <2>1 DEF Before
  <2> QED
      BY <1>4, <2>1, <2>2
<1>6. now = After(chk, j, n)
  <2>1. n \in 0 .. n /\ Before(j, now, n) = now
      BY <1>1 DEF Before
  <2> QED
      BY <1>4, <2>1
<1> QED
    BY <1>5, <1>6

\* A complete journal of a checkpoint that can be restored replays to its end.
LEMMA ChainReplays ==
    ASSUME NEW c, Restorable(c), NEW number \in Nat \ {0}, NEW j \in Seq(Recorded),
           Chained(c, j), \A k \in DOMAIN j : ~Stale(j[k])
    PROVE  /\ Replay(c, j, number).ok
           /\ Unbound(Replay(c, j, number).session) = After(c, j, Len(j))
<1> DEFINE n == Len(j)
           f == Replayed(c, j, number)
           S == {k \in 0 .. n : /\ f[k].ok
                                /\ Able(f[k].session)
                                /\ Unbound(f[k].session) = After(c, j, k)}
<1>1. /\ n \in Nat
      /\ \A k \in 1 .. n : j[k] \in Sane /\ Faithful(j[k]) /\ ~Stale(j[k])
      /\ j \in Seq(Sane)
  <2>1. Recorded \subseteq Sane
      BY DEF Recorded
  <2>2. j \in Seq(Sane)
      BY <2>1, SeqMonotone
  <2> QED
      BY <2>2 DEF Recorded
<1>2. /\ f[0] = Restore(c, number)
      /\ \A k \in 1 .. n : f[k] = ReplayEntry(f[k - 1], j[k])
    BY <1>1, ReplayedSteps DEF Restorable
<1>3. f[0].ok /\ Able(f[0].session) /\ Unbound(f[0].session) = c
    BY <1>2, Restores
<1> HIDE DEF f, n
<1>4. 0 \in S
    BY <1>1, <1>3 DEF After
<1>5. ASSUME NEW k \in 1 .. n, k - 1 \in S
      PROVE  k \in S
  <2>1. /\ f[k - 1].ok
        /\ Able(f[k - 1].session)
        /\ Unbound(f[k - 1].session) = After(c, j, k - 1)
      BY <1>5
  <2>2. j[k].before = After(c, j, k - 1)
      BY DEF Chained, n
  <2>3. /\ f[k].ok
        /\ Able(f[k].session)
        /\ Unbound(f[k].session) = j[k].after
      BY <1>1, <1>2, <2>1, <2>2, EntryReplays
  <2>4. After(c, j, k) = j[k].after /\ k \in 0 .. n
      BY <1>1 DEF After
  <2> QED
      BY <2>3, <2>4
<1>6. \A k \in 1 .. n : k - 1 \in S => k \in S
    BY <1>5
<1> HIDE DEF S
<1>7. 0 .. n \subseteq S
    BY <1>1, <1>4, <1>6, CountingUp
<1>8. n \in S
    BY <1>1, <1>7
<1> QED
    BY <1>8 DEF S, f, n, Replay

\* A restored session is what the checkpoint held.
LEMMA RestoreHolds ==
    ASSUME NEW c \in Sessions, Offers(c), NEW number \in Nat \ {0}, Restore(c, number).ok
    PROVE  Unbound(Restore(c, number).session) = c
<1> DEFINE proof == ProvePhase(c, number)
<1>1. proof \in Sessions
    BY RestoreSound
<1>2. /\ Unbound(proof) = c
      /\ Restore(c, number).session = Rebound(proof, number + 1)
    BY DEF Restore, Made, Failed
<1> HIDE DEF proof
<1>3. Unbound(Rebound(proof, number + 1)) = Unbound(proof)
    BY <1>1, ReboundAlike
<1> QED
    BY <1>2, <1>3

\* An entry that is accepted begins and ends where the session does.
LEMMA ReplayedBoundaries ==
    ASSUME NEW made, NEW e, ReplayEntry(made, e).ok
    PROVE  /\ e.before = Unbound(made.session)
           /\ e.after = Unbound(ReplayEntry(made, e).session)
<1> DEFINE s      == made.session
           result == Perform(s, Reissued(s, e.operation))
<1>1. ReplayEntry(made, e) =
         IF /\ made.ok
            /\ e.before = Unbound(s)
            /\ e.outcome = result.outcome
            /\ e.after = Unbound(result.session)
         THEN Made(result.session)
         ELSE Failed
    BY DEF ReplayEntry, SameBoundary
<1> HIDE DEF s, result
<1>2. /\ e.before = Unbound(s)
      /\ e.after = Unbound(result.session)
      /\ ReplayEntry(made, e) = Made(result.session)
    BY <1>1 DEF Failed
<1> QED
    BY <1>2 DEF Made, s

\* Whatever entries a replay accepts, each begins where the last one has
\* ended, and so does the session.
LEMMA ReplayChains ==
    ASSUME NEW c \in Sessions, Offers(c), NEW number \in Nat \ {0}, NEW j \in Seq(Sane),
           Replay(c, j, number).ok
    PROVE  /\ Chained(c, j)
           /\ Unbound(Replay(c, j, number).session) = After(c, j, Len(j))
<1> DEFINE n == Len(j)
           f == Replayed(c, j, number)
           S == {k \in 0 .. n : f[k].ok =>
                   /\ Able(f[k].session)
                   /\ Unbound(f[k].session) = After(c, j, k)
                   /\ \A i \in 1 .. k : j[i].before = After(c, j, i - 1)}
<1>1. n \in Nat /\ \A k \in 1 .. n : j[k] \in Entries /\ Legal(j[k].operation)
    BY DEF Sane
<1>2. /\ f[0] = Restore(c, number)
      /\ \A k \in 1 .. n : f[k] = ReplayEntry(f[k - 1], j[k])
    BY ReplayedSteps
<1>3. f[0].ok => Able(f[0].session) /\ Unbound(f[0].session) = c
    BY <1>2, RestoreSound, RestoreHolds
<1> HIDE DEF f, n
<1>4. 0 \in S
    BY <1>1, <1>3 DEF After
<1>5. ASSUME NEW k \in 1 .. n, k - 1 \in S
      PROVE  k \in S
  <2> SUFFICES ASSUME f[k].ok
               PROVE  /\ Able(f[k].session)
                      /\ Unbound(f[k].session) = After(c, j, k)
                      /\ \A i \in 1 .. k : j[i].before = After(c, j, i - 1)
      BY <1>1
  <2>1. f[k - 1].ok => Able(f[k - 1].session)
      BY <1>5
  <2>2. ReplayEntry(f[k - 1], j[k]).ok
      BY <1>2
  <2>3. f[k - 1].ok /\ Able(f[k].session)
      BY <1>1, <1>2, <2>1, <2>2, ReplayEntrySound
  <2>4. /\ Unbound(f[k - 1].session) = After(c, j, k - 1)
        /\ \A i \in 1 .. k - 1 : j[i].before = After(c, j, i - 1)
      BY <1>5, <2>3
  <2>5. /\ j[k].before = Unbound(f[k - 1].session)
        /\ j[k].after = Unbound(f[k].session)
      BY <1>2, <2>2, ReplayedBoundaries
  <2>6. After(c, j, k) = j[k].after
      BY <1>1 DEF After
  <2>7. ASSUME NEW i \in 1 .. k
        PROVE  j[i].before = After(c, j, i - 1)
    <3>1. CASE i = k
        BY <2>4, <2>5, <3>1
    <3>2. CASE i # k
      <4>1. i \in 1 .. k - 1
          BY <3>2
      <4> QED
          BY <2>4, <4>1
    <3> QED
        BY <3>1, <3>2
  <2> QED
      BY <2>3, <2>5, <2>6, <2>7
<1>6. \A k \in 1 .. n : k - 1 \in S => k \in S
    BY <1>5
<1> HIDE DEF S
<1>7. 0 .. n \subseteq S
    BY <1>1, <1>4, <1>6, CountingUp
<1>8. n \in S
    BY <1>1, <1>7
<1>9. f[n].ok
    BY DEF Replay, f, n
<1>10. /\ Unbound(f[n].session) = After(c, j, n)
       /\ \A i \in 1 .. n : j[i].before = After(c, j, i - 1)
    BY <1>8, <1>9 DEF S
<1> QED
    BY <1>10 DEF Replay, Chained, f, n

-------------------------------------------------------------------------------
(* The journal of the host. *)

\* What leaves a session has its phases, and nothing of it is bound.
LEMMA PhasedUnbound ==
    ASSUME NEW s \in Sessions
    PROVE  /\ Phased(Unbound(s)) <=> Phased(s)
           /\ Unbound(Unbound(s)) = Unbound(s)
<1> DEFINE u == Unbound(s)
<1>1. /\ u \in Sessions /\ u.revision = s.revision /\ u.save = s.save
      /\ u.accepted_random_values = s.accepted_random_values
      /\ u.reaction = PhaseUnder(s.reaction, 0) /\ u.slide = PhaseUnder(s.slide, 0)
    BY UnboundFields
<1>2. s.reaction \in Phases /\ s.slide \in Phases
    BY DEF Sessions
<1> HIDE DEF u
<1>3. (u.reaction = {} <=> s.reaction = {}) /\ (u.slide = {} <=> s.slide = {})
    BY <1>1, <1>2, PhaseUnderFields
<1>4. Phased(u) <=> Phased(s)
    BY <1>1, <1>3 DEF Phased
<1>5. PhaseUnder(u.reaction, 0) = u.reaction /\ PhaseUnder(u.slide, 0) = u.slide
    BY <1>1, <1>2, PhaseUnderAgain
<1>6. Alike(s, u)
    BY <1>1, <1>5 DEF Alike
<1>7. Unbound(s) = Unbound(u)
    BY <1>1, <1>6, AlikeUnbound
<1> QED
    BY <1>4, <1>7 DEF u

\* A session waits for a decision or for saves.
Waiting(s) == s.reaction # {} \/ s.slide # {} \/ s.save # {}

\* What an operation makes of a session that it changes: it commits, suspends,
\* or opens a save phase.
LEMMA PerformMoves ==
    ASSUME NEW s \in Sessions, NEW op \in Operations, Legal(op)
    PROVE  LET u == Perform(s, op).session
           IN  \/ u = s
               \/ u.revision = s.revision + 1 /\ u.save = {}
               \/ /\ u.revision = s.revision /\ u.save = {}
                  /\ ~Waiting(s) /\ Waiting(u)
               \/ /\ op.kind = "control" /\ s.reaction = {} /\ s.save = {}
                  /\ Saves[s.revision] > 0
                  /\ u = [s EXCEPT !.save = {Saves[s.revision]}]
<1> DEFINE u == Perform(s, op).session
<1>1. op.values \in Seq(Rolls) /\ op.kind \in {"submit", "react", "slide", "control"}
    BY DEF Operations
<1>2. ASSUME NEW captured \in Seq(Rolls), NEW values \in Seq(Rolls)
      PROVE  /\ Committed(s, captured, values) \in Sessions
             /\ Committed(s, captured, values).save = s.save
             /\ Committed(s, captured, values).revision = s.revision + 1
  <2>1. /\ Committed(s, captured, values) \in Sessions
        /\ Committed(s, captured, values).save = s.save
      BY CommittedFields
  <2>2. Committed(s, captured, values).revision = s.revision + 1
      BY DEF Committed, Sessions
  <2> QED
      BY <2>1, <2>2
<1>3. CASE op.kind = "submit"
  <2> DEFINE id      == op.command
             outcome == Resolve(id, op.values, FALSE)
             a       == Committed(s, <<>>, op.values)
  <2>1. u = PerformSubmit(s, id, op.values).session
      BY <1>3 DEF Perform
  <2>2. CASE Waiting(s)
    <3>1. u = s
        BY <2>1, <2>2 DEF PerformSubmit, Reject, Waiting
    <3> QED
        BY <3>1
  <2>3. CASE ~Waiting(s)
    <3>1. u = CASE outcome.kind = "accepted" -> a
                [] outcome.kind \in {"reaction", "movement"} ->
                      [s EXCEPT !.reaction = {Suspend(s, id, op.values)}]
                [] outcome.kind = "slide" -> [s EXCEPT !.slide = {Suspend(s, id, op.values)}]
                [] OTHER -> s
        BY <2>1, <2>3 DEF PerformSubmit, Waiting
    <3>2. a.save = {} /\ a.revision = s.revision + 1
        BY <1>1, <1>2, <2>3, NoValues DEF Waiting
    <3> HIDE DEF u, outcome, a
    <3>3. CASE u = a
        BY <3>2, <3>3 DEF u
    <3>4. CASE u = [s EXCEPT !.reaction = {Suspend(s, id, op.values)}]
      <4> DEFINE p == Suspend(s, id, op.values)
      <4> HIDE DEF p
      <4>1. u.revision = s.revision /\ u.save = s.save /\ u.reaction = {p}
          BY <3>4 DEF Sessions, p
      <4> QED
          BY <2>3, <4>1 DEF Waiting, u
    <3>5. CASE u = [s EXCEPT !.slide = {Suspend(s, id, op.values)}]
      <4> DEFINE p == Suspend(s, id, op.values)
      <4> HIDE DEF p
      <4>1. u.revision = s.revision /\ u.save = s.save /\ u.slide = {p}
          BY <3>5 DEF Sessions, p
      <4> QED
          BY <2>3, <4>1 DEF Waiting, u
    <3>6. CASE u = s
        BY <3>6 DEF u
    <3> QED
        BY <3>1, <3>3, <3>4, <3>5, <3>6
  <2> QED
      BY <2>2, <2>3
<1>4. CASE op.kind \in {"react", "slide"}
  <2> DEFINE phase == IF op.kind = "react" THEN "reaction" ELSE "slide"
             p     == CHOOSE q \in s[phase] : TRUE
             kept  == Committed(s, p.values, op.values)
  <2>1. u = PerformDecision(s, phase, op.binding, op.values).session
      BY <1>4 DEF Perform
  <2>2. \/ u = s
        \/ s.save = {} /\ s[phase] # {} /\ u = [kept EXCEPT ![phase] = {}]
      BY <2>1 DEF PerformDecision, Reject
  <2>3. CASE s.save = {} /\ s[phase] # {} /\ u = [kept EXCEPT ![phase] = {}]
    <3>1. s[phase] \in Phases
      <4>1. s["reaction"] = s.reaction /\ s["slide"] = s.slide
          OBVIOUS
      <4> QED
          BY <4>1 DEF Sessions
    <3>2. p \in Pendings
        BY <2>3, <3>1 DEF Phases
    <3>3. kept \in Sessions /\ kept.save = {} /\ kept.revision = s.revision + 1
      <4>1. p.values \in Seq(Rolls)
          BY <3>2 DEF Pendings
      <4> QED
          BY <1>1, <1>2, <2>3, <4>1
    <3>4. phase # "save" /\ phase # "revision"
        OBVIOUS
    <3> HIDE DEF u, kept, phase
    <3>5. u.save = {} /\ u.revision = s.revision + 1
        BY <2>3, <3>3, <3>4 DEF Sessions
    <3> QED
        BY <3>5 DEF u
  <2> QED
      BY <2>2, <2>3
<1>5. CASE op.kind = "control"
  <2> DEFINE n == Saves[s.revision]
             a == Committed(s, <<>>, op.values)
             b == Committed(s, <<>>, <<>>)
  <2>1. u = PerformControl(s, op.values).session
      BY <1>5 DEF Perform
  <2>2. /\ a \in Sessions /\ a.revision = s.revision + 1
        /\ b.save = s.save /\ b.revision = s.revision + 1
      BY <1>1, <1>2, NoValues
  <2>3. \/ u = s
        \/ u = [a EXCEPT !.save = {}]
        \/ s.reaction = {} /\ s.save = {} /\ n > 0 /\ u = [s EXCEPT !.save = {n}]
        \/ s.save = {} /\ u = b
      BY <2>1 DEF PerformControl, Reject
  <2>4. CASE u = [a EXCEPT !.save = {}]
    <3> HIDE DEF u, a
    <3>1. u.save = {} /\ u.revision = s.revision + 1
        BY <2>2, <2>4 DEF Sessions
    <3> QED
        BY <3>1 DEF u
  <2>5. CASE s.save = {} /\ u = b
      BY <2>2, <2>5
  <2> QED
      BY <1>5, <2>3, <2>4, <2>5
<1> QED
    BY <1>1, <1>3, <1>4, <1>5

\* A save phase opens beside nothing else, unless a slide is pending, and
\* nothing but its own values changes it.
LEMMA PerformPhased ==
    ASSUME NEW s \in Sessions, Phased(s), NEW op \in Operations, Legal(op),
           op.kind = "control" /\ s.save = {} => s.slide = {} \/ Saves[s.revision] = 0
    PROVE  Phased(Perform(s, op).session)
<1> DEFINE u == Perform(s, op).session
<1>1. \/ u = s
      \/ u.save = {}
      \/ /\ op.kind = "control" /\ s.reaction = {} /\ s.save = {}
         /\ Saves[s.revision] > 0
         /\ u = [s EXCEPT !.save = {Saves[s.revision]}]
    BY PerformMoves
<1> HIDE DEF u
<1>2. CASE /\ op.kind = "control" /\ s.reaction = {} /\ s.save = {}
           /\ Saves[s.revision] > 0
           /\ u = [s EXCEPT !.save = {Saves[s.revision]}]
  <2>1. /\ u.revision = s.revision /\ u.save = {Saves[s.revision]}
        /\ u.reaction = s.reaction /\ u.slide = s.slide
      BY <1>2 DEF Sessions
  <2>2. s.slide = {}
    <3>1. s.revision \in Nat /\ ~(Saves[s.revision] = 0)
        BY <1>2 DEF Sessions
    <3> QED
        BY <1>2, <3>1
  <2> QED
      BY <1>2, <2>1, <2>2 DEF Phased, u
<1> QED
    BY <1>1, <1>2 DEF Phased, u

\* The entry of an operation begins where the session stands and ends where
\* the operation takes it.
LEMMA EntryFaithful ==
    ASSUME NEW s, Able(s), NEW op \in Operations, Legal(op), NEW n \in Nat,
           Phased(Perform(s, op).session)
    PROVE  /\ Entry(s, op, n) \in Recorded
           /\ Entry(s, op, n).before = Unbound(s)
           /\ Entry(s, op, n).after = Unbound(Perform(s, op).session)
<1> DEFINE e == Entry(s, op, n)
           u == Perform(s, op).session
<1>1. s \in Sessions /\ Offers(s)
    BY DEF Able
<1>2. u \in Sessions
    BY <1>1, PerformSound DEF Sound
<1>3. e \in Entries /\ e.operation = op
    BY <1>1, EntryFields
<1>4. /\ e.before = Unbound(s)
      /\ e.after = Unbound(u)
      /\ e.outcome = Perform(s, op).outcome
    BY DEF Entry
<1> HIDE DEF e
<1>5. Phased(e.after)
    BY <1>2, <1>4, PhasedUnbound
<1>6. Faithful(e)
    BY <1>1, <1>3, <1>4, <1>5 DEF Faithful
<1>7. e \in Recorded
    BY <1>3, <1>6 DEF Recorded, Sane
<1> QED
    BY <1>4, <1>7 DEF e

\* The end of a sequence to which others are added.
LEMMA EndGrows ==
    ASSUME NEW S, NEW t \in Seq(S), NEW more \in Seq(S), NEW from \in 0 .. Len(t)
    PROVE  SubSeq(t \o more, from + 1, Len(t \o more)) = SubSeq(t, from + 1, Len(t)) \o more
<1> DEFINE u == t \o more
           m == Len(t)
           k == Len(more)
           a == SubSeq(u, from + 1, Len(u))
           b == SubSeq(t, from + 1, m)
<1>1. /\ m \in Nat /\ k \in Nat /\ from \in Nat /\ from <= m
      /\ u \in Seq(S) /\ Len(u) = m + k
      /\ \A i \in 1 .. m : u[i] = t[i]
      /\ \A i \in 1 .. k : u[m + i] = more[i]
      /\ \A i \in 1 .. m : t[i] \in S
    BY ConcatProperties
<1>2. \A i \in 1 .. m + k : u[i] \in S
  <2> HIDE DEF u, m, k
  <2> QED
      BY <1>1
<1> HIDE DEF u, m, k
<1>3. /\ a \in Seq(S) /\ Len(a) = m + k - from
      /\ \A i \in 1 .. m + k - from : a[i] = u[from + i]
  <2>1. from + 1 \in Int /\ m + k \in Int /\ \A i \in from + 1 .. m + k : u[i] \in S
      BY <1>1, <1>2
  <2>2. /\ a \in Seq(S)
        /\ Len(a) = IF from + 1 <= m + k THEN (m + k) - (from + 1) + 1 ELSE 0
        /\ \A i \in 1 .. (m + k) - (from + 1) + 1 : a[i] = u[(from + 1) + i - 1]
      BY <1>1, <2>1, SubSeqProperties
  <2> HIDE DEF a
  <2>3. Len(a) = m + k - from
      BY <1>1, <2>2
  <2>4. ASSUME NEW i \in 1 .. m + k - from
        PROVE  a[i] = u[from + i]
    <3>1. i \in 1 .. (m + k) - (from + 1) + 1 /\ (from + 1) + i - 1 = from + i
        BY <1>1
    <3> QED
        BY <2>2, <3>1
  <2> QED
      BY <2>2, <2>3, <2>4
<1>4. /\ b \in Seq(S) /\ Len(b) = m - from
      /\ \A i \in 1 .. m - from : b[i] = t[from + i]
  <2>1. from + 1 \in Int /\ m \in Int /\ \A i \in from + 1 .. m : t[i] \in S
      BY <1>1
  <2>2. /\ b \in Seq(S)
        /\ Len(b) = IF from + 1 <= m THEN m - (from + 1) + 1 ELSE 0
        /\ \A i \in 1 .. m - (from + 1) + 1 : b[i] = t[(from + 1) + i - 1]
      BY <2>1, SubSeqProperties
  <2> HIDE DEF b
  <2>3. Len(b) = m - from
      BY <1>1, <2>2
  <2>4. ASSUME NEW i \in 1 .. m - from
        PROVE  b[i] = t[from + i]
    <3>1. i \in 1 .. m - (from + 1) + 1 /\ (from + 1) + i - 1 = from + i
        BY <1>1
    <3> QED
        BY <2>2, <3>1
  <2> QED
      BY <2>2, <2>3, <2>4
<1> HIDE DEF a, b
<1> DEFINE c == b \o more
<1>5. /\ c \in Seq(S) /\ Len(c) = (m - from) + k
      /\ \A i \in 1 .. m - from : c[i] = b[i]
      /\ \A i \in 1 .. k : c[(m - from) + i] = more[i]
  <2>1. /\ c \in Seq(S) /\ Len(c) = Len(b) + Len(more)
        /\ \A i \in 1 .. Len(b) + Len(more) :
              c[i] = IF i <= Len(b) THEN b[i] ELSE more[i - Len(b)]
      BY <1>4, ConcatProperties
  <2>2. Len(b) = m - from /\ Len(more) = k /\ m - from \in Nat
      BY <1>1, <1>4 DEF k
  <2> HIDE DEF c
  <2>3. ASSUME NEW i \in 1 .. m - from
        PROVE  c[i] = b[i]
      BY <1>1, <2>1, <2>2
  <2>4. ASSUME NEW i \in 1 .. k
        PROVE  c[(m - from) + i] = more[i]
    <3> DEFINE d == (m - from) + i
    <3>1. d \in 1 .. (m - from) + k /\ ~(d <= m - from) /\ d - (m - from) = i
        BY <1>1, <2>2
    <3> HIDE DEF d
    <3>2. c[d] = more[d - (m - from)]
        BY <2>1, <2>2, <3>1
    <3> QED
        BY <3>1, <3>2 DEF d
  <2> QED
      BY <2>1, <2>2, <2>3, <2>4
<1> HIDE DEF c
<1>6. ASSUME NEW i \in 1 .. m + k - from
      PROVE  a[i] = c[i]
  <2>1. CASE i <= m - from
    <3>1. i \in 1 .. m - from /\ from + i \in 1 .. m
        BY <1>1, <2>1
    <3> QED
        BY <1>1, <1>3, <1>4, <1>5, <3>1
  <2>2. CASE ~(i <= m - from)
    <3> DEFINE d == i - (m - from)
    <3>1. d \in 1 .. k /\ i = (m - from) + d /\ from + i = m + d
        BY <1>1, <2>2
    <3> HIDE DEF d
    <3> QED
        BY <1>1, <1>3, <1>5, <3>1
  <2> QED
      BY <2>1, <2>2
<1>7. Len(a) = Len(c) /\ DOMAIN a = 1 .. m + k - from /\ DOMAIN c = 1 .. m + k - from
    BY <1>1, <1>3, <1>5
<1>8. a = c
    BY <1>3, <1>5, <1>6, <1>7
<1> QED
    BY <1>8 DEF a, b, c, u, m

\* Where the session and its checkpoint stand, and what the journal leads to.
StandsInv ==
    /\ Phased(session)
    /\ Journal \in Seq(Recorded)
    /\ Phased(saved.checkpoint)
    /\ Unbound(saved.checkpoint) = saved.checkpoint
    /\ Linked(saved.checkpoint, Journal, Unbound(session))

\* Saves are drawn for a phase that is open.  Its opening goes on where the
\* journal has ended, and is recorded together with what closes it.
Opened(c) ==
    /\ c.operation.kind = "control" => session.save # {}
    /\ c.first \in Seq(Recorded)
    /\ \A e \in Recorded : c.first = <<e>> =>
          /\ e.before = After(saved.checkpoint, Journal, Len(Journal))
          /\ e.after = Unbound(session)

JournalInv == StandsInv /\ \A c \in call : Opened(c)

\* A journal of recorded entries leads to a session with its phases.
LEMMA EndSession ==
    ASSUME NEW c \in Sessions, NEW j \in Seq(Sane)
    PROVE  /\ After(c, j, Len(j)) \in Sessions
           /\ Phased(c) /\ j \in Seq(Recorded) => Phased(After(c, j, Len(j)))
<1>1. CASE Len(j) = 0
    BY <1>1 DEF After
<1>2. CASE Len(j) # 0
  <2>1. After(c, j, Len(j)) = j[Len(j)].after
      BY <1>2 DEF After
  <2>2. Len(j) \in 1 .. Len(j)
      BY <1>2
  <2>3. j[Len(j)] \in Sane /\ (j \in Seq(Recorded) => j[Len(j)] \in Recorded)
      BY <2>2
  <2>4. j[Len(j)].after \in Sessions
      BY <2>3 DEF Sane, Entries
  <2> QED
      BY <2>1, <2>3, <2>4 DEF Recorded, Faithful
<1> QED
    BY <1>1, <1>2

\* What a journal and its end are made of.
LEMMA JournalTypes ==
    ASSUME IInv, JournalInv
    PROVE  /\ Journal \in Seq(Recorded) /\ Journal \in Seq(Sane)
           /\ transcript \in Seq(Entries)
           /\ saved.from \in 0 .. Len(transcript)
           /\ saved.checkpoint \in Sessions
           /\ After(saved.checkpoint, Journal, Len(Journal)) \in Sessions
<1>1. Journal \in Seq(Recorded)
    BY DEF JournalInv, StandsInv
<1>2. Recorded \subseteq Sane
    BY DEF Recorded
<1>3. Journal \in Seq(Sane)
    BY <1>1, <1>2, SeqMonotone
<1>4. transcript \in Seq(Entries)
    BY LoggedEntries DEF IInv
<1>5. saved.checkpoint \in Sessions /\ saved.from \in Nat /\ saved.from <= Len(transcript)
    BY DEF IInv, SavedInv
<1>6. saved.from \in 0 .. Len(transcript)
    BY <1>4, <1>5
<1>7. After(saved.checkpoint, Journal, Len(Journal)) \in Sessions
    BY <1>3, <1>5, EndSession
<1> QED
    BY <1>1, <1>3, <1>4, <1>5, <1>6, <1>7

\* A step leads from where the session stands to where it stands next.
LEMMA NextStands ==
    ASSUME NEW s, NEW c, NEW j, session' = s, saved'.checkpoint = c, Journal' = j,
           Phased(s), j \in Seq(Recorded), Phased(c), Unbound(c) = c,
           Linked(c, j, Unbound(s))
    PROVE  StandsInv'
BY DEF StandsInv

\* A step that writes nothing and leaves the session alike.
LEMMA StandsStill ==
    ASSUME StandsInv, UNCHANGED <<transcript, saved>>, session' \in Sessions,
           session \in Sessions, Unbound(session') = Unbound(session)
    PROVE  StandsInv'
<1>1. Journal' = Journal
    BY DEF Journal
<1>2. Phased(session')
    BY PhasedUnbound DEF StandsInv
<1> QED
    BY <1>1, <1>2, NextStands DEF StandsInv

\* The journal grows with the transcript.
LEMMA JournalGrows ==
    ASSUME transcript \in Seq(Entries), saved.from \in 0 .. Len(transcript), UNCHANGED saved,
           NEW more \in Seq(Entries), transcript' = transcript \o more
    PROVE  Journal' = Journal \o more
BY EndGrows DEF Journal

\* A session begins with an empty journal.
LEMMA InitJournal == ReplayedInit => JournalInv
<1> SUFFICES ASSUME ReplayedInit PROVE JournalInv
    OBVIOUS
<1> DEFINE none == <<>>
           c    == Unbound(Session0)
<1>1. Session0 \in Sessions /\ Phased(Session0)
    BY DEF Session0, Sessions, Phases, Phased
<1>2. c \in Sessions /\ Phased(c) /\ Unbound(c) = c
    BY <1>1, UnboundFields, PhasedUnbound
<1>3. /\ session = Session0 /\ call = {} /\ transcript = none
      /\ saved = [checkpoint |-> c, from |-> 0]
    BY DEF ReplayedInit, Init
<1>4. Journal = none
  <2>1. Len(none) = 0 /\ SubSeq(none, 1, 0) = none
      BY SubSeqEmpty
  <2>2. saved.from = 0
      BY <1>3
  <2> HIDE DEF none
  <2> QED
      BY <1>3, <2>1, <2>2 DEF Journal
<1>5. none \in Seq(Recorded) /\ Len(none) = 0
    OBVIOUS
<1> HIDE DEF none, c
<1>6. Linked(c, none, c)
    BY <1>5 DEF Linked, Joins, After, Before
<1>7. Unbound(session) = c /\ saved.checkpoint = c
    BY <1>3 DEF c
<1> QED
    BY <1>1, <1>2, <1>3, <1>4, <1>5, <1>6, <1>7 DEF JournalInv, StandsInv

\* A call begins with nothing recorded.
LEMMA BeginLoopJournal ==
    ASSUME IInv, JournalInv, BeginLoop, UNCHANGED saved
    PROVE  JournalInv'
<1>1. UNCHANGED <<session, transcript, saved>>
    BY DEF BeginLoop
<1>2. StandsInv'
    BY <1>1, StandsStill DEF IInv, Able, JournalInv
<1>3. ASSUME NEW c \in call'
      PROVE  c.operation.kind # "control" /\ c.first = <<>>
    BY DEF BeginLoop, NewCall, Operation
<1>4. ASSUME NEW c \in call'
      PROVE  Opened(c)'
  <2> DEFINE none == <<>>
  <2>1. none \in Seq(Recorded) /\ \A e : none # <<e>>
      OBVIOUS
  <2>2. c.first = none /\ c.operation.kind # "control"
      BY <1>3
  <2> HIDE DEF none
  <2> QED
      BY <2>1, <2>2 DEF Opened
<1> QED
    BY <1>2, <1>4 DEF JournalInv

\* A call that fails leaves what it has opened without an entry.
LEMMA FailedCallJournal ==
    ASSUME IInv, JournalInv, call' = {}, UNCHANGED <<session, transcript, saved>>
    PROVE  JournalInv'
BY StandsStill DEF IInv, Able, JournalInv

\* What is drawn for a call changes neither its kind nor what it has opened.
LEMMA DrawJournal ==
    ASSUME IInv, JournalInv, NEW c \in call, Draw(c), UNCHANGED saved
    PROVE  JournalInv'
<1>1. UNCHANGED <<session, transcript, saved>>
    BY DEF Draw
<1>2. StandsInv'
    BY <1>1, StandsStill DEF IInv, Able, JournalInv
<1>3. PICK values : call' = {[c EXCEPT !.attempts = @ + 1, !.operation.values = values]}
    BY DEF Draw
<1>4. c \in [number : Nat, operation : Operations, attempts : Nat, first : Seq(Sane)]
    BY DEF IInv, CallsInv, Running
<1>5. ASSUME NEW d \in call'
      PROVE  d.operation.kind = c.operation.kind /\ d.first = c.first
  <2> DEFINE attempts == c.attempts + 1
             op       == [c.operation EXCEPT !.values = values]
  <2>1. d = [c EXCEPT !.attempts = attempts, !.operation = op]
      BY <1>3, <1>4
  <2>2. op.kind = c.operation.kind
      BY <1>4 DEF Operations
  <2> HIDE DEF attempts, op
  <2> QED
      BY <1>4, <2>1, <2>2
<1>6. Journal' = Journal
    BY <1>1 DEF Journal
<1>7. ASSUME NEW d \in call'
      PROVE  Opened(d)'
  <2>1. Opened(c)
      BY DEF JournalInv
  <2> QED
      BY <1>1, <1>5, <1>6, <2>1 DEF Opened
<1> QED
    BY <1>2, <1>7 DEF JournalInv

\* What a call has done is recorded: its opening, if it has one, where the
\* journal has ended, and its end where the session stands.
LEMMA FinishJournal ==
    ASSUME IInv, JournalInv, NEW c \in call, Finish(c), UNCHANGED saved
    PROVE  JournalInv'
<1> DEFINE op   == c.operation
           e    == Entry(session, op, c.number)
           u    == Perform(session, op).session
           chk  == saved.checkpoint
           grew == Journal \o c.first
<1>1. /\ session' = u
      /\ transcript' = transcript \o c.first \o <<e>>
      /\ call' = {} /\ UNCHANGED saved
    BY DEF Finish, Tried
<1>2. /\ op \in Operations /\ Legal(op) /\ c.number \in Nat /\ Able(session)
      /\ c.first = <<>> \/ \E o : c.first = <<o>>
    BY DEF IInv, CallsInv, Running
<1>3. /\ op.kind = "control" => session.save # {}
      /\ c.first \in Seq(Recorded)
      /\ \A o \in Recorded : c.first = <<o>> =>
            o.before = After(chk, Journal, Len(Journal)) /\ o.after = Unbound(session)
    BY DEF JournalInv, Opened
<1>4. /\ Phased(session)
      /\ Linked(chk, Journal, Unbound(session))
      /\ Phased(chk) /\ Unbound(chk) = chk
    BY DEF JournalInv, StandsInv
<1>5. Phased(u)
  <2>1. session \in Sessions
      BY <1>2 DEF Able
  <2> HIDE DEF op
  <2>2. Phased(Perform(session, op).session)
      BY <1>2, <1>3, <1>4, <2>1, PerformPhased
  <2> QED
      BY <2>2
<1>6. /\ e \in Recorded
      /\ e.before = Unbound(session)
      /\ e.after = Unbound(u)
    BY <1>2, <1>5, EntryFaithful
<1>7. /\ Journal \in Seq(Recorded) /\ Journal \in Seq(Sane)
      /\ transcript \in Seq(Entries) /\ saved.from \in 0 .. Len(transcript)
    BY JournalTypes
<1>8. Recorded \subseteq Sane /\ Recorded \subseteq Entries
    BY DEF Recorded, Sane
<1> HIDE DEF op, e, u, chk
<1>9. grew \in Seq(Recorded) /\ grew \in Seq(Sane) /\ Linked(chk, grew, Unbound(session))
  <2>1. CASE c.first = <<>>
    <3>1. grew = Journal
        BY <1>7, <2>1
    <3> HIDE DEF grew
    <3> QED
        BY <1>4, <1>7, <3>1
  <2>2. CASE \E o : c.first = <<o>>
    <3>1. PICK o : c.first = <<o>>
        BY <2>2
    <3> DEFINE one == <<o>>
    <3>2. o \in Recorded /\ one \in Seq(Recorded)
      <4>1. Len(c.first) = 1 /\ c.first[1] = o
          BY <3>1
      <4>2. o \in Recorded
          BY <1>3, <4>1
      <4> QED
          BY <4>2
    <3>3. o.before = After(chk, Journal, Len(Journal)) /\ o.after = Unbound(session)
        BY <1>3, <3>1, <3>2 DEF chk
    <3>4. Linked(chk, Journal, o.before)
        BY <1>4, <1>7, <3>3, LinkMoves DEF Joins
    <3>5. Linked(chk, Journal \o one, o.after)
        BY <1>7, <1>8, <3>2, <3>4, LinkGrows
    <3>6. Journal \o one \in Seq(Recorded) /\ grew = Journal \o one
        BY <1>7, <3>1, <3>2, ConcatProperties
    <3> HIDE DEF grew, one
    <3>7. grew \in Seq(Sane)
        BY <1>8, <3>6, SeqMonotone
    <3> QED
        BY <3>3, <3>5, <3>6, <3>7
  <2> QED
      BY <1>2, <2>1, <2>2
<1> DEFINE last == <<e>>
           more == c.first \o last
<1>10. /\ last \in Seq(Recorded) /\ last \in Seq(Sane)
       /\ c.first \in Seq(Entries) /\ last \in Seq(Entries)
  <2>1. c.first \in Seq(Entries)
      BY <1>3, <1>8, SeqMonotone
  <2> QED
      BY <1>6, <1>8, <2>1
<1>11. Journal' = grew \o last
  <2>1. transcript' = (transcript \o c.first) \o last
      BY <1>1 DEF e
  <2> HIDE DEF last
  <2>2. ASSUME NEW t \in Seq(Entries)
        PROVE  (t \o c.first) \o last = t \o more
    <3> DEFINE f == c.first
    <3>1. f \in Seq(Entries) /\ last \in Seq(Entries)
        BY <1>10
    <3> HIDE DEF f
    <3>2. (t \o f) \o last = t \o (f \o last)
        BY <2>2, <3>1, ConcatAssociative
    <3> QED
        BY <3>2 DEF f
  <2>3. more \in Seq(Entries)
      BY <1>10, ConcatProperties
  <2> HIDE DEF more
  <2>4. transcript' = transcript \o more
      BY <1>7, <2>1, <2>2
  <2>5. Journal' = Journal \o more
      BY <1>1, <1>7, <2>3, <2>4, JournalGrows
  <2>6. Journal \in Seq(Entries)
      BY <1>7, <1>8, SeqMonotone
  <2>7. (Journal \o c.first) \o last = Journal \o more
      BY <2>2, <2>6
  <2> QED
      BY <2>5, <2>7
<1> HIDE DEF grew
<1>12. Linked(chk, grew \o last, e.after)
    BY <1>6, <1>8, <1>9, LinkGrows
<1>13. grew \o last \in Seq(Recorded)
    BY <1>9, <1>10, ConcatProperties
<1> HIDE DEF last
<1>14. saved'.checkpoint = chk /\ session' = u
    BY <1>1 DEF chk
<1>15. Linked(chk, grew \o last, Unbound(u))
    BY <1>6, <1>12
<1>16. Phased(chk) /\ Unbound(chk) = chk
    BY <1>4
<1> DEFINE j == grew \o last
<1>17. Journal' = j /\ j \in Seq(Recorded) /\ Linked(chk, j, Unbound(u))
    BY <1>11, <1>13, <1>15
<1> HIDE DEF j
<1>18. StandsInv'
    BY <1>5, <1>14, <1>16, <1>17, NextStands
<1> QED
    BY <1>1, <1>18 DEF JournalInv

\* The end of a turn is recorded at once, or opens a save phase: where the
\* journal ends, since there was no such phase before.
LEMMA BeginControlJournal ==
    ASSUME IInv, JournalInv, BeginControl, UNCHANGED saved
    PROVE  JournalInv'
<1> DEFINE n   == calls + 1
           op  == Operation("control", "none", 0)
           e   == Entry(session, op, n)
           u   == Perform(session, op).session
           chk == saved.checkpoint
           end == After(chk, Journal, Len(Journal))
<1>1. /\ session' = u
      /\ IF e.outcome.kind = "save"
         THEN /\ call' = NewCall(op, <<e>>)
              /\ UNCHANGED transcript
         ELSE /\ transcript' = Append(transcript, e)
              /\ UNCHANGED call
      /\ call = {}
      /\ session.slide # {} => Saves[session.revision] = 0
      /\ UNCHANGED saved
  <2>1. e.operation = op
      BY DEF Entry
  <2> QED
      BY <2>1 DEF BeginControl
<1>2. op \in Operations /\ Legal(op) /\ op.kind = "control" /\ op.values = <<>>
    BY DEF Operation, Operations, Legal
<1>3. Able(session) /\ session \in Sessions /\ n \in Nat
    BY RecordedAssumption DEF IInv, CallsInv, Able
<1>4. /\ Phased(session)
      /\ Linked(chk, Journal, Unbound(session))
      /\ Phased(chk) /\ Unbound(chk) = chk
    BY DEF JournalInv, StandsInv
<1> HIDE DEF op, n
<1>5. Phased(u)
    BY <1>1, <1>2, <1>3, <1>4, PerformPhased
<1>6. /\ e \in Recorded
      /\ e.before = Unbound(session)
      /\ e.after = Unbound(u)
      /\ e.outcome = Perform(session, op).outcome
  <2>1. /\ e \in Recorded
        /\ e.before = Unbound(session)
        /\ e.after = Unbound(u)
      BY <1>2, <1>3, <1>5, EntryFaithful
  <2>2. e.outcome = Perform(session, op).outcome
      BY DEF Entry
  <2> QED
      BY <2>1, <2>2
<1>7. /\ Journal \in Seq(Recorded) /\ Journal \in Seq(Sane)
      /\ transcript \in Seq(Entries) /\ saved.from \in 0 .. Len(transcript)
      /\ end \in Sessions
    BY JournalTypes
<1>8. Recorded \subseteq Sane /\ Recorded \subseteq Entries
    BY DEF Recorded, Sane
<1> HIDE DEF e, u, chk
<1>9. saved'.checkpoint = chk
    BY <1>1 DEF chk
<1>10. CASE e.outcome.kind = "save"
  <2> DEFINE candidates == Saves[session.revision]
             now        == Unbound(session)
             next       == Unbound(u)
  <2>1. /\ session.save = {}
        /\ u = [session EXCEPT !.save = {candidates}]
    <3>1. Perform(session, op) = PerformControl(session, <<>>)
        BY <1>2 DEF Perform
    <3>2. PerformControl(session, <<>>).outcome.kind = "save"
        BY <1>6, <1>10, <3>1
    <3>3. /\ session.save = {}
          /\ PerformControl(session, <<>>).session = [session EXCEPT !.save = {candidates}]
        BY <3>2 DEF PerformControl, Reject, Outcome, Request
    <3> QED
        BY <3>1, <3>3 DEF u
  <2>2. u \in Sessions
      BY <1>2, <1>3, PerformSound DEF u, Sound, Able
  <2>3. now \in Sessions /\ now.save = {} /\ now.revision = session.revision
      BY <1>3, <2>1, UnboundFields
  <2>4. next = [now EXCEPT !.save = {candidates}]
      BY <1>3, <2>1 DEF Unbound, Sessions
  <2> HIDE DEF now, next
  <2>5. end = now
    <3>1. Joins(end, now)
        BY <1>4, <1>7, LinkEnds DEF now, chk
    <3>2. now # [end EXCEPT !.save = {Saves[end.revision]}]
      <4> HIDE DEF end
      <4> QED
          BY <1>7, <2>3 DEF Sessions
    <3> QED
        BY <3>1, <3>2 DEF Joins
  <2>6. Joins(end, next)
    <3> HIDE DEF end, candidates
    <3> QED
        BY <2>3, <2>4, <2>5 DEF Joins, candidates
  <2>7. Linked(chk, Journal, next)
    <3>1. Joins(After(chk, Journal, Len(Journal)), next)
        BY <2>6 DEF chk
    <3> QED
        BY <1>4, <1>7, <3>1, LinkMoves
  <2>8. Journal' = Journal
      BY <1>1, <1>10 DEF Journal
  <2>9. StandsInv'
      BY <1>1, <1>4, <1>5, <1>7, <1>9, <2>7, <2>8, NextStands DEF next
  <2>10. u.save # {}
      BY <1>3, <2>1 DEF Sessions
  <2>11. ASSUME NEW c \in call'
         PROVE  Opened(c)'
    <3>1. c.operation = op /\ c.first = <<e>>
      <4>1. call' = NewCall(op, <<e>>)
          BY <1>1, <1>10
      <4> DEFINE one == <<e>>
      <4> HIDE DEF one
      <4>2. c.operation = op /\ c.first = one
          BY <4>1 DEF NewCall, one
      <4> QED
          BY <4>2 DEF one
    <3>2. c.first \in Seq(Recorded)
        BY <1>6, <3>1
    <3>3. ASSUME NEW x \in Recorded, c.first = <<x>>
          PROVE  x.before = end /\ x.after = next
      <4>1. x = e
        <5>1. <<x>>[1] = x /\ <<e>>[1] = e
            OBVIOUS
        <5> QED
            BY <3>1, <3>3, <5>1
      <4> QED
          BY <1>6, <2>5, <4>1 DEF now, next
    <3>4. /\ After(saved.checkpoint, Journal, Len(Journal))' = end
          /\ Unbound(session)' = next
      <4>1. Unbound(session)' = next
          BY <1>1 DEF next
      <4>2. saved' = saved
          BY <1>1
      <4> QED
          BY <2>8, <4>1, <4>2 DEF chk
    <3> HIDE DEF end
    <3> QED
        BY <1>1, <2>10, <3>2, <3>3, <3>4 DEF Opened
  <2> QED
      BY <2>9, <2>11 DEF JournalInv
<1>11. CASE e.outcome.kind # "save"
  <2> DEFINE last == <<e>>
             j    == Journal \o last
  <2>1. last \in Seq(Recorded) /\ last \in Seq(Entries)
      BY <1>6, <1>8
  <2>2. transcript' = transcript \o last
      BY <1>1, <1>6, <1>7, <1>8, <1>11, AppendIsConcat
  <2>3. Linked(chk, j, e.after)
      BY <1>4, <1>6, <1>7, <1>8, LinkGrows
  <2> HIDE DEF last
  <2>4. Journal' = j /\ j \in Seq(Recorded)
      BY <1>1, <1>7, <2>1, <2>2, JournalGrows, ConcatProperties
  <2>5. Linked(chk, j, Unbound(u))
      BY <1>6, <2>3
  <2> HIDE DEF j
  <2>6. StandsInv'
      BY <1>1, <1>4, <1>5, <1>9, <2>4, <2>5, NextStands
  <2>7. call' = {}
      BY <1>1, <1>11
  <2> QED
      BY <2>6, <2>7 DEF JournalInv
<1> QED
    BY <1>10, <1>11

\* A checkpoint begins a new journal.
LEMMA CheckpointJournal ==
    ASSUME IInv, JournalInv, TakeCheckpoint
    PROVE  JournalInv'
<1> DEFINE c    == Unbound(session)
           none == <<>>
<1>1. /\ UNCHANGED <<session, call, transcript>> /\ call = {}
      /\ saved' = [checkpoint |-> c, from |-> Len(transcript)]
      /\ session \in Sessions /\ Phased(session)
    BY DEF IInv, JournalInv, StandsInv, TakeCheckpoint, vars, Able
<1>2. Phased(c) /\ Unbound(c) = c
    BY <1>1, PhasedUnbound
<1>3. Journal' = none
  <2>1. Len(transcript) \in Nat
      BY JournalTypes
  <2>2. saved'.from = Len(transcript)
      BY <1>1
  <2>3. Journal' = SubSeq(transcript, Len(transcript) + 1, Len(transcript))
      BY <1>1, <2>2 DEF Journal
  <2>4. Len(transcript) + 1 \in Int /\ Len(transcript) \in Int
        /\ Len(transcript) < Len(transcript) + 1
      BY <2>1
  <2> QED
      BY <2>3, <2>4, SubSeqEmpty
<1>4. none \in Seq(Recorded) /\ Len(none) = 0
    OBVIOUS
<1>5. saved'.checkpoint = c
    BY <1>1
<1> HIDE DEF none
<1>6. Linked(c, none, c)
    BY <1>4 DEF Linked, Joins, After, Before
<1>7. StandsInv'
    BY <1>1, <1>2, <1>3, <1>4, <1>5, <1>6, NextStands
<1> QED
    BY <1>1, <1>7 DEF JournalInv

\* A clone goes on with the journal of its original.
LEMMA CloneJournal ==
    ASSUME IInv, JournalInv, Clone
    PROVE  JournalInv'
<1>1. /\ session' = Rebound(session, session.number + 1)
      /\ call = {} /\ UNCHANGED <<call, transcript, saved>>
      /\ session \in Sessions /\ session.number + 1 \in Nat
    BY DEF IInv, Clone, Able, Sessions
<1>2. session' \in Sessions /\ Unbound(session') = Unbound(session)
    BY <1>1, ReboundAlike
<1>3. StandsInv'
    BY <1>1, <1>2, StandsStill DEF JournalInv
<1> QED
    BY <1>1, <1>3 DEF JournalInv

\* A replay that succeeds makes the journal of what it was given, each of whose
\* entries goes on where the last one has ended.
LEMMA ReplayedJournal ==
    ASSUME IInv, JournalInv, NEW journal \in Stored(Journal), ReplayInto(journal)
    PROVE  /\ Journal' = journal
           /\ Chained(saved.checkpoint, journal)
           /\ journal \in Seq(Recorded)
           /\ session' \in Sessions
           /\ Unbound(session') = After(saved.checkpoint, journal, Len(journal))
<1> DEFINE chk    == saved.checkpoint
           made   == Replay(chk, journal, session.number + 1)
           before == SubSeq(transcript, 1, saved.from)
<1>1. /\ made.ok
      /\ session' = made.session
      /\ transcript' = before \o journal
      /\ UNCHANGED saved
    BY DEF ReplayInto
<1>2. /\ chk \in Sessions /\ Offers(chk)
      /\ session.number + 1 \in Nat \ {0}
    BY DEF IInv, SavedInv, Able, Sessions
<1>3. /\ Journal \in Seq(Recorded)
      /\ transcript \in Seq(Entries) /\ saved.from \in 0 .. Len(transcript)
    BY JournalTypes
<1>4. journal \in Seq(Recorded)
    BY <1>3, StoredEntries
<1>5. Recorded \subseteq Sane /\ Recorded \subseteq Entries
    BY DEF Recorded, Sane
<1>6. journal \in Seq(Sane) /\ journal \in Seq(Entries)
    BY <1>4, <1>5, SeqMonotone
<1>7. Chained(chk, journal) /\ Unbound(made.session) = After(chk, journal, Len(journal))
    BY <1>1, <1>2, <1>6, ReplayChains
<1>8. made.session \in Sessions
    BY <1>1, <1>2, <1>6, ReplaySound DEF Able
<1> HIDE DEF chk, made
<1>9. Journal' = journal
  <2> DEFINE from == saved.from
  <2>1. from \in Nat /\ from <= Len(transcript) /\ Len(transcript) \in Nat
      BY <1>3
  <2>2. before \in Seq(Entries) /\ Len(before) = from
      BY <1>3, SplitAt
  <2>3. Journal' = SubSeq(before \o journal, from + 1, Len(before \o journal))
      BY <1>1 DEF Journal
  <2> HIDE DEF before, from
  <2>4. from \in 0 .. Len(before)
      BY <2>1, <2>2
  <2>5. Journal' = SubSeq(before, from + 1, Len(before)) \o journal
      BY <1>6, <2>2, <2>3, <2>4, EndGrows
  <2>6. from + 1 \in Int /\ Len(before) \in Int /\ Len(before) < from + 1
      BY <2>1, <2>2
  <2>7. SubSeq(before, from + 1, Len(before)) = <<>>
      BY <2>6, SubSeqEmpty
  <2>8. <<>> \o journal = journal
      BY <1>6, ConcatEmptySeq
  <2> QED
      BY <2>5, <2>7, <2>8
<1> QED
    BY <1>1, <1>4, <1>7, <1>8, <1>9 DEF chk

\* The entries that were replayed are the journal of the session made.
LEMMA ReplayIntoJournal ==
    ASSUME IInv, JournalInv, NEW journal \in Stored(Journal), ReplayInto(journal)
    PROVE  JournalInv'
<1> DEFINE chk == saved.checkpoint
           end == After(chk, journal, Len(journal))
<1>1. /\ Journal' = journal /\ Chained(chk, journal) /\ journal \in Seq(Recorded)
      /\ session' \in Sessions /\ Unbound(session') = end
    BY ReplayedJournal
<1>2. call' = {} /\ UNCHANGED saved
    BY DEF ReplayInto
<1>3. chk \in Sessions /\ Phased(chk) /\ Unbound(chk) = chk
    BY DEF IInv, SavedInv, JournalInv, StandsInv
<1>4. Recorded \subseteq Sane
    BY DEF Recorded
<1>5. journal \in Seq(Sane)
    BY <1>1, <1>4, SeqMonotone
<1> HIDE DEF chk
<1>6. Linked(chk, journal, end)
    BY <1>1, <1>5, ChainLinks
<1>7. Phased(end)
    BY <1>1, <1>3, <1>5, EndSession
<1> HIDE DEF end
<1>8. Phased(session')
    BY <1>1, <1>7, PhasedUnbound
<1>9. saved'.checkpoint = chk /\ Linked(chk, journal, Unbound(session'))
    BY <1>1, <1>2, <1>6 DEF chk
<1>10. StandsInv'
    BY <1>1, <1>3, <1>8, <1>9, NextStands
<1> QED
    BY <1>2, <1>10 DEF JournalInv

-------------------------------------------------------------------------------
(* What a replay may leave out. *)

\* How far a session has come: an operation goes on to the next revision, or
\* to a phase of this one.
Rank(s) == 2 * s.revision + IF Waiting(s) THEN 1 ELSE 0

\* An operation that changes a session takes it further.
LEMMA PerformRank ==
    ASSUME NEW s \in Sessions, Offers(s), NEW op \in Operations, Legal(op),
           Phased(Perform(s, op).session)
    PROVE  \/ Perform(s, op).session = s
           \/ Rank(s) < Rank(Perform(s, op).session)
<1> DEFINE u == Perform(s, op).session
<1>1. u \in Sessions
    BY PerformSound DEF Sound
<1>2. s.revision \in Nat /\ u.revision \in Nat
    BY <1>1 DEF Sessions
<1>3. \/ u = s
      \/ u.revision = s.revision + 1 /\ u.save = {}
      \/ /\ u.revision = s.revision /\ u.save = {}
         /\ ~Waiting(s) /\ Waiting(u)
      \/ /\ op.kind = "control" /\ s.reaction = {} /\ s.save = {}
         /\ Saves[s.revision] > 0
         /\ u = [s EXCEPT !.save = {Saves[s.revision]}]
    BY PerformMoves
<1> HIDE DEF u
<1>4. CASE u.revision = s.revision + 1
    BY <1>2, <1>4 DEF Rank, u
<1>5. CASE u.revision = s.revision /\ ~Waiting(s) /\ Waiting(u)
    BY <1>2, <1>5 DEF Rank, u
<1>6. CASE /\ s.reaction = {} /\ s.save = {}
           /\ u = [s EXCEPT !.save = {Saves[s.revision]}]
  <2>1. u.revision = s.revision /\ u.save # {} /\ u.slide = s.slide
      BY <1>6 DEF Sessions
  <2>2. u.slide = {}
      BY <2>1 DEF Phased, u
  <2>3. ~Waiting(s) /\ Waiting(u)
      BY <1>6, <2>1, <2>2 DEF Waiting
  <2> QED
      BY <1>2, <2>1, <2>3 DEF Rank, u
<1> QED
    BY <1>3, <1>4, <1>5, <1>6 DEF u

\* What leaves a session has come as far.
LEMMA RankUnbound ==
    ASSUME NEW s \in Sessions
    PROVE  Rank(Unbound(s)) = Rank(s) /\ Rank(s) \in Nat
<1> DEFINE u == Unbound(s)
<1>1. /\ u.revision = s.revision /\ u.save = s.save
      /\ u.reaction = PhaseUnder(s.reaction, 0) /\ u.slide = PhaseUnder(s.slide, 0)
    BY UnboundFields
<1>2. s.reaction \in Phases /\ s.slide \in Phases /\ s.revision \in Nat
    BY DEF Sessions
<1> HIDE DEF u
<1>3. (u.reaction = {} <=> s.reaction = {}) /\ (u.slide = {} <=> s.slide = {})
    BY <1>1, <1>2, PhaseUnderFields
<1>4. Waiting(u) <=> Waiting(s)
    BY <1>1, <1>3 DEF Waiting
<1> QED
    BY <1>1, <1>2, <1>4 DEF Rank, u

\* A recorded entry that changed its session took it further.
LEMMA EntryRank ==
    ASSUME NEW e \in Recorded
    PROVE  /\ e.before \in Sessions /\ e.after \in Sessions
           /\ e.before = e.after \/ Rank(e.before) < Rank(e.after)
<1>1. PICK s \in Sessions :
         /\ Offers(s)
         /\ e.before = Unbound(s)
         /\ e.after = Unbound(Perform(s, e.operation).session)
    BY DEF Recorded, Faithful
<1> DEFINE u == Perform(s, e.operation).session
<1>2. e.operation \in Operations /\ Legal(e.operation)
    BY DEF Recorded, Sane, Entries
<1>3. u \in Sessions
    BY <1>1, <1>2, PerformSound DEF Sound
<1>4. Phased(u)
    BY <1>1, <1>3, PhasedUnbound DEF Recorded, Faithful
<1>5. u = s \/ Rank(s) < Rank(u)
    BY <1>1, <1>2, <1>4, PerformRank
<1> HIDE DEF u
<1>6. Rank(e.before) = Rank(s) /\ Rank(e.after) = Rank(u)
    BY <1>1, <1>3, RankUnbound DEF u
<1>7. e.before \in Sessions /\ e.after \in Sessions
    BY DEF Recorded, Sane, Entries
<1> QED
    BY <1>1, <1>5, <1>6, <1>7 DEF u

\* A lost opening takes a session no less far.
LEMMA JoinRank ==
    ASSUME NEW a \in Sessions, NEW b \in Sessions, Joins(a, b)
    PROVE  Rank(a) <= Rank(b)
<1>1. a.revision \in Nat
    BY DEF Sessions
<1>2. CASE b = a
    BY <1>1, <1>2 DEF Rank
<1>3. CASE b = [a EXCEPT !.save = {Saves[a.revision]}]
  <2>1. b.revision = a.revision /\ b.save # {}
      BY <1>3 DEF Sessions
  <2>2. Waiting(b)
      BY <2>1 DEF Waiting
  <2> QED
      BY <1>1, <2>1, <2>2 DEF Rank
<1> QED
    BY <1>2, <1>3 DEF Joins

\* An entry that changed the session.
Changed(e) == e.before # e.after

\* Effective goes through the entries one by one.
LEMMA EffectiveSteps ==
    ASSUME NEW S, NEW entries \in Seq(S)
    PROVE  LET f == EffectiveUpTo(entries)
           IN  /\ f[0] = <<>>
               /\ \A k \in 1 .. Len(entries) :
                     f[k] = IF Changed(entries[k]) THEN Append(f[k - 1], entries[k]) ELSE f[k - 1]
               /\ \A k \in 0 .. Len(entries) : f[k] \in Seq(S)
<1> DEFINE n     == Len(entries)
           V     == Seq(S)
           start == <<>>
           next(k, x) == IF Changed(entries[k]) THEN Append(x, entries[k]) ELSE x
           step  == [k \in 1 .. n |-> [x \in V |-> next(k, x)]]
<1>1. n \in Nat /\ start \in V
    OBVIOUS
<1>2. ASSUME NEW k \in 1 .. n, NEW x \in V
      PROVE  next(k, x) \in V
  <2>1. entries[k] \in S
      OBVIOUS
  <2>2. Append(x, entries[k]) \in V
      BY <2>1, AppendProperties
  <2> QED
      BY <2>2
<1> HIDE DEF V, start, next
<1>3. step \in [1 .. n -> [V -> V]]
    BY <1>2
<1>4. \A k \in 1 .. n, x \in V : step[k][x] = next(k, x)
    OBVIOUS
<1> HIDE DEF step, n
<1>5. PICK f : Walk(f, n, V, start, step)
    BY <1>1, <1>3, StepsTaken
<1> DEFINE g == [k \in 0 .. n |-> IF k = 0 THEN start ELSE next(k, f[k - 1])]
<1>6. ASSUME NEW k \in 0 .. n
      PROVE  f[k] = g[k]
  <2>1. CASE k = 0
      BY <1>5, <2>1 DEF Walk
  <2>2. CASE k # 0
    <3>1. k \in 1 .. n /\ k - 1 \in 0 .. n
        BY <1>1, <2>2
    <3> QED
        BY <1>4, <1>5, <3>1 DEF Walk
  <2> QED
      BY <2>1, <2>2
<1>7. f = g
    BY <1>5, <1>6 DEF Walk
<1>8. \E h : h = [k \in 0 .. n |-> IF k = 0 THEN start ELSE next(k, h[k - 1])]
    BY <1>7
<1>9. \A h : [k \in 0 .. n |-> IF k = 0 THEN start ELSE next(k, h[k - 1])]
               = [k \in 0 .. Len(entries) |->
                     IF k = 0
                     THEN <<>>
                     ELSE IF entries[k].before # entries[k].after
                     THEN Append(h[k - 1], entries[k])
                     ELSE h[k - 1]]
    BY DEF n, start, next, Changed
<1> DEFINE h == EffectiveUpTo(entries)
<1>10. h = [k \in 0 .. n |-> IF k = 0 THEN start ELSE next(k, h[k - 1])]
  <2>1. \E x : x = [k \in 0 .. Len(entries) |->
                       IF k = 0
                       THEN <<>>
                       ELSE IF entries[k].before # entries[k].after
                       THEN Append(x[k - 1], entries[k])
                       ELSE x[k - 1]]
      BY <1>8, <1>9
  <2>2. h = [k \in 0 .. Len(entries) |->
                IF k = 0
                THEN <<>>
                ELSE IF entries[k].before # entries[k].after
                THEN Append(h[k - 1], entries[k])
                ELSE h[k - 1]]
      BY <2>1 DEF EffectiveUpTo
  <2> HIDE DEF h
  <2> QED
      BY <1>9, <2>2
<1> HIDE DEF h
<1>11. h[0] = start /\ \A k \in 1 .. n : h[k] = next(k, h[k - 1])
    BY <1>1, <1>10
<1> DEFINE T == {k \in 0 .. n : h[k] \in V}
<1>12. 0 \in T
    BY <1>1, <1>11
<1>13. \A k \in 1 .. n : k - 1 \in T => k \in T
    BY <1>1, <1>2, <1>11
<1> HIDE DEF T
<1>14. 0 .. n \subseteq T
    BY <1>1, <1>12, <1>13, CountingUp
<1>15. \A k \in 0 .. n : h[k] \in V
    BY <1>14 DEF T
<1> QED
    BY <1>11, <1>15 DEF h, n, start, next, V

\* A member after two sequences is a member after the second.
LEMMA AppendAfter ==
    ASSUME NEW S, NEW x \in Seq(S), NEW y \in Seq(S), NEW e \in S, NEW z, z = Append(y, e)
    PROVE  Append(x \o y, e) = x \o z
<1> DEFINE one == <<e>>
<1>1. one \in Seq(S) /\ x \o y \in Seq(S)
    BY ConcatProperties
<1>2. Append(x \o y, e) = (x \o y) \o one /\ Append(y, e) = y \o one
    BY <1>1, AppendIsConcat
<1> HIDE DEF one
<1>3. (x \o y) \o one = x \o (y \o one)
    BY <1>1, ConcatAssociative
<1> QED
    BY <1>2, <1>3

\* Of a sequence after another, what changed the session in both.
LEMMA EffectiveConcat ==
    ASSUME NEW S, NEW a \in Seq(S), NEW b \in Seq(S)
    PROVE  /\ Effective(a \o b) = Effective(a) \o Effective(b)
           /\ Effective(a) \in Seq(S)
<1> DEFINE c == a \o b
           m == Len(a)
           n == Len(b)
           f == EffectiveUpTo(c)
           h == EffectiveUpTo(a)
           g == EffectiveUpTo(b)
<1>1. /\ m \in Nat /\ n \in Nat
      /\ c \in Seq(S)
      /\ Len(c) = m + n
      /\ \A k \in 1 .. m : c[k] = a[k]
      /\ \A k \in 1 .. n : c[m + k] = b[k]
    BY ConcatProperties
<1>2. /\ f[0] = <<>> /\ h[0] = <<>> /\ g[0] = <<>>
      /\ \A k \in 1 .. m : h[k] = IF Changed(a[k]) THEN Append(h[k - 1], a[k]) ELSE h[k - 1]
      /\ \A k \in 1 .. n : g[k] = IF Changed(b[k]) THEN Append(g[k - 1], b[k]) ELSE g[k - 1]
      /\ \A k \in 0 .. m : h[k] \in Seq(S)
      /\ \A k \in 0 .. n : g[k] \in Seq(S)
    BY <1>1, EffectiveSteps
<1>3. \A k \in 1 .. m + n : f[k] = IF Changed(c[k]) THEN Append(f[k - 1], c[k]) ELSE f[k - 1]
    BY <1>1, EffectiveSteps
<1>4. \A k \in 1 .. n : b[k] \in S
    OBVIOUS
<1> HIDE DEF c, f, g, h, m, n
<1> DEFINE T == {k \in 0 .. m : f[k] = h[k]}
           U == {k \in 0 .. n : f[m + k] = h[m] \o g[k]}
<1>5. 0 \in T
    BY <1>1, <1>2
<1>6. ASSUME NEW k \in 1 .. m, k - 1 \in T
      PROVE  k \in T
  <2>1. k \in 1 .. m + n
      BY <1>1
  <2> QED
      BY <1>1, <1>2, <1>3, <1>6, <2>1
<1>7. f[m] = h[m]
  <2>1. \A k \in 1 .. m : k - 1 \in T => k \in T
      BY <1>6
  <2> HIDE DEF T
  <2>2. 0 .. m \subseteq T
      BY <1>1, <1>5, <2>1, CountingUp
  <2>3. m \in T
      BY <1>1, <2>2
  <2> QED
      BY <2>3 DEF T
<1>8. h[m] \in Seq(S)
    BY <1>1, <1>2
<1>9. 0 \in U
  <2>1. h[m] \o <<>> = h[m]
      BY <1>8, ConcatEmptySeq
  <2>2. h[m] \o g[0] = h[m]
      BY <1>2, <2>1
  <2>3. m + 0 = m /\ 0 \in 0 .. n
      BY <1>1
  <2> QED
      BY <1>7, <2>2, <2>3
<1>10. ASSUME NEW k \in 1 .. n, k - 1 \in U
       PROVE  k \in U
  <2> DEFINE x == h[m]
             y == g[k - 1]
             e == b[k]
  <2>1. m + k \in 1 .. m + n /\ (m + k) - 1 = m + (k - 1) /\ k - 1 \in 0 .. n
      BY <1>1
  <2>2. f[m + k] = IF Changed(c[m + k]) THEN Append(f[(m + k) - 1], c[m + k]) ELSE f[(m + k) - 1]
      BY <1>3, <2>1
  <2>3. f[m + k] = IF Changed(e) THEN Append(x \o y, e) ELSE x \o y
      BY <1>1, <1>10, <2>1, <2>2
  <2>4. g[k] = IF Changed(e) THEN Append(y, e) ELSE y
      BY <1>2
  <2>5. x \in Seq(S) /\ y \in Seq(S) /\ e \in S
      BY <1>2, <1>4, <1>8, <2>1
  <2> HIDE DEF x, y, e
  <2> DEFINE z == Append(y, e)
  <2>6. z = Append(y, e)
      OBVIOUS
  <2> HIDE DEF z
  <2>7. Append(x \o y, e) = x \o z
      BY <2>5, <2>6, AppendAfter
  <2>8. f[m + k] = x \o g[k]
      BY <2>3, <2>4, <2>6, <2>7
  <2>9. k \in 0 .. n
      BY <1>1
  <2> QED
      BY <2>8, <2>9 DEF x
<1>11. f[m + n] = h[m] \o g[n]
  <2>1. \A k \in 1 .. n : k - 1 \in U => k \in U
      BY <1>10
  <2> HIDE DEF U
  <2>2. 0 .. n \subseteq U
      BY <1>1, <1>9, <2>1, CountingUp
  <2>3. n \in U
      BY <1>1, <2>2
  <2> QED
      BY <2>3 DEF U
<1> QED
    BY <1>1, <1>8, <1>11 DEF Effective, c, f, g, h, m, n

\* An entry that changed nothing is none of them.
LEMMA EffectiveOne ==
    ASSUME NEW S, NEW e \in S, ~Changed(e)
    PROVE  Effective(<<e>>) = <<>>
<1> DEFINE one == <<e>>
<1>1. one \in Seq(S) /\ Len(one) = 1 /\ one[1] = e
    OBVIOUS
<1> HIDE DEF one
<1>2. /\ EffectiveUpTo(one)[0] = <<>>
      /\ \A k \in 1 .. 1 : EffectiveUpTo(one)[k] =
            IF Changed(one[k]) THEN Append(EffectiveUpTo(one)[k - 1], one[k])
            ELSE EffectiveUpTo(one)[k - 1]
    BY <1>1, EffectiveSteps
<1>3. EffectiveUpTo(one)[1] = <<>>
    BY <1>1, <1>2
<1> QED
    BY <1>1, <1>3 DEF Effective, one

\* What changed the session in the first entries comes first of what did.
LEMMA EffectivePrefix ==
    ASSUME NEW S, NEW t \in Seq(S), NEW k \in 0 .. Len(t)
    PROVE  IsPrefix(Effective(SubSeq(t, 1, k)), Effective(t))
<1> DEFINE u == SubSeq(t, 1, k)
           v == SubSeq(t, k + 1, Len(t))
           x == Effective(u)
           y == Effective(v)
           z == Effective(t)
<1>1. u \in Seq(S) /\ v \in Seq(S) /\ t = u \o v
    BY SplitAt
<1> HIDE DEF u, v
<1>2. x \in Seq(S) /\ y \in Seq(S) /\ z = x \o y
    BY <1>1, EffectiveConcat
<1> HIDE DEF x, y, z
<1>3. Len(z) = Len(x) + Len(y) /\ Len(x) \in Nat /\ Len(y) \in Nat
    BY <1>2, ConcatProperties
<1>4. SubSeq(z, 1, Len(x)) = SubSeq(x, 1, Len(x))
  <2>1. CASE Len(x) = 0
      BY <2>1, SubSeqEmpty
  <2>2. CASE Len(x) # 0
    <3>1. 1 \in 1 .. Len(x) /\ Len(x) \in 1 .. Len(x)
        BY <1>3, <2>2
    <3> QED
        BY <1>2, <3>1, SubSeqOfConcat1
  <2> QED
      BY <2>1, <2>2
<1>5. IsPrefix(x, z)
    BY <1>3, <1>4 DEF IsPrefix
<1> QED
    BY <1>5 DEF x, z, u

\* An entry that changed nothing is not missed.
LEMMA EffectiveRemoved ==
    ASSUME NEW S, NEW t \in Seq(S), NEW k \in 1 .. Len(t), ~Changed(t[k])
    PROVE  Effective(RemoveAt(t, k)) = Effective(t)
<1> DEFINE n   == Len(t)
           u   == SubSeq(t, 1, k - 1)
           v   == SubSeq(t, k + 1, n)
           one == <<t[k]>>
           w   == SubSeq(t, 1, k)
<1>1. n \in Nat /\ 1 \in 1 .. n /\ k \in 1 .. k /\ k \in 1 .. n /\ k - 1 \in 0 .. n /\ k \in 0 .. n
    OBVIOUS
<1>2. t = w \o v /\ w \in Seq(S) /\ v \in Seq(S)
    BY <1>1, SplitAt
<1>3. u \in Seq(S)
    BY <1>1, SplitAt
<1>4. w = u \o one
  <2>1. k \in 1 .. n /\ 1 \in 1 .. n
      BY <1>1
  <2> QED
      BY <2>1, SubSeqRecursiveSecond
<1>5. one \in Seq(S) /\ Effective(one) = <<>>
    BY EffectiveOne
<1>6. RemoveAt(t, k) = u \o v
    BY DEF RemoveAt
<1> HIDE DEF u, v, w, one, n
<1>7. /\ Effective(t) = Effective(w) \o Effective(v)
      /\ Effective(w) = Effective(u) \o Effective(one)
      /\ Effective(u \o v) = Effective(u) \o Effective(v)
      /\ Effective(u) \in Seq(S)
    BY <1>2, <1>3, <1>4, <1>5, EffectiveConcat
<1>8. Effective(u) \o <<>> = Effective(u)
    BY <1>7, ConcatEmptySeq
<1> QED
    BY <1>5, <1>6, <1>7, <1>8

\* And is not noticed when it is there.
LEMMA EffectiveInserted ==
    ASSUME NEW S, NEW t \in Seq(S), NEW k \in 1 .. Len(t) + 1, NEW e \in S, ~Changed(e)
    PROVE  Effective(InsertAt(t, k, e)) = Effective(t)
<1> DEFINE n   == Len(t)
           u   == SubSeq(t, 1, k - 1)
           v   == SubSeq(t, k, n)
           one == <<e>>
           w   == u \o one
<1>1. n \in Nat /\ k - 1 \in 0 .. n /\ (k - 1) + 1 = k
    OBVIOUS
<1>2. t = u \o v /\ u \in Seq(S) /\ v \in Seq(S)
    BY <1>1, SplitAt
<1>3. one \in Seq(S) /\ Effective(one) = <<>>
    BY EffectiveOne
<1>4. InsertAt(t, k, e) = w \o v
    BY DEF InsertAt
<1>5. w \in Seq(S) /\ w = u \o one
    BY <1>2, <1>3, ConcatProperties
<1> HIDE DEF u, v, w, one, n
<1>6. /\ Effective(t) = Effective(u) \o Effective(v)
      /\ Effective(w) = Effective(u) \o Effective(one)
      /\ Effective(w \o v) = Effective(w) \o Effective(v)
      /\ Effective(u) \in Seq(S)
    BY <1>2, <1>3, <1>5, EffectiveConcat
<1>7. Effective(u) \o <<>> = Effective(u)
    BY <1>6, ConcatEmptySeq
<1> QED
    BY <1>3, <1>4, <1>6, <1>7

\* Where the entries are when one is removed.
LEMMA RemovedAt ==
    ASSUME NEW S, NEW t \in Seq(S), NEW k \in 1 .. Len(t)
    PROVE  LET r == RemoveAt(t, k)
           IN  /\ \A i \in 1 .. k - 1 : r[i] = t[i]
               /\ \A i \in k .. Len(t) - 1 : r[i] = t[i + 1]
<1> DEFINE n == Len(t)
           u == SubSeq(t, 1, k - 1)
           v == SubSeq(t, k + 1, n)
           r == u \o v
<1>1. n \in Nat /\ k - 1 \in 0 .. n /\ k \in 0 .. n /\ \A i \in 1 .. n : t[i] \in S
    OBVIOUS
<1>2. /\ u \in Seq(S) /\ Len(u) = k - 1
      /\ t = u \o SubSeq(t, (k - 1) + 1, n)
      /\ SubSeq(t, (k - 1) + 1, n) \in Seq(S)
    BY <1>1, SplitAt
<1>3. v \in Seq(S) /\ SubSeq(t, 1, k) \in Seq(S) /\ Len(SubSeq(t, 1, k)) = k
      /\ t = SubSeq(t, 1, k) \o v
    BY <1>1, SplitAt
<1>4. RemoveAt(t, k) = r
    BY DEF RemoveAt
<1> DEFINE a == SubSeq(t, (k - 1) + 1, n)
           b == SubSeq(t, 1, k)
<1> HIDE DEF u, v, a, b, n
<1>5. \A i \in 1 .. k - 1 : t[i] = u[i] /\ r[i] = u[i]
    BY <1>1, <1>2, <1>3, ConcatProperties DEF a
<1>6. ASSUME NEW i \in k .. n - 1
      PROVE  r[i] = t[i + 1]
  <2>1. n = k + Len(v) /\ Len(v) \in Nat
      BY <1>1, <1>3, ConcatProperties DEF n, b
  <2>2. /\ i \in 1 .. Len(u) + Len(v) /\ ~(i <= Len(u)) /\ i - Len(u) = i - (k - 1)
        /\ i + 1 \in 1 .. Len(b) + Len(v) /\ ~(i + 1 <= Len(b)) /\ (i + 1) - Len(b) = i - (k - 1)
      BY <1>1, <1>2, <1>3, <2>1 DEF b
  <2>3. r[i] = v[i - (k - 1)]
      BY <1>2, <1>3, <2>2, ConcatProperties
  <2>4. (b \o v)[i + 1] = v[i - (k - 1)]
    <3> DEFINE d == i + 1
    <3>1. d \in 1 .. Len(b) + Len(v) /\ ~(d <= Len(b)) /\ d - Len(b) = i - (k - 1)
        BY <2>2
    <3>2. b \in Seq(S) /\ v \in Seq(S)
        BY <1>3 DEF b
    <3> HIDE DEF d
    <3>3. (b \o v)[d] = v[d - Len(b)]
        BY <3>1, <3>2, ConcatProperties
    <3> QED
        BY <3>1, <3>3 DEF d
  <2> QED
      BY <1>3, <2>3, <2>4 DEF b
<1> QED
    BY <1>4, <1>5, <1>6 DEF n

\* Where they are when one is inserted.
LEMMA InsertedAt ==
    ASSUME NEW S, NEW t \in Seq(S), NEW k \in 1 .. Len(t) + 1, NEW e \in S
    PROVE  LET x == InsertAt(t, k, e)
           IN  /\ Len(x) = Len(t) + 1
               /\ \A i \in 1 .. k - 1 : x[i] = t[i]
               /\ x[k] = e
               /\ \A i \in k .. Len(t) : x[i + 1] = t[i]
<1> DEFINE n   == Len(t)
           u   == SubSeq(t, 1, k - 1)
           v   == SubSeq(t, k, n)
           one == <<e>>
           w   == u \o one
           x   == w \o v
<1>1. n \in Nat /\ k - 1 \in 0 .. n /\ (k - 1) + 1 = k
    OBVIOUS
<1>2. t = u \o v /\ u \in Seq(S) /\ v \in Seq(S) /\ Len(u) = k - 1
    BY <1>1, SplitAt
<1>3. one \in Seq(S) /\ Len(one) = 1 /\ one[1] = e
    OBVIOUS
<1>4. InsertAt(t, k, e) = x
    BY DEF InsertAt
<1> HIDE DEF u, v, one, n
<1>5. /\ w \in Seq(S) /\ Len(w) = k
      /\ \A i \in 1 .. k - 1 : w[i] = u[i]
      /\ w[k] = e
  <2>1. /\ w \in Seq(S) /\ Len(w) = Len(u) + Len(one)
        /\ \A i \in 1 .. Len(u) + Len(one) :
              w[i] = IF i <= Len(u) THEN u[i] ELSE one[i - Len(u)]
      BY <1>2, <1>3, ConcatProperties
  <2> HIDE DEF w
  <2>2. Len(w) = k /\ \A i \in 1 .. k : w[i] = IF i <= k - 1 THEN u[i] ELSE one[i - (k - 1)]
      BY <1>1, <1>2, <1>3, <2>1
  <2>3. k \in 1 .. k /\ ~(k <= k - 1) /\ k - (k - 1) = 1
      BY <1>1
  <2>4. w[k] = e
      BY <1>3, <2>2, <2>3
  <2> QED
      BY <1>1, <2>1, <2>2, <2>4
<1> HIDE DEF w
<1>6. /\ Len(x) = k + Len(v) /\ Len(v) \in Nat
      /\ \A i \in 1 .. k + Len(v) : x[i] = IF i <= k THEN w[i] ELSE v[i - k]
  <2>1. /\ Len(x) = Len(w) + Len(v)
        /\ \A i \in 1 .. Len(w) + Len(v) : x[i] = IF i <= Len(w) THEN w[i] ELSE v[i - Len(w)]
      BY <1>2, <1>5, ConcatProperties
  <2> HIDE DEF x
  <2> QED
      BY <1>2, <1>5, <2>1
<1>7. /\ n = (k - 1) + Len(v)
      /\ \A i \in 1 .. (k - 1) + Len(v) : t[i] = IF i <= k - 1 THEN u[i] ELSE v[i - (k - 1)]
  <2> DEFINE y == u \o v
  <2>1. /\ Len(y) = Len(u) + Len(v)
        /\ \A i \in 1 .. Len(u) + Len(v) : y[i] = IF i <= Len(u) THEN u[i] ELSE v[i - Len(u)]
      BY <1>2, ConcatProperties
  <2>2. y = t
      BY <1>2
  <2> HIDE DEF x, y
  <2> QED
      BY <1>1, <1>2, <2>1, <2>2 DEF n
<1> HIDE DEF x
<1>8. Len(x) = n + 1 /\ x[k] = e /\ \A i \in 1 .. k - 1 : x[i] = t[i]
    BY <1>1, <1>5, <1>6, <1>7
<1>9. ASSUME NEW i \in k .. n
      PROVE  x[i + 1] = t[i]
  <2> DEFINE d == i + 1
  <2>1. d \in 1 .. k + Len(v) /\ ~(d <= k) /\ d - k = i - (k - 1)
      BY <1>1, <1>6, <1>7
  <2>2. i \in 1 .. (k - 1) + Len(v) /\ ~(i <= k - 1)
      BY <1>1, <1>6, <1>7
  <2> HIDE DEF d
  <2>3. x[d] = v[d - k] /\ t[i] = v[i - (k - 1)]
      BY <1>6, <1>7, <2>1, <2>2
  <2> QED
      BY <2>1, <2>3 DEF d
<1> QED
    BY <1>4, <1>8, <1>9 DEF n

\* What a replay accepts of a stored journal was done, in the order in which it
\* was done: an entry that changed the session took it further, so that none
\* that goes on where it has ended can be missing, or come again, or come
\* before another.
LEMMA StoredHistory ==
    ASSUME NEW chk \in Sessions, NEW j \in Seq(Recorded), NEW now, Linked(chk, j, now),
           NEW journal \in Stored(j), Chained(chk, journal)
    PROVE  IsPrefix(Effective(journal), Effective(j))
<1> DEFINE n == Len(j)
<1>1. n \in Nat /\ \A k \in 1 .. n : j[k] \in Recorded
    OBVIOUS
<1>2. ASSUME NEW k \in 1 .. n
      PROVE  /\ After(chk, j, k - 1) \in Sessions
             /\ Rank(After(chk, j, k - 1)) <= Rank(j[k].before)
             /\ Rank(j[k].before) <= Rank(j[k].after)
             /\ Rank(j[k].before) = Rank(j[k].after) => ~Changed(j[k])
             /\ Rank(After(chk, j, k - 1)) \in Nat
             /\ Rank(j[k].before) \in Nat /\ Rank(j[k].after) \in Nat
  <2>1. k - 1 \in 0 .. n /\ k - 1 # n /\ (k - 1) + 1 = k
      BY <1>1
  <2>2. Joins(After(chk, j, k - 1), j[k].before)
    <3>1. Joins(After(chk, j, k - 1), Before(j, now, k - 1))
        BY <2>1 DEF Linked
    <3>2. Before(j, now, k - 1) = j[k].before
        BY <2>1 DEF Before
    <3> QED
        BY <3>1, <3>2
  <2>3. After(chk, j, k - 1) \in Sessions
    <3>1. CASE k - 1 = 0
        BY <3>1 DEF After
    <3>2. CASE k - 1 # 0
      <4>1. k - 1 \in 1 .. n
          BY <2>1, <3>2
      <4>2. j[k - 1].after \in Sessions
          BY <1>1, <4>1, EntryRank
      <4> QED
          BY <3>2, <4>2 DEF After
    <3> QED
        BY <3>1, <3>2
  <2>4. /\ j[k].before \in Sessions /\ j[k].after \in Sessions
        /\ j[k].before = j[k].after \/ Rank(j[k].before) < Rank(j[k].after)
      BY <1>1, EntryRank
  <2>5. Rank(After(chk, j, k - 1)) <= Rank(j[k].before)
      BY <2>2, <2>3, <2>4, JoinRank
  <2> DEFINE r == Rank(After(chk, j, k - 1))
             b == Rank(j[k].before)
             a == Rank(j[k].after)
  <2>6. r \in Nat /\ b \in Nat /\ a \in Nat
      BY <2>3, <2>4, RankUnbound
  <2>7. (j[k].before = j[k].after /\ b = a) \/ b < a
      BY <2>4
  <2> HIDE DEF r, b, a
  <2>8. b <= a /\ (b = a => j[k].before = j[k].after)
      BY <2>6, <2>7
  <2> QED
      BY <2>3, <2>5, <2>6, <2>8 DEF Changed, r, b, a
<1>3. ASSUME NEW k \in 1 .. n - 1
      PROVE  /\ k \in 1 .. n /\ k + 1 \in 1 .. n
             /\ Rank(j[k].after) <= Rank(j[k + 1].before)
             /\ Rank(j[k + 1].before) <= Rank(j[k + 1].after)
             /\ Rank(j[k + 1].before) \in Nat /\ Rank(j[k + 1].after) \in Nat
  <2>1. k \in 1 .. n /\ k + 1 \in 1 .. n /\ (k + 1) - 1 = k /\ k # 0
      BY <1>1
  <2>2. After(chk, j, k) = j[k].after
      BY <2>1 DEF After
  <2> QED
      BY <1>2, <2>1, <2>2
<1>4. \A i \in 1 .. Len(journal) : journal[i].before = After(chk, journal, i - 1)
    BY DEF Chained
<1>5. CASE \E k \in 0 .. n : journal = SubSeq(j, 1, k)
    BY <1>5, EffectivePrefix
<1>6. CASE \E k \in 1 .. n : journal = RemoveAt(j, k)
  <2>1. PICK k \in 1 .. n : journal = RemoveAt(j, k)
      BY <1>6
  <2>2. CASE k = n
    <3>1. n - 1 \in 0 .. n /\ n + 1 \in Int /\ n \in Int /\ n < n + 1
        BY <1>1, <2>2
    <3>2. SubSeq(j, n + 1, n) = <<>>
        BY <3>1, SubSeqEmpty
    <3>3. SubSeq(j, 1, n - 1) \in Seq(Recorded)
        BY <3>1, SplitAt
    <3>4. SubSeq(j, 1, n - 1) \o <<>> = SubSeq(j, 1, n - 1)
        BY <3>3, ConcatEmptySeq
    <3>5. journal = SubSeq(j, 1, n - 1)
        BY <2>1, <2>2, <3>2, <3>4 DEF RemoveAt
    <3> QED
        BY <3>1, <3>5, EffectivePrefix
  <2>3. CASE k # n
    <3>1. k \in 1 .. n - 1 /\ k \in k .. n - 1 /\ k \in 1 .. n - 1
        BY <1>1, <2>3
    <3>2. Len(journal) = n - 1
        BY <2>1, PartsOfSequence
    <3>3. journal[k] = j[k + 1] /\ \A i \in 1 .. k - 1 : journal[i] = j[i]
        BY <2>1, <3>1, RemovedAt
    <3>4. After(chk, journal, k - 1) = After(chk, j, k - 1)
      <4>1. CASE k - 1 = 0
          BY <4>1 DEF After
      <4>2. CASE k - 1 # 0
        <5>1. k - 1 \in 1 .. k - 1
            BY <4>2
        <5> QED
            BY <3>3, <4>2, <5>1 DEF After
      <4> QED
          BY <4>1, <4>2
    <3>5. j[k + 1].before = After(chk, j, k - 1)
        BY <1>4, <3>1, <3>2, <3>3, <3>4
    <3>6. ~Changed(j[k])
      <4> DEFINE r == Rank(After(chk, j, k - 1))
                 b == Rank(j[k].before)
                 a == Rank(j[k].after)
      <4>1. /\ r \in Nat /\ b \in Nat /\ a \in Nat
            /\ r <= b /\ b <= a /\ a <= r
            /\ b = a => ~Changed(j[k])
          BY <1>2, <1>3, <3>1, <3>5
      <4> HIDE DEF r, b, a
      <4> QED
          BY <4>1
    <3>7. Effective(journal) = Effective(j)
        BY <2>1, <3>6, EffectiveRemoved
    <3>8. n \in 0 .. n /\ SubSeq(j, 1, n) = j
        BY <1>1, SubSeqFull
    <3> QED
        BY <3>7, <3>8, EffectivePrefix
  <2> QED
      BY <2>2, <2>3
<1>7. CASE \E k \in 1 .. n : journal = InsertAt(j, k, j[k])
  <2>1. PICK k \in 1 .. n : journal = InsertAt(j, k, j[k])
      BY <1>7
  <2>2. k \in 1 .. n + 1 /\ k \in k .. n /\ j[k] \in Recorded /\ k # 0 /\ (k + 1) - 1 = k
      BY <1>1
  <2>3. Len(journal) = n + 1 /\ journal[k] = j[k] /\ journal[k + 1] = j[k]
      BY <2>1, <2>2, InsertedAt
  <2>4. k + 1 \in 1 .. Len(journal)
      BY <1>1, <2>3
  <2>5. journal[k + 1].before = After(chk, journal, (k + 1) - 1)
      BY <1>4, <2>4
  <2>6. ~Changed(j[k])
      BY <2>2, <2>3, <2>5 DEF After, Changed
  <2>7. Effective(journal) = Effective(j)
      BY <2>1, <2>2, <2>6, EffectiveInserted
  <2>8. n \in 0 .. n /\ SubSeq(j, 1, n) = j
      BY <1>1, SubSeqFull
  <2> QED
      BY <2>7, <2>8, EffectivePrefix
<1>8. CASE \E k \in 1 .. n - 1 : journal = InsertAt(RemoveAt(j, k), k + 1, j[k])
  <2>1. PICK k \in 1 .. n - 1 : journal = InsertAt(RemoveAt(j, k), k + 1, j[k])
      BY <1>8
  <2> DEFINE r == RemoveAt(j, k)
  <2>2. k \in 1 .. n /\ k \in k .. n - 1 /\ k # 0 /\ (k + 1) - 1 = k /\ k \in 1 .. (k + 1) - 1
      BY <1>1
  <2>3. r \in Seq(Recorded) /\ Len(r) = n - 1 /\ r[k] = j[k + 1]
      BY <2>2, PartsOfSequence, RemovedAt
  <2>4. j[k] \in Recorded
      BY <1>1, <2>2
  <2> HIDE DEF r
  <2>5. journal = InsertAt(r, k + 1, j[k]) /\ k + 1 \in 1 .. Len(r) + 1
      BY <1>1, <2>1, <2>2, <2>3 DEF r
  <2>6. Len(journal) = n /\ journal[k] = j[k + 1] /\ journal[k + 1] = j[k]
    <3> DEFINE x == InsertAt(r, k + 1, j[k])
    <3>1. /\ Len(x) = Len(r) + 1 /\ x[k + 1] = j[k]
          /\ \A i \in 1 .. (k + 1) - 1 : x[i] = r[i]
        BY <2>3, <2>4, <2>5, InsertedAt
    <3> HIDE DEF x
    <3>2. Len(x) = n /\ x[k] = j[k + 1]
        BY <1>1, <2>2, <2>3, <3>1
    <3> QED
        BY <2>5, <3>1, <3>2 DEF x
  <2>7. k + 1 \in 1 .. Len(journal)
      BY <1>1, <2>6
  <2>8. journal[k + 1].before = After(chk, journal, (k + 1) - 1)
      BY <1>4, <2>7
  <2>9. j[k].before = j[k + 1].after
      BY <2>2, <2>6, <2>8 DEF After
  <2>10. ~Changed(j[k])
    <3> DEFINE b == Rank(j[k].before)
               a == Rank(j[k].after)
               c == Rank(j[k + 1].before)
    <3>1. /\ b \in Nat /\ a \in Nat /\ c \in Nat
          /\ b <= a /\ a <= c /\ c <= b
          /\ b = a => ~Changed(j[k])
        BY <1>2, <1>3, <2>2, <2>9
    <3> HIDE DEF b, a, c
    <3> QED
        BY <3>1
  <2>11. Effective(journal) = Effective(r)
      BY <2>3, <2>4, <2>5, <2>10, EffectiveInserted
  <2>12. Effective(r) = Effective(j)
      BY <2>2, <2>10, EffectiveRemoved DEF r
  <2>13. n \in 0 .. n /\ SubSeq(j, 1, n) = j
      BY <1>1, SubSeqFull
  <2> QED
      BY <2>11, <2>12, <2>13, EffectivePrefix
<1> QED
    BY <1>5, <1>6, <1>7, <1>8 DEF Stored

-------------------------------------------------------------------------------
(* Theorems. *)

\* Every step of the session, its calls and its host keeps the invariant.
LEMMA StepKeeps == IInv /\ [ReplayedNext]_allVars => IInv'
<1> SUFFICES ASSUME IInv, [ReplayedNext]_allVars PROVE IInv'
    OBVIOUS
<1>1. CASE BeginLoop /\ UNCHANGED saved
    BY <1>1, BeginLoopKeeps
<1>2. CASE BeginControl /\ UNCHANGED saved
    BY <1>2, BeginControlKeeps
<1>3. CASE UNCHANGED saved /\ \E c \in call : Draw(c) \/ SourceFails(c) \/ GiveUp(c) \/ Finish(c)
  <2>1. PICK c \in call : Draw(c) \/ SourceFails(c) \/ GiveUp(c) \/ Finish(c)
      BY <1>3
  <2>2. CASE Draw(c)
      BY <1>3, <2>2, DrawKeeps
  <2>3. CASE SourceFails(c)
      BY <1>3, <2>3, FailedCallKeeps DEF SourceFails
  <2>4. CASE GiveUp(c)
      BY <1>3, <2>4, FailedCallKeeps DEF GiveUp
  <2>5. CASE Finish(c)
      BY <1>3, <2>5, FinishKeeps
  <2> QED
      BY <2>1, <2>2, <2>3, <2>4, <2>5
<1>4. CASE TakeCheckpoint
    BY <1>4, CheckpointKeeps
<1>5. CASE \E journal \in Stored(Journal) : ReplayInto(journal)
    BY <1>5, ReplayIntoKeeps
<1>6. CASE Clone
    BY <1>6, CloneKeeps
<1>7. CASE UNCHANGED allVars
  <2>1. UNCHANGED <<session, call, transcript, supplied, calls, saved>>
      BY <1>7 DEF allVars, vars
  <2> QED
      BY <2>1 DEF IInv, Able, CallsInv, Running, Finished, SavedInv, Total
<1> QED
    BY <1>1, <1>2, <1>3, <1>4, <1>5, <1>6, <1>7 DEF ReplayedNext, CallNext

\* Every step keeps what the journal leads to.
LEMMA StepKeepsJournal == IInv /\ JournalInv /\ [ReplayedNext]_allVars => JournalInv'
<1> SUFFICES ASSUME IInv, JournalInv, [ReplayedNext]_allVars PROVE JournalInv'
    OBVIOUS
<1>1. CASE BeginLoop /\ UNCHANGED saved
    BY <1>1, BeginLoopJournal
<1>2. CASE BeginControl /\ UNCHANGED saved
    BY <1>2, BeginControlJournal
<1>3. CASE UNCHANGED saved /\ \E c \in call : Draw(c) \/ SourceFails(c) \/ GiveUp(c) \/ Finish(c)
  <2>1. PICK c \in call : Draw(c) \/ SourceFails(c) \/ GiveUp(c) \/ Finish(c)
      BY <1>3
  <2>2. CASE Draw(c)
      BY <1>3, <2>2, DrawJournal
  <2>3. CASE SourceFails(c)
      BY <1>3, <2>3, FailedCallJournal DEF SourceFails
  <2>4. CASE GiveUp(c)
      BY <1>3, <2>4, FailedCallJournal DEF GiveUp
  <2>5. CASE Finish(c)
      BY <1>3, <2>5, FinishJournal
  <2> QED
      BY <2>1, <2>2, <2>3, <2>4, <2>5
<1>4. CASE TakeCheckpoint
    BY <1>4, CheckpointJournal
<1>5. CASE \E journal \in Stored(Journal) : ReplayInto(journal)
    BY <1>5, ReplayIntoJournal
<1>6. CASE Clone
    BY <1>6, CloneJournal
<1>7. CASE UNCHANGED allVars
  <2>1. UNCHANGED <<session, call, transcript, saved>>
      BY <1>7 DEF allVars, vars
  <2> QED
      BY <2>1 DEF JournalInv, StandsInv, Opened, Journal
<1> QED
    BY <1>1, <1>2, <1>3, <1>4, <1>5, <1>6, <1>7 DEF ReplayedNext, CallNext

\* A call makes no session of another number.
LEMMA CallsKeepNumber ==
    ASSUME IInv, CallNext
    PROVE  session'.number = session.number
<1>1. Able(session) /\ \A op \in Operations : Legal(op) => Perform(session, op).session.number = session.number
    BY PerformSound DEF IInv, Able, Sound
<1>2. CASE BeginLoop
    BY <1>2 DEF BeginLoop
<1>3. CASE BeginControl
  <2> DEFINE op == Operation("control", "none", 0)
  <2>1. op \in Operations /\ Legal(op)
      BY DEF Operation, Operations, Legal
  <2>2. session' = Perform(session, op).session
      BY <1>3 DEF BeginControl, Entry
  <2> HIDE DEF op
  <2> QED
      BY <1>1, <2>1, <2>2
<1>4. ASSUME NEW c \in call, Draw(c) \/ SourceFails(c) \/ GiveUp(c)
      PROVE  session' = session
    BY <1>4 DEF Draw, SourceFails, GiveUp
<1>5. ASSUME NEW c \in call, Finish(c)
      PROVE  session'.number = session.number
  <2>1. c.operation \in Operations /\ Legal(c.operation)
      BY DEF IInv, CallsInv, Running
  <2>2. session' = Perform(session, c.operation).session
      BY <1>5 DEF Finish, Tried
  <2> QED
      BY <1>1, <2>1, <2>2
<1> QED
    BY <1>2, <1>3, <1>4, <1>5 DEF CallNext

\* Sessions are typed and offer only what can be decided; entries hold what
\* was supplied to their call; the position is what the entries took.
THEOREM SessionsAreAble == ReplayedSpec => []IInv
<1>1. ReplayedInit => IInv
    BY InitInvariant
<1>2. IInv /\ [ReplayedNext]_allVars => IInv'
    BY StepKeeps
<1> QED
    BY <1>1, <1>2, PTL DEF ReplayedSpec

\* The evidence of an entry is what the random source supplied to its call, no
\* matter how often the call drew, what replays have been made of the entries
\* since and which of them the storage has lost.
THEOREM EvidenceRecorded == ReplayedSpec => []EvidenceIsSupplied
<1>1. IInv => EvidenceIsSupplied
  <2> SUFFICES ASSUME IInv, NEW k \in DOMAIN transcript
               PROVE  \/ transcript[k].operation.values = supplied[transcript[k].call]
                      \/ transcript[k].outcome.kind = "save"
      BY DEF EvidenceIsSupplied
  <2>1. transcript[k] \in LoggedBy(Finished, supplied)
      BY DEF IInv
  <2> QED
      BY <2>1 DEF LoggedBy
<1> QED
    BY <1>1, SessionsAreAble, PTL

\* The random position of a session, whoever made it, is the number of values
\* that its entries have used up, less what the pending phases hold.
THEOREM PositionsAccount == ReplayedSpec => []PositionAccountsForEvidence
<1>1. IInv => PositionAccountsForEvidence
    BY DEF IInv, PositionAccountsForEvidence, Total
<1> QED
    BY <1>1, SessionsAreAble, PTL

\* The option that a session offers, and no other, decides what is pending in
\* it: not the one of the session it was cloned or restored from.
THEOREM OwnOptionsDecide == ReplayedSpec => []OptionsAnswerable
<1>1. IInv => OptionsAnswerable
  <2> SUFFICES ASSUME IInv, NEW phase \in {"reaction", "slide"}, NEW p \in session[phase],
                      session.save = {}, ~LeftBehind(session),
                      NEW binding \in 0 .. MaxNumber
               PROVE  (binding = Binding(session, p.command)) <=>
                         PerformDecision(session, phase, binding, <<>>).outcome.kind # "rejected"
      BY DEF OptionsAnswerable, Binding
  <2> DEFINE s       == session
             none    == <<>>
             outcome == Resolve(p.command, p.values \o none, TRUE)
             result  == PerformDecision(s, phase, binding, none)
  <2>1. s \in Sessions /\ Offers(s)
      BY DEF IInv, Able
  <2>2. s[phase] = {p} /\ p \in Pendings
      BY <2>1 DEF Sessions, Phases
  <2>3. /\ Captured(s, p)
        /\ p.revision = s.revision
        /\ phase = "slide" => s.reaction = {}
      BY <2>1 DEF Offers, LeftBehind
  <2>4. p.binding = Binding(s, p.command)
      BY <2>3 DEF Captured
  <2>5. CASE binding # p.binding
    <3>1. result = Reject(s)
        BY <2>2, <2>5 DEF PerformDecision
    <3> HIDE DEF none
    <3> QED
        BY <2>4, <2>5, <3>1 DEF Reject, Outcome, none
  <2>6. CASE binding = p.binding
    <3>1. (CHOOSE q \in {p} : TRUE) = p
        OBVIOUS
    <3>2. result.outcome = outcome
        BY <2>2, <2>3, <2>6, <3>1 DEF PerformDecision
    <3>3. p.command \in DOMAIN Commands /\ p.values \in Seq(Rolls)
        BY <2>2 DEF Pendings
    <3>4. p.values \o none = p.values
        BY <3>3
    <3>5. outcome.kind \in {"request", "accepted"}
        BY <2>3, <3>3, <3>4, DecisionsGoOn DEF Captured
    <3> HIDE DEF outcome
    <3> QED
        BY <2>4, <2>6, <3>2, <3>5
  <2> QED
      BY <2>5, <2>6
<1> QED
    BY <1>1, SessionsAreAble, PTL

\* A checkpoint and the entries recorded since, if the host has lost none of
\* them, make the very session they were recorded from: its revision, its
\* random position and whatever it waits for, under a number of its own.
THEOREM JournalsReplay == ReplayedSpec => []JournalReplays
<1>1. ReplayedInit => JournalInv
    BY InitJournal
<1>2. IInv /\ JournalInv /\ [ReplayedNext]_allVars => JournalInv'
    BY StepKeepsJournal
<1>3. IInv /\ JournalInv => JournalReplays
  <2> SUFFICES ASSUME IInv, JournalInv, Complete,
                      \A k \in DOMAIN Journal : ~Stale(Journal[k])
               PROVE  LET made == Replay(saved.checkpoint, Journal, session.number)
                      IN  made.ok /\ Unbound(made.session) = Unbound(session)
      BY DEF JournalReplays
  <2> DEFINE j == Journal
             c == saved.checkpoint
  <2>1. j \in Seq(Recorded) /\ j \in Seq(Sane)
      BY JournalTypes
  <2>2. Restorable(c)
      BY DEF Restorable, Complete, IInv, SavedInv, JournalInv, StandsInv
  <2>3. session \in Sessions /\ session.number \in Nat \ {0}
      BY DEF IInv, Able, Sessions
  <2>4. Linked(c, j, Unbound(session)) /\ ~Gap(j)
      BY DEF JournalInv, StandsInv, Complete
  <2> HIDE DEF j
  <2>5. Chained(c, j) /\ Unbound(session) = After(c, j, Len(j))
      BY <2>1, <2>3, <2>4, NoGapChains
  <2>6. \A k \in DOMAIN j : ~Stale(j[k])
      BY DEF j
  <2> HIDE DEF c
  <2>7. /\ Replay(c, j, session.number).ok
        /\ Unbound(Replay(c, j, session.number).session) = After(c, j, Len(j))
      BY <2>1, <2>2, <2>3, <2>5, <2>6, ChainReplays
  <2> QED
      BY <2>5, <2>7 DEF j, c
<1> QED
    BY <1>1, <1>2, <1>3, SessionsAreAble, PTL DEF ReplayedSpec

\* Whatever the storage gives back of a journal, with entries lost, repeated or
\* out of order, a replay that succeeds takes the session to a moment of its
\* own past.
THEOREM RecoveriesAreHistorical == ReplayedSpec => RecoveryIsHistorical
<1> DEFINE Past == session'.number > session.number /\ transcript' # transcript =>
                      LET replayed == SubSeq(transcript', saved.from + 1, Len(transcript'))
                      IN  IsPrefix(Effective(replayed), Effective(Journal))
<1>1. ReplayedInit => JournalInv
    BY InitJournal
<1>2. IInv /\ JournalInv /\ [ReplayedNext]_allVars => JournalInv'
    BY StepKeepsJournal
<1>3. IInv /\ JournalInv /\ [ReplayedNext]_allVars => [Past]_allVars
  <2> SUFFICES ASSUME IInv, JournalInv, [ReplayedNext]_allVars,
                      session'.number > session.number, transcript' # transcript
               PROVE  IsPrefix(Effective(SubSeq(transcript', saved.from + 1, Len(transcript'))),
                               Effective(Journal))
      OBVIOUS
  <2>1. session.number \in Nat
      BY DEF IInv, Able, Sessions
  <2>2. ~(CallNext /\ UNCHANGED saved)
      BY <2>1, CallsKeepNumber
  <2>3. ~TakeCheckpoint /\ ~Clone /\ ~UNCHANGED allVars
      BY DEF TakeCheckpoint, Clone, allVars, vars
  <2>4. PICK journal \in Stored(Journal) : ReplayInto(journal)
      BY <2>2, <2>3 DEF ReplayedNext
  <2>5. Journal' = journal /\ Chained(saved.checkpoint, journal)
      BY <2>4, ReplayedJournal
  <2>6. SubSeq(transcript', saved.from + 1, Len(transcript')) = journal
      BY <2>4, <2>5 DEF Journal, ReplayInto
  <2>7. /\ saved.checkpoint \in Sessions /\ Journal \in Seq(Recorded)
        /\ Linked(saved.checkpoint, Journal, Unbound(session))
      BY DEF IInv, SavedInv, JournalInv, StandsInv
  <2>8. IsPrefix(Effective(journal), Effective(Journal))
      BY <2>5, <2>7, StoredHistory
  <2> QED
      BY <2>6, <2>8
<1> QED
    BY <1>1, <1>2, <1>3, SessionsAreAble, PTL DEF ReplayedSpec, RecoveryIsHistorical
===============================================================================
