--------------------------- MODULE ContributionTerms ---------------------------
(***************************************************************************)
(* What a scalar contribution is worth and whether it applies: the contract*)
(* the compiler holds it to (crates/rpg-compiler/src/artifact.rs,          *)
(* validate_scalar_contributions) and its evaluation in a test             *)
(* (crates/rpg-compiler/src/execute.rs).                                   *)
(*                                                                         *)
(* Expressions and predicates are [op, of, ...] with a sequence of parts.  *)
(* A question has the "bundle" [values, groups, definitions, tags], the    *)
(* "source" of the "contribution", and the resolution it is evaluated in:  *)
(* "participants", "actor", "target", the bound "item" and the "tags" of   *)
(* the action.  i64 is -MaxWide..MaxWide.  A result is a set: a singleton, *)
(* or empty when the evaluation fails.                                     *)
(***************************************************************************)
EXTENDS BoardSight, ScalarTest

CONSTANTS MaxWide,   \* i64::MAX
          TermLimits \* the MAX_CONTRIBUTION_ constants

LOCAL IsWide(n) == n \in -MaxWide .. MaxWide

-------------------------------------------------------------------------------
(* The contract. *)

RECURSIVE Subterms(_, _)

\* The parts of an expression or predicate, each at its path.
Subterms(e, at) ==
    {[term |-> e, at |-> at]} \cup UNION {Subterms(e.of[k], Append(at, k)) : k \in DOMAIN e.of}

LOCAL Parts(e) == {s.term : s \in Subterms(e, <<>>)}

WithinLimits(e, depth, nodes) ==
    /\ \A s \in Subterms(e, <<>>) : Len(s.at) < depth
    /\ Cardinality(Subterms(e, <<>>)) <= nodes
    /\ \A t \in Parts(e) : t.op \in {"add", "all", "any"} => Len(t.of) \in 1 .. TermLimits.parts

\* The sums of the first k numbers of a sequence.
Sums(s) ==
    LET sum[k \in 0 .. Len(s)] == IF k = 0 THEN 0 ELSE sum[k - 1] + s[k]
    IN  sum

RECURSIVE PossibleRangeUncrossed(_, _), PossibleRange(_, _)

\* Mutant: the least of a difference is taken from the least of both sides.
PossibleRangeUncrossed(b, e) ==
    LET part(k) == PossibleRangeUncrossed(b, e.of[k])
        sums(side) == Sums([k \in DOMAIN e.of |-> part(k)[side]])
    IN  CASE e.op = "constant" -> <<e.value, e.value>>
          [] e.op = "read" -> b.values[e.key]
          [] e.op = "add" -> <<sums(1)[Len(e.of)], sums(2)[Len(e.of)]>>
          [] e.op = "subtract" -> <<part(1)[1] - part(2)[1], part(1)[2] - part(2)[2]>>

\* validate_contribution_value_expression: the least and the greatest value.
PossibleRange(b, e) ==
    LET part(k) == PossibleRange(b, e.of[k])
        sums(side) == Sums([k \in DOMAIN e.of |-> part(k)[side]])
    IN  CASE e.op = "constant" -> <<e.value, e.value>>
          [] e.op = "read" -> b.values[e.key]
          [] e.op = "add" -> <<sums(1)[Len(e.of)], sums(2)[Len(e.of)]>>
          [] e.op = "subtract" -> <<part(1)[1] - part(2)[2], part(1)[2] - part(2)[1]>>

\* No bound of the expression, nor of the first terms of a sum, overflows.
RangeFits(b, e) ==
    \A t \in Parts(e) :
        LET within(s) == \A side \in {1, 2} : IsWide(PossibleRange(b, s)[side])
        IN  IF t.op = "add"
            THEN \A k \in 1 .. Len(t.of) : within([t EXCEPT !.of = SubSeq(t.of, 1, k)])
            ELSE within(t)

ValidValue(q, e) ==
    /\ WithinLimits(e, TermLimits.depth, TermLimits.nodes)
    /\ \A t \in Parts(e) : t.op = "read" => t.owner = "this" /\ t.key \in DOMAIN q.bundle.values
    /\ RangeFits(q.bundle, e)

\* A definition of a kind that the source declares an edge to.
Declared(q, id, kind, own) ==
    /\ id \in DOMAIN q.bundle.definitions
    /\ q.bundle.definitions[id] = kind
    /\ (own /\ id = q.source.id) \/ id \in q.source.references

\* validate_contribution_predicate
ValidPredicateTerm(q, p) ==
    CASE p.op \in {"always", "actorIsTarget", "team", "living", "distance", "flanks",
                   "not", "all", "any", "actionTag"} -> TRUE
      [] p.op = "namedValue"  -> p.owner = "this" /\ p.key \in DOMAIN q.bundle.values
      [] p.op = "surrounded"  -> p.minimum \in 2 .. 4
      [] p.op = "item"        -> Declared(q, p.definition, "item", TRUE)
      [] p.op = "itemTag"     -> p.tag \in q.bundle.tags
      [] p.op = "cell"        -> Declared(q, p.capability, "support", FALSE)
      [] p.op = "effect"      -> Declared(q, p.definition, "effect", TRUE)

\* validate_scalar_contributions
AcceptsContribution(q) ==
    LET c == q.contribution
    IN  /\ q.source.kind # "effect" => c.lane = "actor"
        /\ c.selector \in DOMAIN q.bundle.selectors
        /\ c.group \in q.bundle.groups
        /\ ValidValue(q, c.value)
        /\ LET range == PossibleRange(q.bundle, c.value)
               domain == q.bundle.selectors[c.selector]
           IN  range[1] >= domain[1] /\ range[2] <= domain[2]
        /\ WithinLimits(c.predicate, TermLimits.depth, TermLimits.nodes)
        /\ \A p \in Parts(c.predicate) : ValidPredicateTerm(q, p)

-------------------------------------------------------------------------------
(* The evaluation. *)

Subject(q, subject) == q.participants[IF subject = "actor" THEN q.actor ELSE q.target]

\* read_contribution_value
ReadValue(q, subject, key) ==
    {Subject(q, subject).values[k] : k \in {key} \cap DOMAIN Subject(q, subject).values}

RECURSIVE ValueOf(_, _)

\* evaluate_contribution_value_i64
ValueOf(q, e) ==
    CASE e.op = "constant" -> {e.value}
      [] e.op = "read" -> ReadValue(q, e.subject, e.key)
      [] e.op = "add" ->
            LET total[k \in 0 .. Len(e.of)] ==
                    IF k = 0 THEN {0}
                    ELSE {t + v : t \in total[k - 1], v \in ValueOf(q, e.of[k])} \cap (-MaxWide .. MaxWide)
            IN  total[Len(e.of)]
      [] e.op = "subtract" ->
            {l - r : l \in ValueOf(q, e.of[1]), r \in ValueOf(q, e.of[2])} \cap (-MaxWide .. MaxWide)

\* evaluate_contribution_value
DeclaredValue(q) == {n \in ValueOf(q, q.contribution.value) : InDomain(n)}

Compared(l, comparison, r) ==
    CASE comparison = "lessThan" -> l < r
      [] comparison = "lessThanOrEqual" -> l <= r
      [] comparison = "equal" -> l = r
      [] comparison = "greaterThanOrEqual" -> l >= r
      [] comparison = "greaterThan" -> l > r

Alive(q, p) == q.participants[p].vitality > 0

Adjacent(q, p, r) == Apart(q.participants[p].position, q.participants[r].position) = 1

SameTeam(q, p, r) == q.participants[p].team = q.participants[r].team

\* positions_are_opposite
Opposite(a, centre, b) ==
    \/ Y(a) = Y(centre) /\ Y(b) = Y(centre) /\ X(a) + X(b) = 2 * X(centre)
    \/ X(a) = X(centre) /\ X(b) = X(centre) /\ Y(a) + Y(b) = 2 * Y(centre)

\* actor_flanks_target
Flanks(q, actor, target) ==
    LET at(p) == q.participants[p].position
    IN  /\ Alive(q, actor) /\ Alive(q, target)
        /\ ~ SameTeam(q, actor, target)
        /\ Adjacent(q, actor, target)
        /\ \E ally \in DOMAIN q.participants \ {actor, target} :
              /\ SameTeam(q, ally, actor)
              /\ Alive(q, ally)
              /\ Adjacent(q, ally, target)
              /\ Opposite(at(actor), at(target), at(ally))

\* actor_adjacent_living_hostile_count
AdjacentHostiles(q, actor) ==
    IF ~ Alive(q, actor) THEN 0
    ELSE Cardinality({p \in DOMAIN q.participants \ {actor} :
                        ~ SameTeam(q, p, actor) /\ Alive(q, p) /\ Adjacent(q, p, actor)})

\* evaluate_contribution_predicate without its connectives.
Decides(q, p) ==
    LET place(s) == Subject(q, s).position
    IN  CASE p.op = "always" -> {TRUE}
          [] p.op = "actorIsTarget" -> {(q.actor = q.target) = p.expected}
          [] p.op = "team" -> {SameTeam(q, q.actor, q.target) = p.same}
          [] p.op = "living" -> {(Subject(q, p.subject).vitality > 0) = p.expected}
          [] p.op = "namedValue" ->
                {Compared(v, p.comparison, p.value) : v \in ReadValue(q, p.subject, p.key)}
          [] p.op = "distance" ->
                {Compared(Apart(place("actor"), place("target")), p.comparison, p.value)}
          [] p.op = "flanks" -> {Flanks(q, q.actor, q.target)}
          [] p.op = "surrounded" -> {AdjacentHostiles(q, q.actor) >= p.minimum}
          [] p.op = "item" -> {\E i \in q.item : i.definition = p.definition}
          [] p.op = "itemTag" -> {\E i \in q.item : p.tag \in i.tags}
          [] p.op = "actionTag" -> {p.tag \in q.tags}
          [] p.op = "cell" -> {p.capability \in Subject(q, p.subject).cell}
          [] p.op = "effect" -> {p.definition \in Subject(q, p.subject).effects}

RECURSIVE Applies(_, _)

\* evaluate_contribution_predicate: the parts of "all" and "any" are evaluated
\* as far as they are needed.
Applies(q, p) ==
    LET until(stop) ==
            LET found[k \in 0 .. Len(p.of)] ==
                    IF k = 0 THEN {~ stop}
                    ELSE IF found[k - 1] = {~ stop} THEN Applies(q, p.of[k]) ELSE found[k - 1]
            IN  found[Len(p.of)]
    IN  CASE p.op = "not" -> {~ b : b \in Applies(q, p.of[1])}
          [] p.op = "all" -> until(FALSE)
          [] p.op = "any" -> until(TRUE)
          [] p.op \notin {"not", "all", "any"} -> Decides(q, p)

\* One candidate of evaluate_contribution_ledger: its value comes first, so
\* that a contribution that does not apply may still fail.
Candidate(q) ==
    [accepted |-> AcceptsContribution(q),
     value    |-> DeclaredValue(q),
     applies  |-> IF DeclaredValue(q) = {} THEN {} ELSE Applies(q, q.contribution.predicate)]
===============================================================================
