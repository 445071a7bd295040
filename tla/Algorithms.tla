------------------------------ MODULE Algorithms ------------------------------
(***************************************************************************)
(* The calculations of a session, each asked about an input and compared   *)
(* with a definition of its result that does not follow the code: routes   *)
(* and pushes on a board, scalar tests, dice pools and damage packets.     *)
(* The search for routes takes a step for each candidate it explores, the  *)
(* others answer in one.                                                   *)
(***************************************************************************)
EXTENDS BoardRoutes, DicePool, DamagePacket, ActionOptions, ScenarioSetup, ContributionTerms,
        FiniteSetsExt

CONSTANT Questions \* families of inputs: sets of the same kind of question

VARIABLES question, \* what is calculated: a kind and its input
          answer    \* the result, once it is there

vars == <<routeVars, question, answer>>

Init ==
    \/ /\ SearchInit
       /\ question = [kind |-> "route"]
       /\ answer = {}
    \/ /\ board \in {CHOOSE b \in Boards : TRUE}
       /\ frontier = {}
       /\ best = <<>>
       /\ \E family \in Questions : question \in family
       /\ answer = {}

Answer(kind, result) ==
    /\ question.kind = kind
    /\ answer = {}
    /\ answer' = {result}
    /\ UNCHANGED <<routeVars, question>>

AnswerTest == Answer("test", Resolved(question))

AnswerPool == Answer("pool", Construction(question.base, question.contributions))

AnswerFaces ==
    Answer("faces", NetAxes(question.raw, question.automatic, question.contributions,
                            question.pairs))

AnswerPacket ==
    Answer("packet",
           [amounts |-> Amounts(question.parts, question.responses, question.reduction),
            vitality |-> AfterPacket(question.vitality, question.parts,
                                     question.responses, question.reduction)])

AnswerArea == Answer("area", Prepared(question))

AnswerSetup == Answer("setup", Setup(question.bundle, question.scenario))

AnswerView ==
    Answer("view", [options |-> Offered(question), control |-> ControlOffered(question)])

AnswerTerms == Answer("terms", Candidate(question))

Search == Explore /\ UNCHANGED <<question, answer>>

Next ==
    \/ Search \/ AnswerTest \/ AnswerPool \/ AnswerFaces \/ AnswerPacket \/ AnswerArea
    \/ AnswerSetup \/ AnswerView \/ AnswerTerms

Spec == Init /\ [][Next]_vars

-------------------------------------------------------------------------------
(* Areas. *)

\* The line between the centres of "s" and "e" meets the closed square of "c":
\* its corners, in halves of a cell, are not all on one side of the line.
Meets(s, e, c) ==
    LET side(q) == (X(e) - X(s)) * (Y(q) - 2 * Y(s)) - (Y(e) - Y(s)) * (X(q) - 2 * X(s))
        sides == {side(<<2 * X(c) + i, 2 * Y(c) + j>>) : i, j \in {-1, 1}}
    IN  (\E n \in sides : n <= 0) /\ (\E n \in sides : n >= 0)

Between(a, b) == Min({a, b}) .. Max({a, b})

\* An area reaches exactly the participants it can get at, and says of every
\* other one that stands in its shape once what kept it out; it is refused
\* where its anchor cannot be reached or it has too few or too many of them.
\* Every square that a line of effect meets, if only at a corner, has to be
\* there and open.  A participant may stand where no cell was authored: no
\* area reaches it there, and no line leaves from there (area_projection).
AreaIsWhole ==
    question.kind = "area" =>
        \A result \in answer :
            LET q == question
                at(p) == q.participants[p].position
                from == at(q.actor)
                clear(s, e) ==
                    q.selector.sight =>
                        /\ {s, e} \subseteq DOMAIN q.cells
                        /\ \A c \in Between(X(s), X(e)) \X Between(Y(s), Y(e)) :
                              c \notin {s, e} /\ Meets(s, e, c)
                                  => c \in DOMAIN q.cells /\ ~q.cells[c].blocks
                heading(c) == <<Direction(X(c) - X(from)), Direction(Y(c) - Y(from))>>
                ray == q.selector.shape = "line"
                origin == IF ray THEN from ELSE q.anchor
                within(c) ==
                    /\ Apart(origin, c) <= q.selector.size
                    /\ ray => 0 \in {X(heading(c)), Y(heading(c))}
                              /\ c # from /\ heading(c) = heading(q.anchor)
                present == {p \in DOMAIN q.participants : within(at(p)) /\ at(p) \in DOMAIN q.cells}
                reached == {p \in present :
                              /\ clear(origin, at(p))
                              /\ TeamAllows(q, p)
                              /\ q.selector.living => q.participants[p].vitality > 0}
            IN  /\ result.ok <=>
                      /\ q.named = {}
                      /\ q.anchor \in DOMAIN q.cells
                      /\ Apart(from, q.anchor) <= q.selector.range
                      /\ clear(from, q.anchor)
                      /\ within(q.anchor)
                      /\ ray => from \in DOMAIN q.cells
                      /\ Cardinality(reached) \in q.selector.minimum .. q.selector.maximum
                /\ result.ok =>
                      /\ result.targets = reached
                      /\ {f.id : f \in result.filtered} = present \ reached
                      /\ \A f, g \in result.filtered : f.id = g.id => f = g

-------------------------------------------------------------------------------
(* Options. *)

\* What a client may send back: with each item, from here or from a session or
\* a revision that is another.
Submissions(v) ==
    LET chosen == CASE v.selector.kind = "participant" ->
                         {[t |-> t, c |-> {}] : t \in SUBSET DOMAIN v.participants}
                    [] v.selector.kind = "cell" -> {[t |-> {c}, c |-> {c}] : c \in DOMAIN v.cells}
                    [] v.selector.kind = "area" -> {[t |-> {}, c |-> {c}] : c \in DOMAIN v.cells}
    IN  {[Intent(v, item, x.t, x.c) EXCEPT !.binding.session = number,
                                           !.binding.revision = revision] :
            item \in {{}} \cup {{w} : w \in v.worn}, x \in chosen,
            number \in {v.number, 0}, revision \in {v.revision, 0}}

\* The participants, cells and anchors that are offered are those that will be
\* accepted when they come back, alone and together, for as long as nothing
\* has happened; nothing else is.  That holds of a session whose encounter is
\* in progress, whose actor lives, and of an area that asks for the living: of
\* the others the view says too much, and submit never takes what is not
\* offered (encounter_view beside submit).
OptionsAreAccepted ==
    question.kind = "view" =>
        \A result \in answer :
            LET v == question
                exact == /\ InProgress(v) /\ Lives(v, v.actor)
                         /\ v.selector.kind = "area" => v.selector.living
                each(i) == {[i EXCEPT !.targets = {t}] : t \in i.targets}
                offered(i) ==
                    IF v.selector.kind = "participant"
                    THEN /\ Cardinality(i.targets) \in 1 .. v.selector.maximum
                         /\ each(i) \subseteq result.options
                    ELSE i \in result.options
            IN  /\ \A i \in Submissions(v) :
                      /\ Accepts(v, i) => offered(i)
                      /\ exact /\ offered(i) => Accepts(v, i)
                /\ result.options \subseteq Submissions(v)
                /\ result.control => ControlAccepted(v)

-------------------------------------------------------------------------------
(* Setup. *)

\* A Scenario that is accepted is built without a failed expectation, a checkpoint
\* taken at once is accepted for it, and what later calls look up is there
\* once: the cell of a position and of an identity, the item a slot holds, the
\* place of the current actor in the order, who lives and has an action
\* (validate_scenario beside build_encounter and validate_restored_encounter).
SetupIsWhole ==
    question.kind = "setup" =>
        \A result \in answer :
            LET s == question.scenario
                once(n, P(_)) == Cardinality({k \in 1 .. n : P(k)}) = 1
                cells == s.board.cells
            IN  /\ result.outcome # "panics"
                /\ result.outcome = "built" =>
                      /\ ValidRestored(question.bundle, s, result)
                      /\ \A i \in DOMAIN cells :
                            /\ once(Len(cells), LAMBDA j : cells[j].id = cells[i].id)
                            /\ once(Len(cells), LAMBDA j : cells[j].position = cells[i].position)
                      /\ once(Len(s.turn.order), LAMBDA k : s.turn.order[k] = s.turn.current)
                      /\ \A n \in DOMAIN s.participants :
                            LET p == s.participants[n]
                                worn == p.equipment
                            IN  /\ once(Len(s.turn.order), LAMBDA k : s.turn.order[k] = p.id)
                                /\ \E d \in DOMAIN p.definitions :
                                      question.bundle.definitions[p.definitions[d]].kind = "action"
                                /\ \A e \in DOMAIN worn :
                                      /\ once(Len(p.items), LAMBDA k : p.items[k].id = worn[e].item)
                                      /\ once(Len(worn), LAMBDA k : worn[k].slot = worn[e].slot)
                                      /\ once(Len(worn), LAMBDA k : worn[k].item = worn[e].item)

-------------------------------------------------------------------------------
(* Scalar tests. *)

\* What a group is worth under its policy.
Worth(policy, values) ==
    LET positive == {v \in values : v > 0}
        negative == {v \in values : v < 0}
    IN  CASE policy = "greatest" -> IF values = {} THEN 0 ELSE Max(values)
          [] policy = "least" -> IF values = {} THEN 0 ELSE Min(values)
          [] policy = "signedExtremes" ->
                (IF positive = {} THEN 0 ELSE Max(positive))
                + (IF negative = {} THEN 0 ELSE Min(negative))

\* The total of a test is its roll, its modifier and what the policy of each
\* group makes of the applicable contributions, and of equal contributions the
\* first in canonical order is the one retained (evaluate_contribution_ledger).
LedgerFollowsPolicies ==
    question.kind = "test" =>
        \A result \in answer :
            LET c == question.contributions
                of(g) == {k \in DOMAIN c : c[k].applies /\ c[k].group = g}
                worth(g) ==
                    IF Policy[g] = "sum"
                    THEN Total([k \in of(g) |-> c[k].value])
                    ELSE Worth(Policy[g], {c[k].value : k \in of(g)})
            IN  result.ok =>
                  /\ result.total = question.roll + question.modifier
                                      + Total([g \in DOMAIN Policy |-> worth(g)])
                  /\ \A g \in {h \in DOMAIN Policy : Policy[h] # "sum"} :
                        \A k \in of(g) \cap result.retained, j \in of(g) :
                            c[j].value = c[k].value => k <= j

\* The final band is reached one band at a time: a shift of n is n single
\* steps, each of which stays on the ladder (evaluate_outcome_band_shift_ledger).
BandsMoveOneAtATime ==
    question.kind = "test" =>
        \A result \in answer :
            LET s == question.shifts
                unit(n) == IF n < 0 THEN -1 ELSE 1
                step(band, n) ==
                    IF band + n \in 1 .. question.bands THEN band + n ELSE band
                steps == {e \in (DOMAIN s) \X (1 .. question.bands) :
                            /\ s[e[1]].applies
                            /\ e[2] <= unit(s[e[1]].shift) * s[e[1]].shift}
                walk[k \in DOMAIN s \cup {0}, n \in 0 .. question.bands] ==
                    IF k = 0 THEN AfterNatural(question, result.base)
                    ELSE IF n = 0 THEN walk[k - 1, question.bands]
                    ELSE IF <<k, n>> \in steps
                         THEN step(walk[k, n - 1], unit(s[k].shift))
                         ELSE walk[k, n - 1]
            IN  result.ok => result.final = walk[Len(s), question.bands]

-------------------------------------------------------------------------------
(* Contributions. *)

\* The value of an expression as the sum of its leaves: one under the second
\* part of an odd number of differences counts against it.
SignedSum(q, e) ==
    LET all == Subterms(e, <<>>)
        leaves == {s \in all : s.term.op \in {"constant", "read"}}
        against(at) == {k \in DOMAIN at : /\ at[k] = 2
                                         /\ \E s \in all : /\ s.at = SubSeq(at, 1, k - 1)
                                                           /\ s.term.op = "subtract"}
        worth(t) == IF t.op = "constant" THEN t.value ELSE Subject(q, t.subject).values[t.key]
    IN  Total([s \in leaves |->
                 IF Cardinality(against(s.at)) % 2 = 0 THEN worth(s.term) ELSE -worth(s.term)])

\* The question with every value that a participant lacks given to it.
Completions(q) ==
    {[q EXCEPT !.participants =
        [p \in DOMAIN q.participants |->
           [q.participants[p] EXCEPT !.values =
              [k \in DOMAIN q.bundle.values |-> IF k \in DOMAIN @ THEN @[k] ELSE given]]]] :
        given \in UNION {{q.bundle.values[k][1], q.bundle.values[k][2]} : k \in DOMAIN q.bundle.values}}

\* Two of one team stand on opposite sides of a hostile, all three alive.
Pincers(q, p, r, between) ==
    LET at(i) == q.participants[i].position
    IN  /\ p # r /\ \A i \in {p, r, between} : Alive(q, i)
        /\ SameTeam(q, p, r) /\ ~ SameTeam(q, p, between)
        /\ Apart(at(p), at(r)) = 2
        /\ \A axis \in {1, 2} : at(p)[axis] - at(between)[axis] = at(between)[axis] - at(r)[axis]

RECURSIVE Holds(_, _)

Holds(q, p) ==
    CASE p.op = "not" -> ~ Holds(q, p.of[1])
      [] p.op = "all" -> \A k \in DOMAIN p.of : Holds(q, p.of[k])
      [] p.op = "any" -> \E k \in DOMAIN p.of : Holds(q, p.of[k])
      [] p.op = "flanks" -> \E ally \in DOMAIN q.participants : Pincers(q, q.actor, ally, q.target)
      [] p.op \notin {"not", "all", "any", "flanks"} -> Decides(q, p) = {TRUE}

\* A contribution that the compiler has accepted, in a resolution whose
\* participants have the values it reads, is worth what its leaves add up to, inside the
\* domain of its selector, and its predicate is decided.  If one of them lacks a value
\* the predicate decides only what no value could change, and else the
\* resolution fails.  Whoever flanks has a partner who flanks, and is seen by the
\* flanked one among those that surround it.  (validate_scalar_contributions
\* beside evaluate_contribution_ledger; a selector wider than i32 is left out.)
ContributionsEvaluate ==
    question.kind = "terms" =>
        \A result \in answer :
            LET q == question
                c == q.contribution
                domain == q.bundle.selectors[c.selector]
                complete == \A s \in {"actor", "target"} :
                               DOMAIN q.bundle.values \subseteq DOMAIN Subject(q, s).values
            IN  result.accepted =>
                  /\ complete /\ InDomain(domain[1]) /\ InDomain(domain[2])
                        => result.value # {} /\ result.applies # {}
                  /\ \A n \in result.value :
                        n \in domain[1] .. domain[2] /\ n = SignedSum(q, c.value)
                  /\ \A b \in result.applies :
                        \A full \in Completions(q) : b = Holds(full, c.predicate)
                  /\ Flanks(q, q.actor, q.target) =>
                        /\ \E ally \in DOMAIN q.participants \ {q.actor} : Flanks(q, ally, q.target)
                        /\ AdjacentHostiles(q, q.target) >= 2

-------------------------------------------------------------------------------
(* Pools and packets. *)

\* How many of "n" units find a die to exchange among "have", when the
\* fallback puts one back ("again") or does not.
Exchanged(n, have, again) ==
    IF n <= have THEN n ELSE have + IF again THEN (n - have) \div 2 ELSE 0

\* The pool holds the base dice and the retained additions, and each replacement
\* has exchanged as many dice as it found, later ones those of earlier ones too,
\* with one fallback for every other unit; a cancellation leaves nothing on one
\* of its two axes and keeps their difference (resolve_heterogeneous_pool).
PoolAddsUp ==
    /\ question.kind = "pool" =>
        \A result \in answer :
            LET c == question.contributions
                retained == RetainedEffects(c)
                pool[k \in 0 .. Len(c)] ==
                    IF k = 0
                    THEN [d \in Dice |-> question.base[d] + Grouped(c, "addDice", Dice)[d]]
                    ELSE IF k \in retained /\ c[k].effect.kind = "replaceOrAddDie"
                    THEN LET e == c[k].effect
                             x == Exchanged(e.amount, pool[k - 1][e.of], e.fallback = e.of)
                         IN  [pool[k - 1] EXCEPT ![e.of] = @ - x, ![e.to] = @ + x,
                                                 ![e.fallback] = @ + e.amount - x]
                    ELSE pool[k - 1]
            IN  /\ result.ok => result.dice = pool[Len(c)]
                /\ ~ result.ok => \/ \E d \in Dice : pool[0][d] \notin 0 .. MaxDice
                                  \/ Total(pool[0]) = 0
                                  \/ Total(pool[Len(c)]) > MaxDice
    /\ question.kind = "faces" =>
        \A result \in answer :
            result.ok =>
                \A n \in DOMAIN question.pairs :
                    LET p == question.pairs[n].positive
                        m == question.pairs[n].negative
                        drawn(a) == question.raw[a] + question.automatic[a]
                                      + Grouped(question.contributions, "addAxis", Axes)[a]
                    IN  /\ 0 \in {result.axes[p], result.axes[m]}
                        /\ result.axes[p] - result.axes[m] = drawn(p) - drawn(m)

\* The pending reduction lessens the first part alone, an eligible immunity
\* leaves nothing of its part, a part that every response is bypassed by keeps
\* its amount, and vitality falls by the sum of the parts and stops at
\* zero (resolve_damage_packet).
PacketFollowsPhases ==
    question.kind = "packet" =>
        \A result \in answer :
            LET q == question
                plain == Amounts(q.parts, q.responses, 0)
                sum == Total(result.amounts)
                applies(r, part) ==
                    /\ r.type = part.type
                    /\ \A tag \in r.required : tag \in part.tags
                    /\ \A tag \in r.bypass : tag \notin part.tags
            IN  /\ \A k \in DOMAIN q.parts : k > 1 => result.amounts[k] = plain[k]
                /\ result.amounts[1] <= plain[1]
                /\ \A k \in DOMAIN q.parts, n \in DOMAIN q.responses :
                      applies(q.responses[n], q.parts[k])
                      /\ q.responses[n].effect.kind = "immune" => result.amounts[k] = 0
                /\ \A k \in DOMAIN q.parts \ {1} :
                      (\A n \in DOMAIN q.responses : ~ applies(q.responses[n], q.parts[k]))
                          => result.amounts[k] = q.parts[k].amount
                /\ \A k \in DOMAIN q.parts : result.amounts[k] >= 0
                /\ result.vitality = Max({0, q.vitality - sum})
===============================================================================
