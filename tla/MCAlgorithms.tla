----------------------------- MODULE MCAlgorithms -----------------------------
(***************************************************************************)
(* Inputs for the calculations: boards of four by three with obstacles     *)
(* and costly cells, and short lists of contributions, shifts, pool        *)
(* effects and damage responses of every kind.                             *)
(***************************************************************************)
EXTENDS Algorithms

\* The mover in a corner, at an edge or in the middle, another in line with it or not.
MCBoards ==
    {[cost |-> [c \in 0 .. 11 |->
                  IF c \in closed THEN 0 ELSE IF c \in costly THEN 2 ELSE 1],
      origin |-> at[1], source |-> at[2], occupied |-> {at[2], 11}, reach |-> reach] :
        closed \in {{}, {2}, {5}, {6, 9}},
        costly \in SUBSET {2, 4, 6, 10},
        at     \in {<<0, 4>>, <<1, 0>>, <<5, 4>>, <<9, 4>>},
        reach  \in {2, 5}}

MCPolicy == [stack |-> "sum", best |-> "greatest", worst |-> "least", mixed |-> "signedExtremes"]

Contributions ==
    {c \in [group : DOMAIN MCPolicy, value : {-2, 0, 1, 2}, applies : BOOLEAN] :
        ~ c.applies => c.value = 2}

Lists(S, n) == UNION {[1 .. k -> S] : k \in 0 .. n}

Wide == [minimum |-> -9, maximum |-> 9]

Margins == <<[minimum |-> -99, maximum |-> -2, band |-> 1],
             [minimum |-> -1, maximum |-> 0, band |-> 2],
             [minimum |-> 1, maximum |-> 99, band |-> 3]>>

Natural == <<[minimum |-> 6, maximum |-> 6, effect |-> "setBand", amount |-> 3],
             [minimum |-> 1, maximum |-> 1, effect |-> "shift", amount |-> -1]>>

Test(roll, contributions, shifts) ==
    [kind |-> "test", roll |-> roll, modifier |-> 1, difficulty |-> 4,
     contributions |-> contributions, selector |-> [minimum |-> -3, maximum |-> 4],
     profile |-> Wide, margins |-> Margins, natural |-> Natural, bands |-> 3,
     shifts |-> shifts]

ContributedTests == {Test(3, c, <<>>) : c \in Lists(Contributions, 3)}

ShiftedTests ==
    {[Test(roll, <<>>, s) EXCEPT !.difficulty = difficulty] :
        roll \in {1, 3, 6}, difficulty \in {2, 4, 10},
        s \in Lists([shift : {-3, -1, 1, 2}, applies : BOOLEAN], 3)}

Effect(kind, of, to, fallback, amount) ==
    [kind |-> kind, of |-> of, to |-> to, fallback |-> fallback, amount |-> amount]

PoolEffects ==
    {Effect("addDice", "red", "red", "red", n) : n \in {-1, 2}}
    \cup {Effect("replaceOrAddDie", "red", "blue", f, n) : f \in {"red", "green"}, n \in {1, 3}}
    \cup {Effect("replaceOrAddDie", "blue", "green", "red", 2)}

Base(red, blue) == [red |-> red, blue |-> blue, green |-> 0]

Pools ==
    {[kind |-> "pool", base |-> base, contributions |-> c] :
        base \in {Base(0, 0), Base(1, 0), Base(2, 1)},
        c \in Lists({[group |-> g, applies |-> TRUE, effect |-> e] :
                        g \in {"stack", "best"}, e \in PoolEffects}, 3)}

Faces ==
    {[kind |-> "faces", raw |-> raw, automatic |-> automatic, pairs |-> pairs,
      contributions |-> <<[group |-> "stack", applies |-> TRUE,
                           effect |-> Effect("addAxis", "hit", "hit", "hit", n)]>>] :
        raw \in [{"hit", "miss"} -> 0 .. 2],
        automatic \in [{"hit", "miss"} -> -1 .. 1],
        n \in {0, 1},
        pairs \in {<<>>, <<[positive |-> "hit", negative |-> "miss"]>>}}

Response(required, bypass, kind, value, numerator) ==
    [type |-> "fire", required |-> required, bypass |-> bypass,
     effect |-> [kind |-> kind, value |-> value,
                 numerator |-> numerator, denominator |-> 2]]

Packets ==
    {[kind |-> "packet", vitality |-> 6, reduction |-> reduction, responses |-> responses,
      parts |-> <<[type |-> "fire", tags |-> tags, amount |-> 5],
                  [type |-> second, tags |-> {"holy"}, amount |-> 3]>>] :
        reduction \in {0, 2},
        tags \in SUBSET {"holy", "piercing"},
        second \in {"fire", "cold"},
        responses \in
            {immune \o flat \o scale :
                immune \in {<<>>, <<Response({"holy"}, {"piercing"}, "immune", 0, 1)>>},
                flat \in {<<>>, <<Response({}, {"piercing"}, "flat", -4, 1)>>,
                          <<Response({"holy"}, {}, "flat", 3, 1),
                            Response({}, {}, "flat", -4, 1)>>},
                scale \in {<<>>, <<Response({}, {}, "scale", 0, 1)>>,
                           <<Response({}, {"holy"}, "scale", 0, 3),
                             Response({}, {}, "scale", 0, 1)>>}}}

\* A board of four by four with one or two obstacles and maybe a hole, or two
\* under participants; the actor in a corner or inside, the others where they
\* may be in the way of each other.
Fighter(x, y, team, vitality) == [position |-> <<x, y>>, team |-> team, vitality |-> vitality]

Square == (0 .. 3) \X (0 .. 3)

Areas ==
    {[kind |-> "area", actor |-> 1, anchor |-> anchor, named |-> {},
      cells |-> [c \in Square \ hole |-> [blocks |-> c \in walls]],
      participants |-> <<Fighter(at[1], at[2], "a", 2), Fighter(3, 2, "b", 2),
                         Fighter(2, 0, "a", 2), Fighter(2, 3, "b", 0)>>,
      selector |-> [shape |-> shape, size |-> 2, range |-> range, sight |-> sight,
                    team |-> team, living |-> team # "any", minimum |-> 1, maximum |-> 2]] :
        anchor \in Square,
        hole   \in {{}, {<<1, 2>>}, {<<1, 3>>, <<2, 0>>}},
        walls  \in {{}, {<<1, 1>>}, {<<2, 1>>}, {<<2, 2>>, <<1, 0>>}},
        at     \in {<<0, 0>>, <<3, 1>>, <<1, 3>>},
        shape  \in {"diamond", "line"},
        range  \in {2, 4},
        sight  \in BOOLEAN,
        team   \in {"hostile", "ally", "any"}}

NamedArea ==
    {[kind |-> "area", actor |-> 1, anchor |-> <<1, 0>>, named |-> {2},
      cells |-> [c \in Square |-> [blocks |-> FALSE]],
      participants |-> <<Fighter(0, 0, "a", 2), Fighter(2, 0, "b", 2)>>,
      selector |-> [shape |-> "line", size |-> 2, range |-> 2, sight |-> TRUE,
                    team |-> "any", living |-> TRUE, minimum |-> 1, maximum |-> 2]]}

\* A session of three on a board of three by two with a costly cell: the
\* actor in a corner, a hostile one in another, and a third who may be of either
\* team; each of them may have fallen.
Blade(slot) == [slot |-> slot, item |-> 1, definition |-> "blade"]

Bow == [slot |-> 1, item |-> 2, definition |-> "bow"]

Selectors ==
    {[kind |-> kind, team |-> team, range |-> range, sight |-> sight, minimum |-> 1,
      maximum |-> IF kind = "cell" THEN 1 ELSE 2, shape |-> "diamond", size |-> 1,
      living |-> team # "any"] :
        kind \in {"participant", "cell", "area"}, team \in {"hostile", "ally", "any"},
        range \in {1, 3}, sight \in BOOLEAN}

View(selector, walls, lives, third, life) ==
    [kind |-> "view", number |-> 1, revision |-> 2, actor |-> 1, anchor |-> <<0, 0>>,
     cells |-> [c \in (0 .. 2) \X (0 .. 1) |->
                  [blocks |-> c \in walls,
                   cost |-> IF c = <<1, 1>> THEN 2 ELSE IF c \in walls THEN 0 ELSE 1]],
     participants |-> <<Fighter(0, 0, "a", lives), Fighter(2, 1, "b", 2),
                        Fighter(1, 1, third, life)>>,
     worn |-> {}, slots |-> {}, owned |-> TRUE, timing |-> "action", limits |-> {},
     allowance |-> 1, distance |-> 2, pay |-> TRUE, phase |-> "none", moves |-> TRUE,
     tagged |-> TRUE, selector |-> selector]

BoardViews ==
    {[View(selector, walls, lives, third, life) EXCEPT !.participants[2].vitality = foe] :
        selector \in Selectors, walls \in {{}, {<<1, 0>>}}, lives \in {0, 2}, foe \in {0, 2},
        third \in {"a", "b"}, life \in {0, 2}}

RestrictedViews ==
    {[View(selector, {}, 2, "b", 2) EXCEPT
        !.worn = worn, !.slots = slots, !.limits = limits, !.tagged = tagged, !.timing = timing,
        !.phase = phase, !.pay = may # "pay", !.owned = may # "own"] :
        selector \in {s \in Selectors : s.team = "hostile" /\ s.sight /\ s.range = 3},
        worn \in {{}, {Bow}, {Blade(1), Blade(2)}},
        slots \in {{}, {1}},
        limits \in {{}, {"forbidTag"}, {"requireTag"}, {"forbidMovement"}},
        tagged \in BOOLEAN,
        timing \in {"action", "reaction"},
        phase \in {"none", "reaction", "movement", "save"},
        may \in {"all", "pay", "own"}}

\* A Scenario of two participants on a board of three by two, and the ways in
\* which its board, its first participant and its turn may be otherwise.
Kind(kind) == [kind |-> kind, exported |-> TRUE]

Bundle(sight, derived) ==
    [id |-> 1,
     definitions |-> [d \in 1 .. 9 |->
        CASE d = 1 -> Kind("action") [] d = 2 -> [kind |-> "action", exported |-> FALSE]
          [] d = 3 -> Kind("class") [] d \in {4, 5} -> Kind("feature")
          [] d = 6 -> Kind("item") [] d = 7 -> Kind("support")
          [] d = 8 -> [kind |-> "item", exported |-> FALSE] [] d = 9 -> Kind("class")],
     features |-> [d \in {3, 9} |-> IF d = 3 THEN {4, 5} ELSE {5}],
     slots    |-> [d \in {6} |-> {1, 2}],
     owners   |-> {"stat", "defense", "resource", "modifier"} \ (IF sight THEN {} ELSE {"modifier"}),
     domains  |-> [i \in {<<"stat", 1>>, <<"stat", 2>>} |-> 0 .. 3],
     content  |-> {<<"resource", 1>>, <<"modifier", 1>>},
     derived  |-> [i \in derived |-> <<"stat", 1>>],
     budgets  |-> [b \in {1} |-> 2],
     sight    |-> sight]

Rich == Bundle(TRUE, {<<"defense", 1>>})

Plain == Bundle(FALSE, {})

Vitality(current) == [kind |-> "vitality", current |-> current, max |-> 2]

Stat(id, value) == [kind |-> "stat", id |-> id, value |-> value]

Buff(group, turns) == [kind |-> "modifier", id |-> 1, group |-> group, turns |-> turns]

CapabilityPool ==
    {Vitality(2), Vitality(0), Stat(1, 3), Stat(2, 4), [Stat(1, 1) EXCEPT !.kind = "defense"],
     [kind |-> "resource", id |-> 1, current |-> 1, max |-> 2], Buff(1, 2), Buff(2, 0), Buff(0, 1)}

Participant(id, x) ==
    [id |-> id, label |-> 1, team |-> id, position |-> <<x, 0>>, definitions |-> <<1>>,
     class |-> 3, features |-> <<4>>, items |-> <<[id |-> 1, definition |-> 6]>>,
     equipment |-> <<[slot |-> 1, item |-> 1]>>, capabilities |-> <<Vitality(2), Stat(1, 3)>>]

Fact(id, kind) ==
    [id |-> id, version |-> 1, definition |-> 0, kind |-> kind, passable |-> TRUE, cost |-> 1,
     value |-> 1]

Cell(id, x, facts) == [id |-> id, position |-> <<x, 0>>, facts |-> facts]

Board(cells) == [width |-> 3, height |-> 2, cells |-> cells]

Scenario(first, vitality, b, turn) ==
    [bundle |-> 1, source |-> <<1, 1, 1, 1>>, board |-> b, turn |-> turn,
     participants |-> <<first, [Participant(2, 2) EXCEPT !.capabilities[1] = Vitality(vitality)]>>]

Turn(o, current, round) == [order |-> o, current |-> current, round |-> round, turn |-> 1]

FirstTurn == Turn(<<1, 2>>, 1, 1)

OpenBoard == Board(<<Cell(1, 0, <<Fact(1, "traversal")>>), Cell(2, 1, <<Fact(9, "obstruction")>>)>>)

FactLists ==
    Lists({Fact(1, "traversal"), [Fact(1, "traversal") EXCEPT !.passable = FALSE],
           [Fact(2, "traversal") EXCEPT !.cost = 0], Fact(2, "identifier"), Fact(9, "obstruction"),
           Fact(9, "flag"), [Fact(2, "flag") EXCEPT !.definition = 7],
           [Fact(2, "flag") EXCEPT !.definition = 6], [Fact(9, "obstruction") EXCEPT !.version = 2]}, 2)

Selections ==
    {[Participant(1, 0) EXCEPT !.class = c, !.features = f, !.definitions = d] :
        c \in {0, 3, 9, 6}, f \in Lists({4, 5, 7}, 2), d \in Lists({1, 2, 7}, 2)}

Outfits ==
    {[Participant(1, 0) EXCEPT !.items = i, !.equipment = e] :
        i \in Lists([id : {1, 2}, definition : {6, 7, 8}], 2),
        e \in Lists([slot : {0, 1, 2, 3}, item : {1, 2}], 2)}

Boarded(f, i, x) ==
    Scenario(Participant(1, 0), 2, Board(<<Cell(1, 0, f), Cell(i, x, <<>>)>>), FirstTurn)

Setups(bundle, scenarios) == [kind : {"setup"}, bundle : {bundle}, scenario : scenarios]

Endowed(n, b) ==
    {Scenario([Participant(1, 0) EXCEPT !.capabilities = c], 2, b, FirstTurn) :
        c \in Lists(CapabilityPool, n)}

Chosen(participants) == {Scenario(p, 2, OpenBoard, FirstTurn) : p \in participants}

Ordered ==
    {Scenario(Participant(i, x), v, OpenBoard, Turn(o, c, r)) :
        i \in 0 .. 2, x \in {0, 2, 3}, v \in {0, 2}, c \in {1, 2}, r \in {0, 1},
        o \in Lists({1, 2, 3}, 3)}

Grounds == {Boarded(f, i, x) : f \in FactLists, i \in 0 .. 2, x \in {0, 1, 3}}

-------------------------------------------------------------------------------
(* Contributions: two values of participants, a selector inside the runtime *)
(* integer and one beyond it.                                               *)

Leaf(op) == [op |-> op, of |-> <<>>]

Flat(n) == [op |-> "constant", of |-> <<>>, value |-> n]

Read(subject, key) ==
    [op |-> "read", of |-> <<>>, owner |-> "this", subject |-> subject, key |-> key]

Join(op, parts) == [op |-> op, of |-> parts]

Minus(l, r) == Join("subtract", <<l, r>>)

Simple == {Flat(3), Flat(-2), Flat(7), Read("actor", 1), Read("target", 1), Read("target", 2)}

Expressions ==
    Simple
    \cup {Join(op, <<l, r>>) : op \in {"add", "subtract"}, l, r \in Simple}
    \cup {Minus(l, Minus(x, r)) : l \in {Flat(3), Read("actor", 2)}, x, r \in Simple}
    \cup {Join("add", <<Minus(x, r), x>>) : x, r \in Simple}
    \cup {[Read("actor", 1) EXCEPT !.owner = "other"], Read("actor", 9), Join("add", <<>>),
           Join("add", <<Flat(1), Flat(1), Flat(1)>>), Minus(Flat(15), Flat(-10)),
           Minus(Join("add", <<Flat(15), Flat(15)>>), Flat(15)), Flat(12), Minus(Flat(5), Flat(5)),
           Minus(Flat(3), Minus(Flat(3), Minus(Flat(3), Flat(1)))),
           Join("add", <<Minus(Flat(2), Flat(1)), Minus(Flat(2), Flat(1))>>)}

Living(subject, expected) ==
    [op |-> "living", of |-> <<>>, subject |-> subject, expected |-> expected]

Named(subject, key, comparison) ==
    [op |-> "namedValue", of |-> <<>>, owner |-> "this", subject |-> subject, key |-> key,
     comparison |-> comparison, value |-> 1]

Surrounded(n) == [op |-> "surrounded", of |-> <<>>, minimum |-> n]

Near(comparison) == [op |-> "distance", of |-> <<>>, comparison |-> comparison, value |-> 2]

Placed ==
    {Leaf("flanks"), Surrounded(2), Surrounded(3), Living("actor", TRUE), Living("target", FALSE),
     Near("lessThan"), Near("lessThanOrEqual"),
     [op |-> "team", of |-> <<>>, same |-> TRUE], [op |-> "team", of |-> <<>>, same |-> FALSE]}

Tagged ==
    {[op |-> "item", of |-> <<>>, definition |-> d] : d \in {1, 2, 3, 4}}
    \cup {[op |-> "itemTag", of |-> <<>>, tag |-> t] : t \in {1, 2}}
    \cup {[op |-> "actionTag", of |-> <<>>, tag |-> t] : t \in {1, 2}}
    \cup {[op |-> "cell", of |-> <<>>, subject |-> s, capability |-> d] :
             s \in {"actor", "target"}, d \in {2, 3}}
    \cup {[op |-> "effect", of |-> <<>>, subject |-> s, definition |-> d] :
             s \in {"actor", "target"}, d \in {1, 4, 5}}

Decided ==
    {Leaf("always"), Named("actor", 1, "greaterThan"), Named("target", 2, "equal"),
     Named("target", 2, "greaterThanOrEqual"), Named("actor", 9, "lessThan"), Surrounded(1),
     Surrounded(5), [op |-> "actorIsTarget", of |-> <<>>, expected |-> TRUE]}

Predicates ==
    Decided \cup {Join("not", <<p>>) : p \in Decided}
    \cup {Join(op, <<p, r>>) : op \in {"all", "any"}, p, r \in Decided}
    \cup {Join("not", <<Join("any", <<p, Join("not", <<r>>)>>)>>) : p, r \in {Leaf("always")} \cup Decided}
    \cup {Join("all", <<>>), Join("any", <<>>), Join("all", <<Leaf("always"), Leaf("always"), Leaf("always")>>)}

MCTermLimits == [l \in {"depth", "nodes", "parts"} |-> IF l = "depth" THEN 3 ELSE IF l = "nodes" THEN 5 ELSE 2]

TermBundle ==
    [values |-> [k \in {1, 2} |-> IF k = 1 THEN <<0, 3>> ELSE <<-2, 2>>],
     selectors |-> [k \in {1, 2} |-> IF k = 1 THEN <<-4, 6>> ELSE <<-4, 14>>],
     groups |-> {1}, tags |-> {1},
     definitions |-> [d \in {1, 2, 3, 4} |->
        CASE d = 1 -> "effect" [] d = 2 -> "support" [] d = 3 -> "item" [] d = 4 -> "effect"]]

Bearer(at, team, vitality, held) ==
    [position |-> at, team |-> team, vitality |-> vitality, values |-> held,
     effects |-> {1}, cell |-> {2}]

Both(m, n) == [k \in {1, 2} |-> IF k = 1 THEN m ELSE n]

Term(selector, value, predicate, participants, target) ==
    [kind |-> "terms", bundle |-> TermBundle,
     source |-> [id |-> 1, kind |-> "effect", references |-> {2, 3}],
     contribution |-> [lane |-> "target", selector |-> selector, group |-> 1, value |-> value,
                       predicate |-> predicate],
     participants |-> participants, actor |-> 1, target |-> target,
     item |-> {[definition |-> 3, tags |-> {1}]}, tags |-> {2}]

Pair(held, other) == <<Bearer(<<0, 0>>, "a", 2, held), Bearer(<<1, 0>>, "b", 2, other)>>

Pairs ==
    {Pair(Both(0, -2), Both(3, 1)), Pair(Both(3, 1), Both(0, -2)),
     Pair(Both(2, 2), [k \in {1} |-> 2]), Pair([k \in {2} |-> 1], Both(0, 0))}

ValueTerms ==
    {Term(selector, e, Leaf("always"), pair, target) :
        selector \in {1, 2}, e \in Expressions, pair \in Pairs, target \in {1, 2}}

PredicateTerms ==
    {Term(1, Flat(1), p, pair, target) : p \in Predicates, pair \in Pairs, target \in {1, 2}}

PlacedTerms ==
    {Term(1, Flat(1), p,
          <<Bearer(at, "a", first, Both(1, 1)), Bearer(<<1, 1>>, "b", second, Both(1, 1)),
            Bearer(third, team, 2, Both(1, 1)), Bearer(<<2, 1>>, "a", fourth, Both(1, 1))>>, target) :
        p \in Placed, at \in {<<0, 1>>, <<1, 0>>, <<0, 0>>}, first, second, fourth \in {0, 2},
        third \in {<<1, 2>>, <<1, 0>>, <<0, 2>>, <<0, 1>>}, team \in {"a", "b"}, target \in {1, 2, 3}}

TaggedTerms ==
    {[Term(1, Flat(1), p, Pair(Both(1, 1), Both(1, 1)), 2) EXCEPT
        !.item = item, !.source.kind = kind, !.contribution.group = group,
        !.participants[2].effects = {}, !.participants[1].cell = {}] :
        p \in Tagged, item \in {{}, {[definition |-> 3, tags |-> {1, 2}]}},
        kind \in {"effect", "feature"}, group \in {1, 2}}

-------------------------------------------------------------------------------
MCQuestions ==
    {ContributedTests, ShiftedTests, Pools, Faces, Packets, Areas, NamedArea, BoardViews,
     RestrictedViews, Setups(Rich, Endowed(3, OpenBoard)), Setups(Rich, Chosen(Selections)),
     Setups(Rich, Chosen(Outfits)), Setups(Rich, Ordered), Setups(Rich, Grounds),
     Setups(Plain, Endowed(2, Board(<<>>))), Setups(Plain, {Boarded(f, 2, 1) : f \in FactLists}),
     ValueTerms, PredicateTerms, PlacedTerms, TaggedTerms}
===============================================================================
