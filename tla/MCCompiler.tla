------------------------------ MODULE MCCompiler -------------------------------
(***************************************************************************)
(* One supplied value and up to three derived ones whose formulas read any *)
(* of them, the supplied one, a missing one or one of another ruleset; and *)
(* actions whose programs nest every kind of node, for one or two targets. *)
(***************************************************************************)
EXTENDS Compiler

Constant(n) == [op |-> "constant", value |-> n]

Read(k) == [op |-> "read", owner |-> "this", key |-> k]

Foreign(k) == [op |-> "read", owner |-> "other", key |-> k]

Binary(op, l, r) == [op |-> op, left |-> l, right |-> r]

Formulas ==
    {Constant(2), Read(1), Read(3), Read(4),
     Binary("subtract", Read(2), Constant(3)), Binary("subtract", Read(3), Read(2)),
     Binary("subtract", Read(4), Read(2)), Binary("floorDivide", Read(1), Constant(-2)),
     Binary("floorDivide", Read(3), Constant(2)), Binary("floorDivide", Read(1), Read(1)),
     Binary("floorDivide", Binary("subtract", Read(1), Constant(3)), Constant(2))}

Less(e) == Binary("subtract", e, Constant(1))

\* Foreign and missing reads, too deep, too large.
Refused ==
    {Foreign(1), Read(9), Less(Less(Less(Read(1)))),
     Binary("subtract", Less(Read(1)), Less(Read(1)))}

Supplied == [formula |-> {}, minimum |-> -5, maximum |-> 5]

MCRulesets ==
    {[k \in 1 .. 4 |-> IF k = 1 THEN Supplied
                       ELSE [formula |-> {f[k]}, minimum |-> -4, maximum |-> IF k = 2 THEN 9 ELSE 4]] :
        f \in {g \in [2 .. 4 -> Formulas \cup Refused] : g[3] \in Formulas /\ g[4] \in Formulas}}

MCSupplies ==
    {None} \cup {[k \in {1} |-> n] : n \in {-6, -5, -3, 0, 1, 4}} \cup {[k \in {1, 2} |-> 1]}

-------------------------------------------------------------------------------
MCLimits ==
    [depth |-> 6, nodes |-> 9, expanded |-> 14, repeat |-> 2, targets |-> 2,
     expressionDepth |-> 3, expressionNodes |-> 4, dice |-> 2, sides |-> 2,
     cells |-> 5, range |-> 3, distance |-> 2, options |-> 2, parts |-> 2,
     poolTerms |-> 2, poolDice |-> 2]

Term(op, parts) == [op |-> op, of |-> parts]

Flat(n) == [op |-> "constant", of |-> <<>>, value |-> n]

Might(who) == [op |-> "read", of |-> <<>>, subject |-> who, stat |-> "might"]

Dice(n, sides, bonus) ==
    [op |-> "dice", of |-> <<>>, count |-> n, sides |-> sides, bonus |-> bonus]

Compare(comparison, l, r) == [op |-> "compare", of |-> <<l, r>>, comparison |-> comparison]

Predicates ==
    {Term("all", <<Term("always", <<>>), Compare("lessThan", Might("target"), Flat(1)),
                   Compare("equal", Dice(1, 2, 0), Flat(1))>>),
     Term("any", <<Term("not", <<Compare("equal", Dice(1, 2, 0), Flat(1))>>),
                   Compare("greaterThanOrEqual", Dice(2, 2, 0), Flat(3))>>),
     Term("any", <<>>)}

Amount == Term("add", <<Might("target"), Dice(1, 2, 0)>>)

Operation(name, formulas) ==
    [kind |-> "operation", of |-> <<>>, operation |-> name, formulas |-> formulas,
     subject |-> "target", distance |-> 1, reaction |-> 1, options |-> <<1, 2>>,
     activations |-> <<{}, {}>>]

Damage(f) == Operation("damage", <<f>>)

Push == Operation("push", <<>>)

Leaves ==
    {Damage(Dice(2, 2, 0)), Damage(Amount), Operation("heal", <<Term("half", <<Dice(1, 2, -3)>>)>>),
     [Operation("changeResource", <<Might("actor")>>) EXCEPT !.subject = "actor"],
     [Operation("openReaction", <<>>) EXCEPT !.reaction = 2]}

Odd ==
    {Damage(Term("add", <<Flat(6), Flat(2), Flat(-3)>>)), Damage(Dice(2, 2, -2)),
     Damage(Dice(2, 2, -1)), Damage(Dice(2, 2, 4)), Damage(Term("half", <<Dice(2, 2, 5)>>)),
     Damage(Term("half", <<Term("half", <<Term("half", <<Flat(1)>>)>>)>>)),
     Damage(Term("add", <<Flat(1), Flat(1), Flat(1), Flat(1)>>)), Damage(Term("add", <<>>)),
     Operation("applyModifier", <<Might("target")>>), Operation("damage", <<>>),
     Operation("damage", <<Dice(1, 2, 0), Amount>>), Operation("applyEffect", <<Dice(3, 2, 0)>>),
     Operation("moveToCell", <<>>), Operation("slide", <<>>), Operation("removeEffect", <<>>),
     Operation("move", <<Flat(1), Might("target")>>), Operation("createSpatialSource", <<>>),
     [Operation("openReaction", <<>>) EXCEPT !.options = <<1, 1>>],
     [Push EXCEPT !.distance = 3], [Push EXCEPT !.subject = "actor"], Push}

Sequence(parts) ==
    [kind |-> "sequence", of |-> [s \in {<<"steps", k>> : k \in DOMAIN parts} |-> parts[s[2]]]]

Loop(kind, n, p) == [kind |-> kind, count |-> n, of |-> [s \in {<<"body", 0>>} |-> p]]

Each(n, p) == Loop("forEach", n, p)

Choice(kind, names, p, q) ==
    [kind |-> kind, of |-> [s \in names |-> IF s[1] \in {"then", "hit", "band"} THEN p ELSE q]]

When(predicate, p, q) ==
    [kind |-> "when", predicate |-> predicate,
     of |-> Choice("when", {<<"then", 0>>, <<"otherwise", 0>>}, p, q).of]

Branch(p, q) == Choice("onCheck", {<<"hit", 0>>, <<"miss", 0>>}, p, q)

Only(p) == Choice("onCheck", {<<"noRoll", 0>>}, p, p)

Band(p, q) == Choice("onOutcome", {<<"band", 1>>, <<"default", 0>>}, p, q)

Atomic(p) == [kind |-> "atomic", of |-> [s \in {<<"body", 0>>} |-> p]]

Hit == Damage(Dice(2, 2, 0))

Simple(p) ==
    {p, Loop("repeat", 2, p), Branch(p, Hit), Band(p, Hit)} \cup {When(f, p, Hit) : f \in Predicates}

\* Nested to three levels: simple programs of a leaf, for each target, in a
\* sequence with another, or in a loop.
Bodies ==
    UNION {Simple(p) : p \in Leaves}
        \cup UNION {{Each(n, q) : q \in Simple(p)} : n \in {1, 2}, p \in Leaves}
        \cup {Sequence(<<Each(2, q), p>>) : q \in UNION {Simple(r) : r \in {Hit}}, p \in Leaves}
        \cup {Each(2, Sequence(<<q, p>>)) : q \in {Each(1, Hit), Each(2, Hit), Loop("repeat", 2, Hit)},
                                            p \in Leaves \cup {Operation("openReaction", <<>>)}}
        \cup {Sequence(<<p, q>>) : p, q \in {[Operation("openReaction", <<>>) EXCEPT !.reaction = k] :
                                                k \in {1, 2}} \cup {Push}}
        \cup {Loop("repeat", 2, p) : p \in {Push, Each(2, Hit), Sequence(<<Hit, Hit>>)}}
        \cup {Loop("repeat", 3, Hit), Sequence(<<>>), Atomic(Hit), Each(3, Hit),
              Loop("repeat", 2, Loop("repeat", 2, Loop("repeat", 2, Hit))),
              Each(2, Loop("repeat", 2, Loop("repeat", 2, Hit))),
              Only(Operation("moveToCell", <<>>)), Only(Hit)}
        \cup Odd

MCRules ==
    [stats |-> [s \in {"might"} |-> [minimum |-> -1, maximum |-> 2]], bands |-> {1, 2},
     capabilities |-> {"vitality", "stats", "defenses", "resources", "modifiers", "effects", "position",
                       "spatialSources", "reactions", "random", "activationBudgets"},
     operations |-> {"damage", "heal", "changeResource", "applyModifier", "applyEffect",
                     "removeEffect", "move", "moveToCell", "push", "slide", "createSpatialSource",
                     "openReaction"},
     dice |-> [d \in {1, 2} |-> 2], budgets |-> {}, allowance |-> FALSE, sight |-> FALSE]

Check(kind) ==
    [kind |-> kind, defense |-> kind \in {"attack", "savingThrow"}, formulas |-> <<Might("target")>>,
     dice |-> <<[die |-> 1, count |-> 1], [die |-> 2, count |-> 1]>>]

Action(kind, most, check, body) ==
    [kind |-> kind, maximum |-> most, team |-> "any", range |-> 2, check |-> Check(check),
     area |-> IF kind # "area" THEN {}
              ELSE {[shape |-> "diamond", origin |-> "anchor", size |-> 1, minimum |-> 0]},
     scope |-> IF check = "noRoll" THEN "none" ELSE "shared", cost |-> 1, program |-> Atomic(body),
     activation |-> {}, sight |-> FALSE]

\* The check that a body branches on, or none of them.
Fitting == {"noRoll", "attack", "scalarTest"}

Plain ==
    {[rules |-> MCRules, action |-> Action(t[1], t[2], check, body)] :
        t \in {<<"participant", 1>>, <<"participant", 2>>, <<"area", 1>>, <<"area", 2>>, <<"cell", 1>>},
        check \in Fitting, body \in Bodies}

Attack == Action("participant", 2, "attack", Each(2, Hit))

Budget == [id |-> 1, timing |-> "action", initial |-> 1]

Paid(n) == {[timing |-> "action", costs |-> <<[budget |-> 1, amount |-> n]>>]}

\* One thing wrong, or allowed, in an action that is well formed otherwise.
Special ==
    {[rules |-> MCRules, action |-> a] :
        a \in {[Attack EXCEPT !.maximum = 3], [Attack EXCEPT !.scope = "none"], [Attack EXCEPT !.cost = -1],
               [Attack EXCEPT !.sight = TRUE], [Attack EXCEPT !.program = Each(2, Hit)],
               [Attack EXCEPT !.activation = Paid(1)], [Attack EXCEPT !.check.formulas = <<Dice(2, 2, 0)>>],
               [Attack EXCEPT !.check.kind = "savingThrow"], [Attack EXCEPT !.scope = "perTarget"],
               [Action("area", 2, "attack", Each(2, Hit)) EXCEPT !.range = 4],
               [Action("participant", 1, "pool", Band(Hit, Hit)) EXCEPT !.check.dice[1].die = 2],
               Action("participant", 1, "pool", Band(Hit, Hit)),
               Action("participant", 2, "pool", Each(2, Band(Hit, Hit)))}}
        \cup {[rules |-> [MCRules EXCEPT !.budgets = {Budget}], action |-> [Attack EXCEPT !.activation = a]] :
                 a \in {{}, Paid(0), Paid(1), Paid(2), Paid(-1)}}
        \cup {[rules |-> [MCRules EXCEPT !.capabilities = @ \ {c}], action |-> Attack] :
                 c \in {"vitality", "random", "defenses", "stats", "resources"}}

MCCases == Plain \cup Special
===============================================================================
