-------------------------- MODULE BoardRoutes_proofs --------------------------
(***************************************************************************)
(* The search for routes never corrects a route: on every board, the first *)
(* candidate queued for a cell is the one it keeps.  It ends with the      *)
(* least route to each cell in reach, and a push goes straight.            *)
(***************************************************************************)
EXTENDS BoardRoutes, SequenceTheorems, FiniteSetTheorems, WellFoundedInduction, TLAPS

\* "r" is a prefix of "s" and shorter.
Shorter(r, s) == Len(r) < Len(s) /\ \A j \in DOMAIN r : r[j] = s[j]

\* Queued candidates are the best of their cells.
SearchTypes ==
    /\ board \in Boards
    /\ frontier \subseteq Candidates
    /\ DOMAIN best \subseteq Cells
    /\ best = [c \in DOMAIN best |-> best[c]]
    /\ \A c \in DOMAIN best : best[c] \in Candidates /\ End(best[c].route) = c
    /\ \A x \in frontier : End(x.route) \in DOMAIN best /\ best[End(x.route)] = x
    /\ board.origin \in DOMAIN best
    /\ best[board.origin] = Start

\* What has been explored comes before what is queued.
ExploredFirst ==
    \A c \in DOMAIN best : \A x \in frontier : best[c] \notin frontier => Before(best[c], x)

\* A route was extended from that of an explored cell.
FromExplored ==
    \A d \in DOMAIN best \ {board.origin} :
        \E c \in DOMAIN best : best[c] \notin frontier /\ best[d] = Extend(best[c], d)

\* Every prefix of a route is the route of a cell, and costs less.
PrefixClosed ==
    /\ \A c \in DOMAIN best : \A k \in 0 .. Len(best[c].route) :
          \E d \in DOMAIN best : best[d].route = SubSeq(best[c].route, 1, k)
    /\ \A c, d \in DOMAIN best :
          Shorter(best[c].route, best[d].route) => best[c].cost < best[d].cost

SearchInv == SearchTypes /\ ExploredFirst /\ FromExplored /\ PrefixClosed

-------------------------------------------------------------------------------
(* Routes and candidates. *)

\* Cells are numbered.
LEMMA CellsAreIntegers == Cells \subseteq Int
  BY DEF Cells

\* A route is a sequence of integers.
LEMMA RouteFacts ==
    ASSUME NEW r \in Seq(Cells)
    PROVE  /\ Len(r) \in Nat /\ DOMAIN r = 1 .. Len(r)
           /\ \A j \in 1 .. Len(r) : r[j] \in Int
  <1>1. Len(r) \in Nat /\ DOMAIN r = 1 .. Len(r)
    OBVIOUS
  <1>2. \A j \in 1 .. Len(r) : r[j] \in Cells
    OBVIOUS
  <1> QED BY <1>1, <1>2, CellsAreIntegers

\* A candidate extended by a cell is a candidate that ends there.
LEMMA ExtendType ==
    ASSUME SearchTypes, NEW c \in Candidates, NEW d \in Cells, Enterable(d)
    PROVE  /\ Extend(c, d) \in Candidates
           /\ End(Extend(c, d).route) = d
           /\ Extend(c, d).cost > c.cost
           /\ board.cost[d] \in Nat \ {0}
  <1>1. board.cost \in [Cells -> Nat]
    BY BoardAssumption DEF SearchTypes
  <1>2. board.cost[d] \in Nat \ {0}
    BY <1>1 DEF Enterable
  <1>3. Append(c.route, d) \in Seq(Cells) /\ Append(c.route, d) # <<>>
    BY DEF Candidates
  <1>4. Len(Append(c.route, d)) = Len(c.route) + 1 /\ Append(c.route, d)[Len(c.route) + 1] = d
    BY DEF Candidates
  <1> QED BY <1>2, <1>3, <1>4 DEF Extend, Candidates, End

\* A route comes before what extends it, and the order is asymmetric.
LEMMA BeforeExtended ==
    ASSUME SearchTypes, NEW c \in Candidates, NEW d \in Cells, Enterable(d)
    PROVE  Before(c, Extend(c, d)) /\ ~ Before(c, c)
  <1>1. c.cost < Extend(c, d).cost /\ c.cost \in Nat
    BY ExtendType DEF Candidates
  <1>2. ~ RouteBefore(c.route, c.route)
    <2>1. c.route \in Seq(Cells)
      BY DEF Candidates
    <2>2. /\ Len(c.route) \in Nat /\ DOMAIN c.route = 1 .. Len(c.route)
          /\ \A j \in 1 .. Len(c.route) : c.route[j] \in Int
      BY <2>1, RouteFacts
    <2> QED BY <2>2 DEF RouteBefore
  <1> QED BY <1>1, <1>2 DEF Before

\* The order is kept when the later candidate is extended.
LEMMA BeforeStaysExtended ==
    ASSUME SearchTypes, NEW p \in Candidates, NEW c \in Candidates, NEW d \in Cells,
           Enterable(d), Before(p, c)
    PROVE  Before(p, Extend(c, d))
  <1>1. p.cost <= c.cost /\ p.cost \in Nat /\ c.cost \in Nat
    BY DEF Before, Candidates
  <1>2. c.cost < Extend(c, d).cost /\ Extend(c, d).cost \in Nat
    BY ExtendType DEF Candidates
  <1> QED BY <1>1, <1>2 DEF Before

\* Extending two candidates to one cell keeps their order, unless one route is
\* a prefix of the other.
LEMMA ExtendKeepsOrder ==
    ASSUME SearchTypes, NEW p \in Candidates, NEW c \in Candidates, NEW d \in Cells,
           Enterable(d), Before(p, c),
           Shorter(p.route, c.route) => p.cost < c.cost
    PROVE  ~ Before(Extend(c, d), Extend(p, d))
  <1> DEFINE r == Append(p.route, d)
             s == Append(c.route, d)
  <1>1. /\ Extend(p, d).cost = p.cost + board.cost[d] /\ Extend(p, d).route = r
        /\ Extend(c, d).cost = c.cost + board.cost[d] /\ Extend(c, d).route = s
        /\ board.cost[d] \in Nat /\ p.cost \in Nat /\ c.cost \in Nat
    BY ExtendType DEF Extend, Candidates
  <1>2. CASE p.cost < c.cost
    BY <1>1, <1>2 DEF Before
  <1>3. CASE ~ (p.cost < c.cost)
    <2>1. p.cost = c.cost /\ RouteBefore(p.route, c.route)
      BY <1>1, <1>3 DEF Before
    <2>2. PICK k \in DOMAIN p.route \cap DOMAIN c.route :
              p.route[k] < c.route[k] /\ \A j \in 1 .. k - 1 : p.route[j] = c.route[j]
      BY <2>1, <1>3 DEF RouteBefore, Shorter
    <2>3. /\ p.route \in Seq(Cells) /\ c.route \in Seq(Cells)
          /\ r \in Seq(Cells) /\ s \in Seq(Cells)
          /\ Len(r) = Len(p.route) + 1 /\ Len(s) = Len(c.route) + 1
          /\ \A j \in 1 .. Len(p.route) : r[j] = p.route[j]
          /\ \A j \in 1 .. Len(c.route) : s[j] = c.route[j]
      BY DEF Candidates
    <2>4. /\ k \in DOMAIN r \cap DOMAIN s
          /\ k \in 1 .. Len(p.route) /\ k \in 1 .. Len(c.route)
          /\ r[k] < s[k] /\ r[k] \in Int /\ s[k] \in Int
          /\ \A j \in 1 .. k - 1 : r[j] = s[j]
      <3>1. /\ DOMAIN p.route = 1 .. Len(p.route) /\ DOMAIN c.route = 1 .. Len(c.route)
            /\ DOMAIN r = 1 .. Len(r) /\ DOMAIN s = 1 .. Len(s)
            /\ Len(p.route) \in Nat /\ Len(c.route) \in Nat
            /\ \A j \in 1 .. Len(r) : r[j] \in Int
            /\ \A j \in 1 .. Len(s) : s[j] \in Int
        BY <2>3, RouteFacts
      <3> HIDE DEF r, s
      <3>2. k \in 1 .. Len(p.route) /\ k \in 1 .. Len(c.route)
        BY <2>2, <3>1
      <3>3. k \in 1 .. Len(r) /\ k \in 1 .. Len(s)
        BY <2>3, <3>1, <3>2
      <3>4. \A j \in 1 .. k - 1 : r[j] = p.route[j] /\ s[j] = c.route[j]
        BY <2>3, <3>1, <3>2
      <3>5. r[k] = p.route[k] /\ s[k] = c.route[k]
        BY <2>3, <3>2
      <3> QED BY <2>2, <3>1, <3>2, <3>3, <3>4, <3>5
    <2>5. ~ RouteBefore(s, r)
      <3> SUFFICES ASSUME RouteBefore(s, r) PROVE FALSE
        OBVIOUS
      <3>1. CASE \E i \in DOMAIN s \cap DOMAIN r :
                    s[i] < r[i] /\ \A j \in 1 .. i - 1 : s[j] = r[j]
        <4>1. PICK i \in DOMAIN s \cap DOMAIN r :
                    s[i] < r[i] /\ \A j \in 1 .. i - 1 : s[j] = r[j]
          BY <3>1
        <4>2. i \in Int /\ k \in Int /\ i >= 1 /\ k >= 1
              /\ s[i] \in Int /\ r[i] \in Int
          <5>1. /\ DOMAIN r = 1 .. Len(r) /\ DOMAIN s = 1 .. Len(s)
                /\ Len(r) \in Nat /\ Len(s) \in Nat
                /\ \A j \in 1 .. Len(r) : r[j] \in Int
                /\ \A j \in 1 .. Len(s) : s[j] \in Int
            BY <2>3, RouteFacts
          <5> HIDE DEF r, s
          <5> QED BY <4>1, <2>4, <5>1
        <4>3. CASE i < k
          BY <4>1, <4>2, <4>3, <2>4
        <4>4. CASE i = k
          BY <4>1, <4>2, <4>4, <2>4
        <4>5. CASE i > k
          BY <4>1, <4>2, <4>5, <2>4
        <4> QED BY <4>2, <4>3, <4>4, <4>5
      <3>2. CASE Len(s) < Len(r) /\ \A j \in DOMAIN s : s[j] = r[j]
        BY <3>2, <2>4
      <3> QED BY <3>1, <3>2 DEF RouteBefore
    <2> QED BY <2>1, <2>5, <1>1 DEF Before
  <1> QED BY <1>2, <1>3

-------------------------------------------------------------------------------
(* The search. *)

\* No cell that has a route is improved on.
LEMMA OnlyNewCells ==
    ASSUME SearchInv, NEW c \in Foremost, NEW d \in Improved(c)
    PROVE  d \in Cells \ DOMAIN best /\ Enterable(d)
  <1>1. c \in frontier /\ c \in Candidates /\ \A x \in frontier \ {c} : Before(c, x)
    BY DEF Foremost, SearchInv, SearchTypes
  <1>2. d \in Cells /\ Enterable(d)
    BY DEF Improved, Neighbours
  <1>3. End(c.route) \in DOMAIN best /\ best[End(c.route)] = c
    BY <1>1 DEF SearchInv, SearchTypes
  <1>4. ASSUME d \in DOMAIN best PROVE FALSE
    <2>1. Before(Extend(c, d), best[d])
      BY <1>4 DEF Improved
    <2>2. CASE d = board.origin
      <3>1. best[d].cost = 0 /\ best[d].route = <<>>
        BY <2>2 DEF SearchInv, SearchTypes, Start
      <3>2. Extend(c, d) \in Candidates
        BY <1>1, <1>2, ExtendType DEF SearchInv
      <3> QED BY <2>1, <3>1, <3>2 DEF Before, RouteBefore, Candidates
    <2>3. CASE d # board.origin
      <3>1. PICK e \in DOMAIN best : best[e] \notin frontier /\ best[d] = Extend(best[e], d)
        BY <1>4, <2>3 DEF SearchInv, FromExplored
      <3>2. best[e] \in Candidates /\ Before(best[e], c)
        BY <1>1, <3>1 DEF SearchInv, SearchTypes, ExploredFirst
      <3>3. Shorter(best[e].route, c.route) => best[e].cost < c.cost
        BY <1>3, <3>1 DEF SearchInv, PrefixClosed
      <3>4. ~ Before(Extend(c, d), Extend(best[e], d))
        BY <1>1, <1>2, <3>2, <3>3, ExtendKeepsOrder DEF SearchInv
      <3> QED BY <2>1, <3>1, <3>4
    <2> QED BY <2>2, <2>3
  <1> QED BY <1>2, <1>4

\* A round takes the foremost candidate off the queue and adds new cells.
LEMMA ExploreAdds ==
    ASSUME SearchInv, Explore
    PROVE  \E c \in Foremost : \E cells \in SUBSET (Cells \ DOMAIN best) :
              /\ \A d \in cells : Enterable(d)
              /\ board' = board
              /\ frontier' = (frontier \ {c}) \cup {Extend(c, d) : d \in cells}
              /\ best' = [d \in DOMAIN best \cup cells |->
                            IF d \in cells THEN Extend(c, d) ELSE best[d]]
  <1>1. PICK c \in Foremost :
           LET cells == IF Before(best[End(c.route)], c) THEN {} ELSE Improved(c)
           IN  /\ frontier' = (frontier \ {c}) \cup {Extend(c, d) : d \in cells}
               /\ best' = [d \in DOMAIN best \cup cells |->
                             IF d \in cells THEN Extend(c, d) ELSE best[d]]
    BY DEF Explore
  <1> DEFINE cells == IF Before(best[End(c.route)], c) THEN {} ELSE Improved(c)
  <1>2. \A d \in cells : d \in Cells \ DOMAIN best /\ Enterable(d)
    BY OnlyNewCells
  <1>3. board' = board
    BY DEF Explore
  <1>4. cells \in SUBSET (Cells \ DOMAIN best)
    BY <1>2
  <1> HIDE DEF cells
  <1>5. /\ frontier' = (frontier \ {c}) \cup {Extend(c, d) : d \in cells}
        /\ best' = [d \in DOMAIN best \cup cells |->
                      IF d \in cells THEN Extend(c, d) ELSE best[d]]
    BY <1>1 DEF cells
  <1> QED BY <1>2, <1>3, <1>4, <1>5

\* The search begins at its origin.
LEMMA SearchInitInv == SearchInit => SearchInv
  <1> SUFFICES ASSUME SearchInit PROVE SearchInv
    OBVIOUS
  <1>1. board.origin \in Cells
    BY BoardAssumption DEF SearchInit
  <1>2. Start \in Candidates /\ Start.route = <<>> /\ Start.cost = 0
    BY DEF Start, Candidates
  <1>3. DOMAIN best = {board.origin} /\ best[board.origin] = Start /\ frontier = {Start}
    BY DEF SearchInit
  <1>4. SearchTypes
    BY <1>1, <1>2, <1>3 DEF SearchTypes, SearchInit, End
  <1>5. ExploredFirst /\ FromExplored
    BY <1>3 DEF ExploredFirst, FromExplored
  <1>6. PrefixClosed
    <2>1. Len(<<>>) = 0 /\ SubSeq(<<>>, 1, 0) = <<>>
      OBVIOUS
    <2>2. \A c \in DOMAIN best : best[c] = Start
      BY <1>3
    <2>3. \A k \in 0 .. Len(<<>>) : SubSeq(<<>>, 1, k) = <<>>
      BY <2>1
    <2> QED BY <1>2, <2>1, <2>2, <2>3 DEF PrefixClosed, Shorter
  <1> QED BY <1>4, <1>5, <1>6 DEF SearchInv

\* A step of the search keeps the invariant and every route it has settled.
LEMMA ExploreInv ==
    ASSUME SearchInv, Explore
    PROVE  SearchInv' /\ \A d \in DOMAIN best : d \in DOMAIN best' /\ best'[d] = best[d]
  <1>1. PICK c \in Foremost, cells \in SUBSET (Cells \ DOMAIN best) :
              /\ \A d \in cells : Enterable(d)
              /\ board' = board
              /\ frontier' = (frontier \ {c}) \cup {Extend(c, d) : d \in cells}
              /\ best' = [d \in DOMAIN best \cup cells |->
                            IF d \in cells THEN Extend(c, d) ELSE best[d]]
    BY ExploreAdds
  <1>2. /\ c \in frontier /\ c \in Candidates
        /\ \A x \in frontier \ {c} : Before(c, x)
        /\ End(c.route) \in DOMAIN best /\ best[End(c.route)] = c
    BY DEF Foremost, SearchInv, SearchTypes
  <1>3. /\ DOMAIN best' = DOMAIN best \cup cells
        /\ \A d \in DOMAIN best : best'[d] = best[d]
        /\ \A d \in cells : best'[d] = Extend(c, d)
    BY <1>1
  <1>4. \A d \in cells : /\ Extend(c, d) \in Candidates /\ End(Extend(c, d).route) = d
                         /\ Extend(c, d).cost > c.cost /\ d \in Cells /\ d \notin DOMAIN best
    BY <1>1, <1>2, ExtendType DEF SearchInv
  <1>5. \A d \in DOMAIN best : \A f \in cells : best[d] # Extend(c, f)
    BY <1>4 DEF SearchInv, SearchTypes
  <1>6. \A d \in DOMAIN best' :
            best'[d] \notin frontier' <=> d \in DOMAIN best
                                          /\ (best[d] \notin frontier \/ best[d] = c)
    BY <1>1, <1>3, <1>5
  <1>7. \A r : (End(r))' = End(r)
    BY <1>1 DEF End
  <1>8. \A x, d : Extend(x, d)' = Extend(x, d)
    BY <1>1 DEF Extend
  <1>9. SearchTypes'
    <2>1. board' \in Boards /\ board'.origin \in DOMAIN best' /\ best'[board'.origin] = Start
      BY <1>1, <1>3 DEF SearchInv, SearchTypes
    <2>2. frontier' \subseteq Candidates /\ DOMAIN best' \subseteq Cells
      BY <1>1, <1>3, <1>4 DEF SearchInv, SearchTypes
    <2>3. \A d \in DOMAIN best' : best'[d] \in Candidates /\ End(best'[d].route) = d
      BY <1>3, <1>4 DEF SearchInv, SearchTypes
    <2>4. \A x \in frontier' : End(x.route) \in DOMAIN best' /\ best'[End(x.route)] = x
      BY <1>1, <1>3, <1>4 DEF SearchInv, SearchTypes
    <2>5. best' = [d \in DOMAIN best' |-> best'[d]]
      BY <1>1
    <2> QED BY <2>1, <2>2, <2>3, <2>4, <2>5, <1>7 DEF SearchTypes
  <1>10. ExploredFirst'
    <2> SUFFICES ASSUME NEW d \in DOMAIN best', NEW x \in frontier', best'[d] \notin frontier'
                 PROVE  Before(best'[d], x)
      BY DEF ExploredFirst, Before, RouteBefore
    <2>1. d \in DOMAIN best /\ (best[d] \notin frontier \/ best[d] = c) /\ best'[d] = best[d]
      BY <1>3, <1>6
    <2>2. best[d] \in Candidates
      BY <2>1 DEF SearchInv, SearchTypes
    <2>3. CASE x \in frontier \ {c}
      BY <2>1, <2>3, <1>2 DEF SearchInv, ExploredFirst
    <2>4. CASE x \notin frontier \ {c}
      <3>1. PICK f \in cells : x = Extend(c, f)
        BY <1>1, <2>4
      <3>2. f \in Cells /\ Enterable(f)
        BY <1>1, <1>4
      <3>3. CASE best[d] = c
        BY <2>1, <3>1, <3>2, <3>3, <1>2, BeforeExtended DEF SearchInv
      <3>4. CASE best[d] \notin frontier
        <4>1. Before(best[d], c)
          BY <2>1, <3>4, <1>2 DEF SearchInv, ExploredFirst
        <4> QED BY <2>1, <2>2, <3>1, <3>2, <4>1, <1>2, BeforeStaysExtended DEF SearchInv
      <3> QED BY <2>1, <3>3, <3>4
    <2> QED BY <2>3, <2>4
  <1>11. FromExplored'
    <2> SUFFICES ASSUME NEW d \in DOMAIN best' \ {board.origin}
                 PROVE  \E e \in DOMAIN best' :
                           best'[e] \notin frontier' /\ best'[d] = Extend(best'[e], d)
      BY <1>1, <1>8 DEF FromExplored
    <2>1. CASE d \in cells
      BY <2>1, <1>2, <1>3, <1>6
    <2>2. CASE d \notin cells
      <3>1. PICK e \in DOMAIN best : best[e] \notin frontier /\ best[d] = Extend(best[e], d)
        BY <2>2, <1>3 DEF SearchInv, FromExplored
      <3> QED BY <2>2, <3>1, <1>3, <1>6
    <2> QED BY <2>1, <2>2
  <1>12. PrefixClosed'
    <2>0. \A d \in DOMAIN best' : best'[d] \in Candidates
      BY <1>9 DEF SearchTypes
    <2>1. ASSUME NEW d \in DOMAIN best', NEW k \in 0 .. Len(best'[d].route)
          PROVE  \E e \in DOMAIN best' : best'[e].route = SubSeq(best'[d].route, 1, k)
      <3>1. CASE d \in DOMAIN best
        BY <3>1, <1>3 DEF SearchInv, PrefixClosed
      <3>2. CASE d \in cells
        <4>1. best'[d].route = Append(c.route, d) /\ c.route \in Seq(Cells) /\ d \in Cells
          BY <3>2, <1>2, <1>3, <1>4 DEF Extend, Candidates
        <4>2. CASE k = Len(c.route) + 1
          <5>1. SubSeq(best'[d].route, 1, k) = best'[d].route
            BY <4>1, <4>2
          <5> QED BY <5>1
        <4>3. CASE k <= Len(c.route)
          <5>1. SubSeq(best'[d].route, 1, k) = SubSeq(c.route, 1, k)
            BY <4>1, <4>3
          <5>2. PICK e \in DOMAIN best : best[e].route = SubSeq(c.route, 1, k)
            BY <4>3, <1>2 DEF SearchInv, PrefixClosed
          <5> QED BY <5>1, <5>2, <1>3
        <4> QED BY <4>1, <4>2, <4>3
      <3> QED BY <3>1, <3>2, <1>3
    <2>2. ASSUME NEW d \in DOMAIN best', NEW e \in DOMAIN best',
                 Shorter(best'[d].route, best'[e].route)
          PROVE  best'[d].cost < best'[e].cost
      <3> DEFINE p == best'[d].route
                 q == best'[e].route
      <3>0. p \in Seq(Cells) /\ q \in Seq(Cells)
        BY <2>0 DEF Candidates
      <3>1. CASE d \in DOMAIN best /\ e \in DOMAIN best
        BY <2>2, <3>1, <1>3 DEF SearchInv, PrefixClosed
      <3>2. CASE d \in DOMAIN best /\ e \in cells
        <4>1. q = Append(c.route, e) /\ c.route \in Seq(Cells) /\ best'[e].cost > c.cost
              /\ best'[e].cost \in Nat /\ c.cost \in Nat /\ best[d].cost \in Nat
              /\ best'[d] = best[d]
          BY <3>2, <1>2, <1>3, <1>4 DEF Extend, Candidates, SearchInv, SearchTypes
        <4>0. /\ p \in Seq(Cells) /\ c.route \in Seq(Cells) /\ DOMAIN p = 1 .. Len(p)
              /\ Len(p) \in Nat /\ Len(c.route) \in Nat
              /\ Len(p) <= Len(c.route) => \A j \in 1 .. Len(p) : p[j] = c.route[j]
          <5>1. DOMAIN p = 1 .. Len(p) /\ Len(p) \in Nat /\ Len(c.route) \in Nat
            BY <3>0, <4>1, RouteFacts
          <5>2. \A j \in 1 .. Len(c.route) : q[j] = c.route[j]
            BY <4>1
          <5>3. \A j \in DOMAIN p : p[j] = q[j]
            BY <2>2 DEF Shorter
          <5>4. p \in Seq(Cells) /\ c.route \in Seq(Cells)
            BY <3>0, <4>1
          <5> HIDE DEF p, q
          <5>5. ASSUME Len(p) <= Len(c.route), NEW j \in 1 .. Len(p)
                PROVE  p[j] = c.route[j]
            <6>1. j \in 1 .. Len(c.route)
              BY <5>1, <5>5
            <6> QED BY <5>1, <5>2, <5>3, <6>1
          <5> QED BY <5>1, <5>4, <5>5
        <4>2. CASE Len(p) = Len(c.route)
          <5>1. p = c.route
            BY <4>0, <4>2, SeqEqual
          <5>2. best[d] = c
            BY <5>1, <3>2, <4>1, <1>2 DEF SearchInv, SearchTypes
          <5> QED BY <4>1, <5>2
        <4>3. CASE Len(p) < Len(c.route)
          <5>1. Shorter(p, c.route)
            BY <4>0, <4>3 DEF Shorter
          <5>2. best[d].cost < c.cost
            BY <5>1, <3>2, <4>1, <1>2 DEF SearchInv, PrefixClosed
          <5> QED BY <4>1, <5>2
        <4> QED BY <2>2, <3>0, <4>1, <4>2, <4>3 DEF Shorter
      <3>3. CASE d \in cells /\ e \in DOMAIN best
        <4>1. best'[e] = best[e] /\ Len(p) \in 0 .. Len(q) /\ End(p) = d
          BY <2>2, <3>0, <3>3, <1>3, <1>4 DEF Shorter
        <4>2. p = SubSeq(q, 1, Len(p))
          BY <2>2, <3>0, <4>1 DEF Shorter
        <4>3. PICK f \in DOMAIN best : best[f].route = p
          BY <3>3, <4>1, <4>2 DEF SearchInv, PrefixClosed
        <4> QED BY <3>3, <4>1, <4>3 DEF SearchInv, SearchTypes
      <3>4. CASE d \in cells /\ e \in cells
        <4>1. p = Append(c.route, d) /\ q = Append(c.route, e) /\ c.route \in Seq(Cells)
          BY <3>4, <1>2, <1>3 DEF Extend, Candidates
        <4> QED BY <2>2, <4>1 DEF Shorter
      <3> QED BY <3>1, <3>2, <3>3, <3>4, <1>3
    <2> QED BY <2>1, <2>2 DEF PrefixClosed, Shorter
  <1> QED BY <1>3, <1>9, <1>10, <1>11, <1>12 DEF SearchInv

\* A step of nothing keeps the invariant.
LEMMA StutterInv == ASSUME SearchInv, UNCHANGED routeVars PROVE SearchInv'
  BY DEF SearchInv, SearchTypes, ExploredFirst, FromExplored, PrefixClosed, Shorter,
         routeVars, Before, RouteBefore, Extend, End, Candidates, Start

\* Explored cells have final routes on every board: the search works through its
\* candidates in an order in which no route that was found is ever improved on
\* (movement_paths).
THEOREM FirstFoundStays == SearchSpec => FirstFoundIsBest
  <1>1. SearchInit => SearchInv
    BY SearchInitInv
  <1>2. SearchInv /\ [Explore]_routeVars => SearchInv'
    BY ExploreInv, StutterInv
  <1>3. SearchInv /\ [Explore]_routeVars =>
            [\A c \in DOMAIN best : c \in DOMAIN best' /\ best'[c] = best[c]]_routeVars
    BY ExploreInv
  <1> QED BY <1>1, <1>2, <1>3, PTL DEF SearchSpec, FirstFoundIsBest

-------------------------------------------------------------------------------
(* Counting. *)

\* A nonempty set of natural numbers has a least member.
LEMMA LeastExists ==
    ASSUME NEW S \in SUBSET Nat, S # {}
    PROVE  \E k \in S : \A j \in S : k <= j
  <1>1. PICK x \in S : \A y \in S : ~ (<<y, x>> \in OpToRel(<, Nat))
    BY WFMin, NatLessThanWellFounded
  <1>2. \A y \in S : ~ (y < x)
    BY <1>1 DEF OpToRel
  <1>3. \A y \in S : x <= y
    BY <1>2
  <1> QED BY <1>3

\* What holds at 0 and is passed on from each number to the next holds up to "n".
LEMMA CountingUp ==
    ASSUME NEW n \in Nat, NEW S, 0 \in S, \A k \in 1 .. n : k - 1 \in S => k \in S
    PROVE  0 .. n \subseteq S
  <1> DEFINE bad == (0 .. n) \ S
  <1> SUFFICES ASSUME bad # {} PROVE FALSE
    OBVIOUS
  <1>1. bad \in SUBSET Nat
    OBVIOUS
  <1>2. PICK k \in bad : \A j \in bad : k <= j
    <2> HIDE DEF bad
    <2> QED BY <1>1, LeastExists
  <1>3. k \in 1 .. n /\ k - 1 \in 0 .. n
    BY <1>2
  <1>4. k - 1 \notin bad
    <2>1. ~ (k <= k - 1)
      BY <1>3
    <2> QED BY <1>2, <2>1
  <1> QED BY <1>2, <1>3, <1>4

\* The results "f" of the steps up to each of them.
Chain(f, n, V, start, step) ==
    /\ f \in [0 .. n -> V]
    /\ f[0] = start
    /\ \A k \in 1 .. n : f[k] = step[k][f[k - 1]]

\* Steps that stay in a set can be taken one after another.
LEMMA StepsTaken ==
    ASSUME NEW n \in Nat, NEW V, NEW start \in V, NEW step \in [1 .. n -> [V -> V]]
    PROVE  \E f : Chain(f, n, V, start, step)
  <1> DEFINE S == {m \in 0 .. n : \E f : Chain(f, m, V, start, step)}
  <1>1. 0 \in S
    <2> DEFINE f == [k \in 0 .. 0 |-> start]
    <2>1. f \in [0 .. 0 -> V] /\ f[0] = start /\ \A k \in 1 .. 0 : f[k] = step[k][f[k - 1]]
      OBVIOUS
    <2> HIDE DEF f
    <2> QED BY <2>1 DEF Chain
  <1>2. ASSUME NEW m \in 1 .. n, m - 1 \in S
        PROVE  m \in S
    <2>1. PICK f : Chain(f, m - 1, V, start, step)
      BY <1>2
    <2> DEFINE g == [k \in 0 .. m |-> IF k = m THEN step[m][f[m - 1]] ELSE f[k]]
    <2>2. g[m] = step[m][f[m - 1]] /\ \A k \in 0 .. m - 1 : g[k] = f[k]
      OBVIOUS
    <2>3. step[m][f[m - 1]] \in V
      <3>1. f[m - 1] \in V /\ step[m] \in [V -> V]
        BY <2>1 DEF Chain
      <3> QED BY <3>1
    <2>4. g \in [0 .. m -> V]
      <3>1. \A k \in 0 .. m : k # m => k \in 0 .. m - 1
        OBVIOUS
      <3> QED BY <2>1, <2>3, <3>1 DEF Chain
    <2> HIDE DEF g
    <2>5. ASSUME NEW k \in 1 .. m
          PROVE  g[k] = step[k][g[k - 1]]
      <3>1. k - 1 \in 0 .. m - 1 /\ g[k - 1] = f[k - 1]
        BY <2>2
      <3>2. CASE k = m
        BY <2>2, <3>1, <3>2
      <3>3. CASE k # m
        <4>1. k \in 1 .. m - 1 /\ k \in 0 .. m - 1
          BY <3>3
        <4> QED BY <2>1, <2>2, <3>1, <4>1 DEF Chain
      <3> QED BY <3>2, <3>3
    <2>6. g[0] = start /\ m \in 0 .. n
      BY <2>1, <2>2 DEF Chain
    <2> QED BY <2>4, <2>5, <2>6 DEF Chain
  <1>3. \A m \in 1 .. n : m - 1 \in S => m \in S
    BY <1>2
  <1> HIDE DEF S
  <1>4. n \in S
    <2>1. 0 .. n \subseteq S
      BY <1>1, <1>3, CountingUp
    <2> QED BY <2>1
  <1> QED BY <1>4 DEF S

-------------------------------------------------------------------------------
(* The order of candidates is total. *)

\* Two routes differ first at some place, or one is a prefix of the other.
LEMMA RoutesCompare ==
    ASSUME NEW r \in Seq(Cells), NEW s \in Seq(Cells), r # s
    PROVE  RouteBefore(r, s) \/ RouteBefore(s, r)
  <1>1. /\ Len(r) \in Nat /\ DOMAIN r = 1 .. Len(r) /\ \A j \in 1 .. Len(r) : r[j] \in Int
        /\ Len(s) \in Nat /\ DOMAIN s = 1 .. Len(s) /\ \A j \in 1 .. Len(s) : s[j] \in Int
    BY RouteFacts
  <1> DEFINE D == {j \in DOMAIN r \cap DOMAIN s : r[j] # s[j]}
  <1>2. CASE D = {}
    <2>1. \A j \in DOMAIN r \cap DOMAIN s : r[j] = s[j]
      BY <1>2
    <2>2. CASE Len(r) = Len(s)
      BY <1>1, <2>1, <2>2, SeqEqual
    <2>3. CASE Len(r) < Len(s)
      BY <1>1, <2>1, <2>3 DEF RouteBefore
    <2>4. CASE Len(s) < Len(r)
      BY <1>1, <2>1, <2>4 DEF RouteBefore
    <2>5. Len(r) = Len(s) \/ Len(r) < Len(s) \/ Len(s) < Len(r)
      <3>1. Len(r) \in Nat /\ Len(s) \in Nat
        BY <1>1
      <3> HIDE DEF D
      <3> QED BY <3>1
    <2> QED BY <2>2, <2>3, <2>4, <2>5
  <1>3. CASE D # {}
    <2>1. D \in SUBSET Nat
      BY <1>1
    <2>2. PICK k \in D : \A j \in D : k <= j
      <3> HIDE DEF D
      <3> QED BY <1>3, <2>1, LeastExists
    <2>3. \A j \in 1 .. k - 1 : r[j] = s[j]
      <3> SUFFICES ASSUME NEW j \in 1 .. k - 1, r[j] # s[j] PROVE FALSE
        OBVIOUS
      <3>1. j \in DOMAIN r \cap DOMAIN s /\ j < k /\ k \in Int /\ j \in Int
        BY <1>1, <2>2
      <3> QED BY <2>2, <3>1
    <2>4. r[k] \in Int /\ s[k] \in Int /\ r[k] # s[k] /\ k \in DOMAIN r \cap DOMAIN s
      BY <1>1, <2>2
    <2>5. r[k] < s[k] \/ s[k] < r[k]
      BY <2>4
    <2> QED BY <2>3, <2>4, <2>5 DEF RouteBefore
  <1> QED BY <1>2, <1>3

\* A route is not before itself, and the order is transitive.
LEMMA RouteOrder ==
    ASSUME NEW r \in Seq(Cells)
    PROVE  /\ ~ RouteBefore(r, r)
           /\ \A s, t \in Seq(Cells) :
                 RouteBefore(r, s) /\ RouteBefore(s, t) => RouteBefore(r, t)
  <1>1. Len(r) \in Nat /\ DOMAIN r = 1 .. Len(r) /\ \A j \in 1 .. Len(r) : r[j] \in Int
    BY RouteFacts
  <1>2. ~ RouteBefore(r, r)
    BY <1>1 DEF RouteBefore
  <1>3. ASSUME NEW s \in Seq(Cells), NEW t \in Seq(Cells),
               RouteBefore(r, s), RouteBefore(s, t)
        PROVE  RouteBefore(r, t)
    <2>1. /\ Len(s) \in Nat /\ DOMAIN s = 1 .. Len(s) /\ \A j \in 1 .. Len(s) : s[j] \in Int
          /\ Len(t) \in Nat /\ DOMAIN t = 1 .. Len(t) /\ \A j \in 1 .. Len(t) : t[j] \in Int
      BY RouteFacts
    <2>2. CASE /\ Len(r) < Len(s) /\ \A j \in DOMAIN r : r[j] = s[j]
               /\ Len(s) < Len(t) /\ \A j \in DOMAIN s : s[j] = t[j]
      BY <1>1, <2>1, <2>2 DEF RouteBefore
    <2>3. ASSUME NEW k \in DOMAIN r \cap DOMAIN s,
                 r[k] < s[k] /\ \A j \in 1 .. k - 1 : r[j] = s[j],
                 Len(s) < Len(t) /\ \A j \in DOMAIN s : s[j] = t[j]
          PROVE  RouteBefore(r, t)
      <3>0. /\ k \in Int /\ 1 <= k /\ k <= Len(r) /\ k <= Len(s) /\ k <= Len(t)
            /\ \A j \in 1 .. Len(s) : s[j] = t[j]
        BY <1>1, <2>1, <2>3
      <3>2. \A j \in 1 .. k - 1 : j \in 1 .. Len(s)
        BY <2>1, <3>0
      <3>1. k \in DOMAIN t /\ r[k] < t[k] /\ \A j \in 1 .. k - 1 : r[j] = t[j]
        BY <2>1, <2>3, <3>0, <3>2
      <3> QED BY <2>3, <3>1 DEF RouteBefore
    <2>4. ASSUME Len(r) < Len(s) /\ \A j \in DOMAIN r : r[j] = s[j],
                 NEW l \in DOMAIN s \cap DOMAIN t,
                 s[l] < t[l] /\ \A j \in 1 .. l - 1 : s[j] = t[j]
          PROVE  RouteBefore(r, t)
      <3>1. CASE l <= Len(r)
        <4>1. l \in DOMAIN r /\ r[l] < t[l] /\ \A j \in 1 .. l - 1 : r[j] = t[j]
          BY <1>1, <2>1, <2>4, <3>1
        <4> QED BY <2>4, <4>1 DEF RouteBefore
      <3>2. CASE Len(r) < l
        <4>2. \A j \in 1 .. Len(r) : j \in 1 .. l - 1
          BY <1>1, <2>1, <2>4, <3>2
        <4>3. Len(r) < Len(t)
          BY <1>1, <2>1, <2>4, <3>2
        <4>1. Len(r) < Len(t) /\ \A j \in DOMAIN r : r[j] = t[j]
          BY <1>1, <2>4, <4>2, <4>3
        <4> QED BY <4>1 DEF RouteBefore
      <3> QED BY <1>1, <2>1, <3>1, <3>2
    <2>5. ASSUME NEW k \in DOMAIN r \cap DOMAIN s,
                 r[k] < s[k] /\ \A j \in 1 .. k - 1 : r[j] = s[j],
                 NEW l \in DOMAIN s \cap DOMAIN t,
                 s[l] < t[l] /\ \A j \in 1 .. l - 1 : s[j] = t[j]
          PROVE  RouteBefore(r, t)
      <3>0. /\ k \in 1 .. Len(r) /\ k \in 1 .. Len(s)
            /\ l \in 1 .. Len(s) /\ l \in 1 .. Len(t) /\ k \in Int /\ l \in Int
            /\ r[k] \in Int /\ s[k] \in Int /\ s[l] \in Int /\ t[l] \in Int
        BY <1>1, <2>1, <2>5
      <3>1. CASE l < k
        <4>2. l \in 1 .. Len(r) /\ \A j \in 1 .. l - 1 : j \in 1 .. k - 1
          BY <1>1, <3>0, <3>1
        <4>3. r[l] = s[l]
          BY <2>5, <3>0, <3>1
        <4>1. l \in DOMAIN r /\ r[l] < t[l] /\ \A j \in 1 .. l - 1 : r[j] = t[j]
          BY <1>1, <2>5, <4>2, <4>3
        <4> QED BY <2>5, <4>1 DEF RouteBefore
      <3>2. CASE k <= l
        <4>2. k \in 1 .. Len(t) /\ \A j \in 1 .. k - 1 : j \in 1 .. l - 1
          BY <2>1, <3>0, <3>2
        <4>3. r[k] < t[k]
          <5>1. CASE k = l
            BY <2>5, <3>0, <5>1
          <5>2. CASE k < l
            <6>1. s[k] = t[k]
              BY <2>5, <3>0, <5>2
            <6> QED BY <2>5, <6>1
          <5> QED BY <3>0, <3>2, <5>1, <5>2
        <4>1. k \in DOMAIN t /\ r[k] < t[k] /\ \A j \in 1 .. k - 1 : r[j] = t[j]
          BY <2>1, <2>5, <4>2, <4>3
        <4> QED BY <2>5, <4>1 DEF RouteBefore
      <3> QED BY <1>1, <2>1, <3>1, <3>2
    <2> QED BY <1>3, <2>2, <2>3, <2>4, <2>5 DEF RouteBefore
  <1> QED BY <1>2, <1>3

\* One of two candidates with other routes is before the other, none is before
\* itself, and what is not after what is not after a third is not after it.
LEMMA CandidateOrder ==
    ASSUME NEW x \in Candidates, NEW y \in Candidates
    PROVE  /\ x.route # y.route => Before(x, y) \/ Before(y, x)
           /\ ~ Before(x, x)
           /\ \A z \in Candidates : ~ Before(y, x) /\ ~ Before(z, y) => ~ Before(z, x)
  <1>1. /\ x.cost \in Nat /\ x.route \in Seq(Cells)
        /\ y.cost \in Nat /\ y.route \in Seq(Cells)
    BY DEF Candidates
  <1>2. x.route # y.route => Before(x, y) \/ Before(y, x)
    BY <1>1, RoutesCompare DEF Before
  <1>3. ~ Before(x, x)
    BY <1>1, RouteOrder DEF Before
  <1>4. ASSUME NEW z \in Candidates, ~ Before(y, x), ~ Before(z, y), Before(z, x)
        PROVE  FALSE
    <2>1. z.cost \in Nat /\ z.route \in Seq(Cells)
      BY DEF Candidates
    <2>2. x.cost = y.cost /\ y.cost = z.cost /\ RouteBefore(z.route, x.route)
      BY <1>1, <1>4, <2>1 DEF Before
    <2>3. ~ RouteBefore(y.route, x.route) /\ ~ RouteBefore(z.route, y.route)
      BY <1>4, <2>2 DEF Before
    <2>4. x.route = y.route \/ RouteBefore(x.route, y.route)
      BY <1>1, <2>3, RoutesCompare
    <2>5. y.route = z.route \/ RouteBefore(y.route, z.route)
      BY <1>1, <2>1, <2>3, RoutesCompare
    <2>6. ~ RouteBefore(z.route, z.route)
      BY <2>1, RouteOrder
    <2>7. RouteBefore(x.route, z.route) \/ x.route = z.route
      BY <1>1, <2>1, <2>4, <2>5, RouteOrder
    <2> QED BY <1>1, <2>1, <2>2, <2>6, <2>7, RouteOrder
  <1> QED BY <1>2, <1>3, <1>4

-------------------------------------------------------------------------------
(* The cost of a route, and the simple routes. *)

\* Every cell has a cost.
LEMMA CostsAreNatural == ASSUME board \in Boards PROVE board.cost \in [Cells -> Nat]
  BY BoardAssumption

\* The cost of the beginning of a route is the sum of the costs of its cells.
LEMMA CostSums ==
    ASSUME board \in Boards, NEW r \in Seq(Cells)
    PROVE  \E f \in [0 .. Len(r) -> Nat] :
              /\ f[0] = 0
              /\ \A k \in 1 .. Len(r) : f[k] = f[k - 1] + board.cost[r[k]]
              /\ CostOf(r) = f[Len(r)]
  <1> DEFINE n    == Len(r)
             step == [k \in 1 .. n |-> [x \in Nat |-> x + board.cost[r[k]]]]
             cost == CHOOSE f : f = [k \in 0 .. n |->
                                       IF k = 0 THEN 0 ELSE f[k - 1] + board.cost[r[k]]]
  <1>1. n \in Nat /\ \A k \in 1 .. n : r[k] \in Cells
    OBVIOUS
  <1>2. \A k \in 1 .. n : board.cost[r[k]] \in Nat
    BY <1>1, CostsAreNatural
  <1>3. step \in [1 .. n -> [Nat -> Nat]]
    BY <1>2
  <1>4. \A k \in 1 .. n, x \in Nat : step[k][x] = x + board.cost[r[k]]
    OBVIOUS
  <1>5. CostOf(r) = cost[n]
    BY DEF CostOf
  <1> HIDE DEF step
  <1>6. PICK f : Chain(f, n, Nat, 0, step)
    BY <1>1, <1>3, StepsTaken
  <1> HIDE DEF n
  <1>7. f \in [0 .. n -> Nat] /\ f[0] = 0
    BY <1>6 DEF Chain
  <1>8. ASSUME NEW k \in 1 .. n
        PROVE  f[k] = f[k - 1] + board.cost[r[k]]
    <2>1. k - 1 \in 0 .. n
      BY <1>1
    <2>2. f[k - 1] \in Nat
      BY <1>7, <2>1
    <2> QED BY <1>4, <1>6, <2>2 DEF Chain
  <1> DEFINE g == [k \in 0 .. n |-> IF k = 0 THEN 0 ELSE f[k - 1] + board.cost[r[k]]]
  <1>9. ASSUME NEW k \in 0 .. n
        PROVE  f[k] = g[k]
    <2>1. CASE k = 0
      BY <1>7, <2>1
    <2>2. CASE k # 0
      <3>1. k \in 1 .. n
        BY <1>1, <2>2
      <3> QED BY <1>8, <2>2, <3>1
    <2> QED BY <2>1, <2>2
  <1>10. f = g
    BY <1>7, <1>9
  <1>11. cost = [k \in 0 .. n |-> IF k = 0 THEN 0 ELSE cost[k - 1] + board.cost[r[k]]]
    BY <1>10
  <1> HIDE DEF cost
  <1> DEFINE S == {k \in 0 .. n : cost[k] = f[k]}
  <1>12. 0 \in S
    BY <1>1, <1>7, <1>11
  <1>13. ASSUME NEW k \in 1 .. n, k - 1 \in S
         PROVE  k \in S
    <2>1. k \in 0 .. n /\ k # 0
      BY <1>1
    <2>2. cost[k] = cost[k - 1] + board.cost[r[k]]
      BY <1>11, <2>1
    <2> QED BY <1>8, <1>13, <2>1, <2>2
  <1>14. \A k \in 1 .. n : k - 1 \in S => k \in S
    BY <1>13
  <1> HIDE DEF S
  <1>15. 0 .. n \subseteq S
    BY <1>1, <1>12, <1>14, CountingUp
  <1>16. cost[n] = f[n]
    BY <1>1, <1>15 DEF S
  <1> QED BY <1>5, <1>7, <1>8, <1>16 DEF n

\* "f" adds up the costs of the first "n" cells of "r".
AddsUp(f, r, n) == f[0] = 0 /\ \A k \in 1 .. n : f[k] = f[k - 1] + board.cost[r[k]]

\* Two such sums over places with the same cells are the same.
LEMMA SumsAgree ==
    ASSUME NEW n \in Nat, NEW f, NEW g, NEW r, NEW s, AddsUp(f, r, n), AddsUp(g, s, n),
           \A k \in 1 .. n : r[k] = s[k]
    PROVE  f[n] = g[n]
  <1> DEFINE S == {k \in 0 .. n : f[k] = g[k]}
  <1>1. 0 \in S /\ \A k \in 1 .. n : k - 1 \in S => k \in S
    BY DEF AddsUp
  <1> HIDE DEF S
  <1>2. 0 .. n \subseteq S
    BY <1>1, CountingUp
  <1> QED BY <1>2 DEF S

\* A longer route costs its last cell more.
LEMMA CostOfAppend ==
    ASSUME board \in Boards, NEW r \in Seq(Cells), NEW d \in Cells
    PROVE  /\ CostOf(r) \in Nat
           /\ CostOf(<<>>) = 0
           /\ CostOf(Append(r, d)) = CostOf(r) + board.cost[d]
  <1>1. PICK f \in [0 .. Len(r) -> Nat] :
              /\ f[0] = 0
              /\ \A k \in 1 .. Len(r) : f[k] = f[k - 1] + board.cost[r[k]]
              /\ CostOf(r) = f[Len(r)]
    BY CostSums
  <1> DEFINE s == Append(r, d)
  <1>2. /\ s \in Seq(Cells) /\ Len(s) = Len(r) + 1 /\ s[Len(r) + 1] = d
        /\ Len(r) \in Nat /\ \A k \in 1 .. Len(r) : s[k] = r[k]
    OBVIOUS
  <1> HIDE DEF s
  <1>3. PICK g \in [0 .. Len(s) -> Nat] :
              /\ g[0] = 0
              /\ \A k \in 1 .. Len(s) : g[k] = g[k - 1] + board.cost[s[k]]
              /\ CostOf(s) = g[Len(s)]
    BY <1>2, CostSums
  <1>4. \A k \in 1 .. Len(r) : k \in 1 .. Len(s)
    BY <1>2
  <1>5. f[Len(r)] = g[Len(r)]
    <2>1. AddsUp(f, r, Len(r)) /\ AddsUp(g, s, Len(r))
      BY <1>1, <1>3, <1>4 DEF AddsUp
    <2> QED BY <1>2, <2>1, SumsAgree
  <1>6. g[Len(s)] = g[Len(r)] + board.cost[d]
    BY <1>2, <1>3
  <1>7. CostOf(r) \in Nat
    BY <1>1, <1>2
  <1>8. CostOf(<<>>) = 0
    <2>1. <<>> \in Seq(Cells) /\ Len(<<>>) = 0
      OBVIOUS
    <2> QED BY <2>1, CostSums
  <1> QED BY <1>1, <1>3, <1>5, <1>6, <1>7, <1>8 DEF s

\* The beginning of a route, as a candidate.
Part(r, k) == [cost |-> CostOf(SubSeq(r, 1, k)), route |-> SubSeq(r, 1, k)]

\* A part is a route; one that is a cell longer costs that cell more.
LEMMA PartsGrow ==
    ASSUME board \in Boards, NEW r \in Seq(Cells)
    PROVE  /\ Part(r, 0) = Start
           /\ Part(r, Len(r)) = [cost |-> CostOf(r), route |-> r]
           /\ \A k \in 0 .. Len(r) : Part(r, k) \in Candidates
           /\ \A k \in 1 .. Len(r) : Part(r, k) = Extend(Part(r, k - 1), r[k])
           /\ \A k \in 0 .. Len(r) : Part(r, k).cost <= CostOf(r)
  <1>1. Len(r) \in Nat /\ \A k \in 1 .. Len(r) : r[k] \in Cells
    OBVIOUS
  <1>2. \A k \in 0 .. Len(r) : SubSeq(r, 1, k) \in Seq(Cells)
    BY <1>1
  <1>3. \A k \in 1 .. Len(r) :
            k - 1 \in 0 .. Len(r) /\ SubSeq(r, 1, k) = Append(SubSeq(r, 1, k - 1), r[k])
    BY <1>1
  <1>4. SubSeq(r, 1, 0) = <<>> /\ SubSeq(r, 1, Len(r)) = r
    BY <1>1
  <1>5. 0 \in Cells
    BY BoardAssumption DEF Cells
  <1>6. \A s \in Seq(Cells) : CostOf(s) \in Nat /\ CostOf(<<>>) = 0
    BY <1>5, CostOfAppend
  <1>7. \A k \in 0 .. Len(r) : Part(r, k) \in Candidates
    BY <1>2, <1>6 DEF Part, Candidates
  <1>8. ASSUME NEW k \in 1 .. Len(r)
        PROVE  Part(r, k) = Extend(Part(r, k - 1), r[k])
    <2>1. CostOf(Append(SubSeq(r, 1, k - 1), r[k]))
             = CostOf(SubSeq(r, 1, k - 1)) + board.cost[r[k]]
      BY <1>1, <1>2, <1>3, CostOfAppend
    <2> QED BY <1>3, <2>1 DEF Part, Extend
  <1>9. \A k \in 0 .. Len(r) : Part(r, k).cost <= CostOf(r)
    <2> DEFINE n == Len(r)
               S == {k \in 0 .. n : Part(r, n - k).cost <= CostOf(r)}
    <2>1. 0 \in S
      <3>1. Part(r, n).cost = CostOf(r) /\ CostOf(r) \in Nat
        BY <1>4, <1>6 DEF Part
      <3> QED BY <1>1, <3>1
    <2>2. ASSUME NEW k \in 1 .. n, k - 1 \in S
          PROVE  k \in S
      <3> DEFINE j == n - k + 1
      <3>1. j \in 1 .. n /\ j - 1 = n - k /\ n - (k - 1) = j /\ k \in 0 .. n
        BY <1>1
      <3>2. Part(r, j) = Extend(Part(r, j - 1), r[j])
        BY <1>8, <3>1
      <3>3. Part(r, j).cost = Part(r, j - 1).cost + board.cost[r[j]]
        BY <3>2 DEF Extend
      <3>4. board.cost[r[j]] \in Nat
        BY <1>1, <3>1, CostsAreNatural
      <3>5. Part(r, j - 1).cost \in Nat /\ Part(r, j).cost \in Nat /\ CostOf(r) \in Nat
        BY <1>6, <1>7, <1>1, <3>1 DEF Candidates
      <3>6. Part(r, j).cost <= CostOf(r)
        BY <2>2, <3>1
      <3>7. Part(r, n - k).cost <= CostOf(r)
        <4> HIDE DEF j, n
        <4> QED BY <3>1, <3>3, <3>4, <3>5, <3>6
      <3> QED BY <3>1, <3>7
    <2>3. \A k \in 1 .. n : k - 1 \in S => k \in S
      BY <2>2
    <2> HIDE DEF S
    <2>4. 0 .. n \subseteq S
      BY <1>1, <2>1, <2>3, CountingUp
    <2>5. \A k \in 0 .. n : n - k \in 0 .. n /\ n - (n - k) = k
      BY <1>1
    <2> QED BY <2>4, <2>5 DEF S
  <1>10. Part(r, 0) = Start /\ Part(r, Len(r)) = [cost |-> CostOf(r), route |-> r]
    BY <1>4, <1>6 DEF Part, Start
  <1> QED BY <1>7, <1>8, <1>9, <1>10

\* The cell from which a route enters its cell "k".
Previous(r, k) == IF k = 1 THEN board.origin ELSE r[k - 1]

\* A route of the mover enters cells that are next to each other and open.
Walkable(r) ==
    \A k \in 1 .. Len(r) : r[k] \in Neighbours(Previous(r, k)) /\ Enterable(r[k])

\* A route that visits no cell twice.
Simple(r) ==
    /\ r \in Seq(Cells)
    /\ Walkable(r)
    /\ \A k \in 1 .. Len(r) : r[k] # board.origin
    /\ \A j, k \in 1 .. Len(r) : r[j] = r[k] => j = k

\* The simple routes of "n" cells.
SimpleOf(n) == {r \in Seq(Cells) : Simple(r) /\ Len(r) = n}

\* The routes one cell longer go on from those of "n" cells.
LEMMA SimpleGrows ==
    ASSUME NEW n \in Nat
    PROVE  UNION {Lengthened(r) : r \in SimpleOf(n)} = SimpleOf(n + 1)
  <1>1. ASSUME NEW r \in SimpleOf(n), NEW s \in Lengthened(r)
        PROVE  s \in SimpleOf(n + 1)
    <2>1. PICK d \in Neighbours(End(r)) :
              /\ s = Append(r, d) /\ Enterable(d) /\ d # board.origin
              /\ \A k \in DOMAIN r : r[k] # d
      BY <1>1 DEF Lengthened
    <2>2. r \in Seq(Cells) /\ Simple(r) /\ Len(r) = n /\ d \in Cells
      BY <2>1 DEF SimpleOf, Neighbours
    <2>3. /\ s \in Seq(Cells) /\ Len(s) = n + 1 /\ s[n + 1] = d
          /\ DOMAIN r = 1 .. n /\ \A k \in 1 .. n : s[k] = r[k]
      BY <2>1, <2>2
    <2>4. \A k \in 1 .. n + 1 : k \in 1 .. n \/ k = n + 1
      OBVIOUS
    <2>5. Walkable(s)
      <3> SUFFICES ASSUME NEW k \in 1 .. n + 1
                   PROVE  s[k] \in Neighbours(Previous(s, k)) /\ Enterable(s[k])
        BY <2>3 DEF Walkable
      <3>1. CASE k \in 1 .. n
        <4>1. Previous(s, k) = Previous(r, k)
          <5>1. k # 1 => k - 1 \in 1 .. n
            BY <3>1
          <5> QED BY <2>3, <5>1 DEF Previous
        <4> QED BY <2>2, <2>3, <3>1, <4>1 DEF Simple, Walkable
      <3>2. CASE k = n + 1
        <4>1. Previous(s, k) = End(r)
          <5>1. CASE n = 0
            BY <2>2, <3>2, <5>1 DEF Previous, End
          <5>2. CASE n # 0
            <6>1. k # 1 /\ k - 1 = n /\ n \in 1 .. n /\ r # <<>>
              BY <2>2, <3>2, <5>2
            <6> QED BY <2>2, <2>3, <6>1 DEF Previous, End
          <5> QED BY <5>1, <5>2
        <4> QED BY <2>1, <2>3, <3>2, <4>1
      <3> QED BY <2>4, <3>1, <3>2
    <2>6. \A k \in 1 .. n + 1 : s[k] # board.origin
      BY <2>1, <2>2, <2>3, <2>4 DEF Simple
    <2>7. \A j, k \in 1 .. n + 1 : s[j] = s[k] => j = k
      BY <2>1, <2>2, <2>3, <2>4 DEF Simple
    <2> QED BY <2>3, <2>5, <2>6, <2>7 DEF Simple, SimpleOf
  <1>2. ASSUME NEW s \in SimpleOf(n + 1)
        PROVE  \E r \in SimpleOf(n) : s \in Lengthened(r)
    <2> DEFINE r == SubSeq(s, 1, n)
               d == s[n + 1]
    <2>1. s \in Seq(Cells) /\ Simple(s) /\ Len(s) = n + 1
      BY DEF SimpleOf
    <2>2. /\ r \in Seq(Cells) /\ Len(r) = n /\ s = Append(r, d) /\ d \in Cells
          /\ DOMAIN r = 1 .. n /\ \A k \in 1 .. n : s[k] = r[k]
      BY <2>1
    <2>0. \A k \in 1 .. n : k \in 1 .. n + 1 /\ k # n + 1 /\ n + 1 \in 1 .. n + 1
      OBVIOUS
    <2> HIDE DEF r
    <2>3. Walkable(r)
      <3> SUFFICES ASSUME NEW k \in 1 .. n
                   PROVE  r[k] \in Neighbours(Previous(r, k)) /\ Enterable(r[k])
        BY <2>2 DEF Walkable
      <3>1. Previous(s, k) = Previous(r, k)
        <4>1. k # 1 => k - 1 \in 1 .. n
          OBVIOUS
        <4> QED BY <2>2, <4>1 DEF Previous
      <3> QED BY <2>0, <2>1, <2>2, <3>1 DEF Simple, Walkable
    <2>4. r \in SimpleOf(n)
      BY <2>0, <2>1, <2>2, <2>3 DEF Simple, SimpleOf
    <2>5. Previous(s, n + 1) = End(r)
      <3>1. CASE n = 0
        BY <2>2, <3>1 DEF Previous, End
      <3>2. CASE n # 0
        <4>1. n + 1 # 1 /\ n + 1 - 1 = n /\ n \in 1 .. n /\ r # <<>>
          BY <2>2, <3>2
        <4> QED BY <2>2, <4>1 DEF Previous, End
      <3> QED BY <3>1, <3>2
    <2>6. d \in Neighbours(End(r)) /\ Enterable(d)
      <3>1. n + 1 \in 1 .. Len(s)
        BY <2>1
      <3> QED BY <2>1, <2>5, <3>1 DEF Simple, Walkable
    <2>7. d # board.origin /\ \A k \in DOMAIN r : r[k] # d
      BY <2>0, <2>1, <2>2 DEF Simple
    <2>8. s \in Lengthened(r)
      BY <2>2, <2>6, <2>7 DEF Lengthened
    <2> QED BY <2>4, <2>8
  <1> QED BY <1>1, <1>2

\* The routes that are searched for are those that visit no cell twice, of every
\* length that the board has room for.
LEMMA SimpleRoutesAre ==
    SimpleRoutes = {r \in Seq(Cells) :
                       Simple(r) /\ Len(r) \in 1 .. BoardWidth * BoardHeight - 1}
  <1> DEFINE n    == BoardWidth * BoardHeight - 1
             V    == SUBSET Seq(Cells)
             step == [k \in 1 .. n |-> [X \in V |-> UNION {Lengthened(r) : r \in X}]]
             routes == CHOOSE f : f = [k \in 0 .. n |->
                          IF k = 0 THEN {<<>>} ELSE UNION {Lengthened(r) : r \in f[k - 1]}]
  <1>1. n \in Nat
    BY BoardAssumption
  <1>2. SimpleRoutes = UNION {routes[k] : k \in 1 .. n}
    BY DEF SimpleRoutes
  <1>3. \A r \in Seq(Cells) : Lengthened(r) \subseteq Seq(Cells)
    BY DEF Lengthened, Neighbours
  <1>4. step \in [1 .. n -> [V -> V]] /\ {<<>>} \in V
    BY <1>3
  <1>5. \A k \in 1 .. n, X \in V : step[k][X] = UNION {Lengthened(r) : r \in X}
    OBVIOUS
  <1> HIDE DEF n, step
  <1>6. PICK f : Chain(f, n, V, {<<>>}, step)
    <2> HIDE DEF V
    <2> QED BY <1>1, <1>4, StepsTaken
  <1> HIDE DEF V
  <1>7. ASSUME NEW k \in 1 .. n
        PROVE  f[k] = UNION {Lengthened(r) : r \in f[k - 1]}
    <2>1. k - 1 \in 0 .. n
      BY <1>1
    <2>2. f[k - 1] \in V
      BY <1>6, <2>1 DEF Chain
    <2> QED BY <1>5, <1>6, <2>2 DEF Chain
  <1> DEFINE g == [k \in 0 .. n |->
                     IF k = 0 THEN {<<>>} ELSE UNION {Lengthened(r) : r \in f[k - 1]}]
  <1>8. ASSUME NEW k \in 0 .. n
        PROVE  f[k] = g[k]
    <2>1. CASE k = 0
      BY <1>6, <2>1 DEF Chain
    <2>2. CASE k # 0
      <3>1. k \in 1 .. n
        BY <1>1, <2>2
      <3> QED BY <1>7, <2>2, <3>1
    <2> QED BY <2>1, <2>2
  <1>9. f = g
    BY <1>6, <1>8 DEF Chain
  <1>10. routes = [k \in 0 .. n |->
                     IF k = 0 THEN {<<>>} ELSE UNION {Lengthened(r) : r \in routes[k - 1]}]
    BY <1>9
  <1> HIDE DEF routes
  <1> DEFINE S == {k \in 0 .. n : routes[k] = SimpleOf(k)}
  <1>11. 0 \in S
    <2>1. routes[0] = {<<>>} /\ 0 \in 0 .. n
      BY <1>1, <1>10
    <2>2. \A r \in Seq(Cells) : Len(r) = 0 => r = <<>>
      OBVIOUS
    <2>3. <<>> \in Seq(Cells) /\ Len(<<>>) = 0
      OBVIOUS
    <2>4. SimpleOf(0) = {<<>>}
      <3>1. \A k \in 1 .. Len(<<>>) : FALSE
        BY <2>3
      <3>2. Simple(<<>>)
        BY <2>3, <3>1 DEF Simple, Walkable
      <3> QED BY <2>2, <2>3, <3>2 DEF SimpleOf
    <2> QED BY <2>1, <2>4
  <1>12. ASSUME NEW k \in 1 .. n, k - 1 \in S
         PROVE  k \in S
    <2>1. k \in 0 .. n /\ k # 0 /\ k - 1 \in Nat /\ k - 1 + 1 = k
      BY <1>1
    <2>2. routes[k] = UNION {Lengthened(r) : r \in routes[k - 1]}
      BY <1>10, <2>1
    <2>3. routes[k] = UNION {Lengthened(r) : r \in SimpleOf(k - 1)}
      BY <1>12, <2>2
    <2>4. routes[k] = SimpleOf(k - 1 + 1)
      BY <2>1, <2>3, SimpleGrows
    <2> QED BY <2>1, <2>4
  <1>13. \A k \in 1 .. n : k - 1 \in S => k \in S
    BY <1>12
  <1> HIDE DEF S
  <1>14. 0 .. n \subseteq S
    BY <1>1, <1>11, <1>13, CountingUp
  <1>15. \A k \in 1 .. n : routes[k] = SimpleOf(k)
    BY <1>1, <1>14 DEF S
  <1>16. SimpleRoutes = UNION {SimpleOf(k) : k \in 1 .. n}
    BY <1>2, <1>15
  <1>17. SimpleRoutes = {r \in Seq(Cells) : Simple(r) /\ Len(r) \in 1 .. n}
    BY <1>16 DEF SimpleOf
  <1> QED BY <1>17 DEF n

-------------------------------------------------------------------------------
(* The search finds the least routes. *)

\* Every candidate kept is a route, at its cost, within the bound.
FoundWalks ==
    \A c \in DOMAIN best :
        /\ Walkable(best[c].route)
        /\ best[c].cost = CostOf(best[c].route)
        /\ best[c].cost <= board.reach

\* From an explored cell nothing better leads to a cell next to it.
Spread ==
    \A c \in DOMAIN best : best[c] \notin frontier =>
        \A d \in Neighbours(c) :
            Enterable(d) /\ Extend(best[c], d).cost <= board.reach =>
                d \in DOMAIN best /\ ~ Before(Extend(best[c], d), best[d])

LeastInv == SearchInv /\ FoundWalks /\ Spread

\* A route that goes on to a cell next to its end is a route.
LEMMA WalksOn ==
    ASSUME NEW r \in Seq(Cells), Walkable(r), NEW d \in Neighbours(End(r)), Enterable(d)
    PROVE  Walkable(Append(r, d))
  <1> DEFINE s == Append(r, d)
             n == Len(r)
  <1>1. /\ Len(s) = n + 1 /\ s[n + 1] = d /\ n \in Nat
        /\ \A k \in 1 .. n : s[k] = r[k]
    BY DEF Neighbours
  <1>2. n # 0 => r # <<>>
    OBVIOUS
  <1>3. n = 0 => r = <<>>
    OBVIOUS
  <1> HIDE DEF s, n
  <1> SUFFICES ASSUME NEW k \in 1 .. n + 1
               PROVE  s[k] \in Neighbours(Previous(s, k)) /\ Enterable(s[k])
    BY <1>1 DEF Walkable, s
  <1>4. CASE k \in 1 .. n
    <2>1. Previous(s, k) = Previous(r, k)
      <3>1. k # 1 => k - 1 \in 1 .. n
        BY <1>1, <1>4
      <3> QED BY <1>1, <3>1 DEF Previous
    <2> QED BY <1>1, <1>4, <2>1 DEF Walkable, n
  <1>5. CASE k = n + 1
    <2>1. Previous(s, k) = End(r)
      <3>1. CASE n = 0
        BY <1>3, <1>5, <3>1 DEF Previous, End
      <3>2. CASE n # 0
        <4>1. k # 1 /\ k - 1 = n /\ n \in 1 .. n
          BY <1>1, <1>5, <3>2
        <4> QED BY <1>1, <1>2, <3>2, <4>1 DEF Previous, End, n
      <3> QED BY <3>1, <3>2
    <2> QED BY <1>1, <1>5, <2>1
  <1> QED BY <1>1, <1>4, <1>5

\* A round adds all cells to which the foremost candidate leads better.
LEMMA ExploreImproves ==
    ASSUME SearchInv, Explore
    PROVE  \E c \in Foremost :
              /\ frontier' = (frontier \ {c}) \cup {Extend(c, d) : d \in Improved(c)}
              /\ best' = [d \in DOMAIN best \cup Improved(c) |->
                             IF d \in Improved(c) THEN Extend(c, d) ELSE best[d]]
  <1>1. PICK c \in Foremost :
           LET cells == IF Before(best[End(c.route)], c) THEN {} ELSE Improved(c)
           IN  /\ frontier' = (frontier \ {c}) \cup {Extend(c, d) : d \in cells}
               /\ best' = [d \in DOMAIN best \cup cells |->
                             IF d \in cells THEN Extend(c, d) ELSE best[d]]
    BY DEF Explore
  <1>2. c \in Candidates /\ best[End(c.route)] = c
    BY DEF Foremost, SearchInv, SearchTypes
  <1>3. ~ Before(best[End(c.route)], c)
    BY <1>2, CandidateOrder
  <1> QED BY <1>1, <1>3

\* The search begins with the mover where it is.
LEMMA LeastInitially == SearchInit => LeastInv
  <1> SUFFICES ASSUME SearchInit PROVE LeastInv
    OBVIOUS
  <1>1. SearchInv
    BY SearchInitInv
  <1>2. DOMAIN best = {board.origin} /\ best[board.origin] = Start /\ frontier = {Start}
    BY DEF SearchInit
  <1>3. FoundWalks
    <2>1. board \in Boards /\ board.reach \in Nat /\ board.origin \in Cells
      BY BoardAssumption DEF SearchInit
    <2>2. <<>> \in Seq(Cells) /\ \A k \in 1 .. Len(<<>>) : FALSE
      OBVIOUS
    <2>3. CostOf(<<>>) = 0
      BY <2>1, <2>2, CostOfAppend
    <2> QED BY <1>2, <2>1, <2>2, <2>3 DEF FoundWalks, Walkable, Start
  <1>4. Spread
    BY <1>2 DEF Spread
  <1> QED BY <1>1, <1>3, <1>4 DEF LeastInv

\* A round keeps it.
LEMMA ExploreKeepsLeast ==
    ASSUME LeastInv, Explore
    PROVE  LeastInv'
  <1>1. SearchInv /\ SearchTypes /\ board' = board /\ board \in Boards
    BY DEF LeastInv, SearchInv, SearchTypes, Explore
  <1>2. PICK c \in Foremost :
              /\ frontier' = (frontier \ {c}) \cup {Extend(c, d) : d \in Improved(c)}
              /\ best' = [d \in DOMAIN best \cup Improved(c) |->
                             IF d \in Improved(c) THEN Extend(c, d) ELSE best[d]]
    BY <1>1, ExploreImproves
  <1>3. /\ c \in frontier /\ c \in Candidates
        /\ End(c.route) \in DOMAIN best /\ best[End(c.route)] = c
    BY <1>1 DEF Foremost, SearchTypes
  <1>4. \A d \in Improved(c) : /\ d \in Cells \ DOMAIN best /\ Enterable(d)
                               /\ Extend(c, d) \in Candidates
                               /\ Extend(c, d).cost > c.cost
    BY <1>1, <1>3, OnlyNewCells, ExtendType
  <1>5. /\ DOMAIN best' = DOMAIN best \cup Improved(c)
        /\ \A d \in DOMAIN best : best'[d] = best[d]
        /\ \A d \in Improved(c) : best'[d] = Extend(c, d)
    BY <1>2, <1>4
  <1>6. SearchInv'
    BY <1>1, ExploreInv
  <1>7. FoundWalks'
    <2>1. ASSUME NEW d \in Improved(c)
          PROVE  /\ Walkable(Extend(c, d).route)
                 /\ Extend(c, d).cost = CostOf(Extend(c, d).route)
                 /\ Extend(c, d).cost <= board.reach
      <3>1. d \in Neighbours(End(c.route)) /\ Enterable(d) /\ Extend(c, d).cost <= board.reach
        BY DEF Improved
      <3>2. c.route \in Seq(Cells) /\ d \in Cells
        BY <1>3, <1>4 DEF Candidates
      <3>3. Walkable(c.route) /\ c.cost = CostOf(c.route)
        BY <1>3 DEF LeastInv, FoundWalks
      <3>4. Walkable(Append(c.route, d))
        BY <3>1, <3>2, <3>3, WalksOn
      <3>5. CostOf(Append(c.route, d)) = CostOf(c.route) + board.cost[d]
        BY <1>1, <3>2, CostOfAppend
      <3> QED BY <3>1, <3>3, <3>4, <3>5 DEF Extend
    <2>2. \A d \in DOMAIN best' : /\ Walkable(best'[d].route)
                                  /\ best'[d].cost = CostOf(best'[d].route)
                                  /\ best'[d].cost <= board.reach
      BY <1>5, <2>1 DEF LeastInv, FoundWalks
    <2>3. \A r : Walkable(r)' <=> Walkable(r)
      BY <1>1 DEF Walkable, Previous, Enterable, Neighbours
    <2>4. \A r : CostOf(r)' = CostOf(r)
      BY <1>1 DEF CostOf
    <2> QED BY <1>1, <2>2, <2>3, <2>4 DEF FoundWalks
  <1>8. \A d \in DOMAIN best : best[d] \notin frontier' => best[d] \notin frontier \/ best[d] = c
    BY <1>2
  <1>9. \A d \in Improved(c) : Extend(c, d) \in frontier'
    BY <1>2
  <1>10. ASSUME NEW b \in DOMAIN best', best'[b] \notin frontier', NEW d \in Neighbours(b),
                Enterable(d), Extend(best'[b], d).cost <= board.reach
         PROVE  d \in DOMAIN best' /\ ~ Before(Extend(best'[b], d), best'[d])
    <2>1. b \in DOMAIN best /\ best'[b] = best[b]
      BY <1>5, <1>9, <1>10
    <2>2. CASE best[b] = c
      <3>1. b = End(c.route)
        BY <1>1, <2>1, <2>2 DEF SearchTypes
      <3>2. CASE d \in Improved(c)
        <4>1. ~ Before(Extend(c, d), Extend(c, d))
          BY <1>4, <3>2, CandidateOrder
        <4> QED BY <1>5, <2>1, <2>2, <3>2, <4>1
      <3>3. CASE d \notin Improved(c)
        <4>1. d \in DOMAIN best /\ ~ Before(Extend(c, d), best[d])
          BY <1>10, <2>1, <2>2, <3>1, <3>3 DEF Improved
        <4> QED BY <1>5, <2>1, <2>2, <4>1
      <3> QED BY <3>2, <3>3
    <2>3. CASE best[b] # c
      <3>1. best[b] \notin frontier
        BY <1>8, <1>10, <2>1, <2>3
      <3>2. d \in DOMAIN best /\ ~ Before(Extend(best[b], d), best[d])
        BY <1>10, <2>1, <3>1 DEF LeastInv, Spread
      <3> QED BY <1>5, <2>1, <3>2
    <2> QED BY <2>2, <2>3
  <1>11. Spread'
    BY <1>1, <1>10 DEF Spread, Neighbours, Enterable, Extend, Before, RouteBefore
  <1> QED BY <1>6, <1>7, <1>11 DEF LeastInv

\* A step of nothing keeps it.
LEMMA LeastStutters == ASSUME LeastInv, UNCHANGED routeVars PROVE LeastInv'
  <1>1. SearchInv'
    BY StutterInv DEF LeastInv
  <1>2. board' = board /\ frontier' = frontier /\ best' = best
    BY DEF routeVars
  <1>3. \A r : Walkable(r)' <=> Walkable(r)
    BY <1>2 DEF Walkable, Previous, Enterable, Neighbours
  <1>4. \A r : CostOf(r)' = CostOf(r)
    BY <1>2 DEF CostOf
  <1>5. FoundWalks'
    BY <1>2, <1>3, <1>4 DEF LeastInv, FoundWalks
  <1>6. Spread'
    BY <1>2 DEF LeastInv, Spread, Neighbours, Enterable, Extend, Before, RouteBefore
  <1> QED BY <1>1, <1>5, <1>6 DEF LeastInv

\* A part of a simple route that ends at the cell of a kept candidate is not
\* longer than it and beginning with it.
LEMMA SimplePartsDiffer ==
    ASSUME SearchTypes, NEW r, Simple(r), NEW k \in 0 .. Len(r), NEW c \in DOMAIN best,
           End(SubSeq(r, 1, k)) = c
    PROVE  ~ Shorter(best[c].route, SubSeq(r, 1, k))
  <1> SUFFICES ASSUME Shorter(best[c].route, SubSeq(r, 1, k)) PROVE FALSE
    OBVIOUS
  <1> DEFINE p == SubSeq(r, 1, k)
             q == best[c].route
             m == Len(q)
  <1>1. r \in Seq(Cells) /\ Len(r) \in Nat
    BY DEF Simple
  <1>2. p \in Seq(Cells) /\ Len(p) = k /\ \A j \in 1 .. k : p[j] = r[j]
    BY <1>1
  <1>3. q \in Seq(Cells) /\ m \in Nat /\ DOMAIN q = 1 .. m /\ End(q) = c
    BY DEF SearchTypes, Candidates
  <1>4. m < k /\ \A j \in 1 .. m : q[j] = p[j]
    BY <1>2, <1>3 DEF Shorter
  <1>5. k \in 1 .. Len(r) /\ k \in 1 .. k /\ p # <<>>
    BY <1>1, <1>2, <1>3, <1>4
  <1>6. End(p) = r[k] /\ End(p) = c
    BY <1>2, <1>5 DEF End
  <1>7. CASE m = 0
    <2>1. q = <<>>
      BY <1>3, <1>7
    <2>2. r[k] = board.origin
      BY <1>3, <1>6, <2>1 DEF End
    <2> QED BY <1>5, <2>2 DEF Simple
  <1>8. CASE m # 0
    <2>1. q # <<>> /\ m \in 1 .. m /\ m \in 1 .. k /\ m \in 1 .. Len(r)
      BY <1>1, <1>3, <1>4, <1>5, <1>8
    <2>2. q[m] = c
      BY <1>3, <2>1 DEF End
    <2>3. r[m] = r[k]
      BY <1>2, <1>4, <1>6, <2>1, <2>2
    <2>4. m = k
      BY <1>5, <2>1, <2>3 DEF Simple
    <2> QED BY <1>3, <1>4, <2>4
  <1> QED BY <1>7, <1>8

\* Once nothing is left to explore, every part of a simple route within the bound
\* ends at a cell that was found, with a candidate that is not after that part.
LEMMA PartsAreReached ==
    ASSUME LeastInv, frontier = {}, NEW r, Simple(r), CostOf(r) <= board.reach
    PROVE  \A k \in 0 .. Len(r) :
              /\ End(SubSeq(r, 1, k)) \in DOMAIN best
              /\ ~ Before(Part(r, k), best[End(SubSeq(r, 1, k))])
  <1> DEFINE n == Len(r)
             p(k) == SubSeq(r, 1, k)
             S == {k \in 0 .. n : /\ End(p(k)) \in DOMAIN best
                                  /\ ~ Before(Part(r, k), best[End(p(k))])}
  <1>1. r \in Seq(Cells) /\ n \in Nat /\ board \in Boards /\ SearchTypes
    BY DEF Simple, LeastInv, SearchInv, SearchTypes
  <1>2. /\ Part(r, 0) = Start
        /\ \A k \in 0 .. n : Part(r, k) \in Candidates
        /\ \A k \in 1 .. n : Part(r, k) = Extend(Part(r, k - 1), r[k])
        /\ \A k \in 0 .. n : Part(r, k).cost <= CostOf(r)
    BY <1>1, PartsGrow
  <1>3. /\ \A k \in 0 .. n : Part(r, k).route = p(k) /\ p(k) \in Seq(Cells) /\ Len(p(k)) = k
        /\ \A k \in 1 .. n : r[k] \in Cells /\ End(p(k)) = r[k]
    <2>1. \A k \in 0 .. n : Part(r, k).route = p(k) /\ p(k) \in Seq(Cells) /\ Len(p(k)) = k
      BY <1>1 DEF Part
    <2>2. \A k \in 1 .. n : p(k)[k] = r[k] /\ p(k) # <<>> /\ r[k] \in Cells
      BY <1>1
    <2> QED BY <1>1, <2>1, <2>2 DEF End
  <1>4. 0 \in S
    <2>1. p(0) = <<>> /\ 0 \in 0 .. n
      BY <1>1
    <2>2. End(p(0)) = board.origin /\ best[board.origin] = Start
          /\ board.origin \in DOMAIN best /\ Start \in Candidates
      BY <1>1, <2>1 DEF End, SearchTypes
    <2>3. ~ Before(Start, Start)
      BY <2>2, CandidateOrder
    <2> QED BY <1>2, <2>1, <2>2, <2>3
  <1>5. ASSUME NEW k \in 1 .. n, k - 1 \in S
        PROVE  k \in S
    <2> DEFINE x == Part(r, k - 1)
               e == End(p(k - 1))
               d == r[k]
    <2>1. /\ k \in 0 .. n /\ k - 1 \in 0 .. n /\ k - 1 < k
          /\ e \in DOMAIN best /\ ~ Before(x, best[e])
      BY <1>1, <1>5
    <2>11. d \in Cells
      BY <1>3
    <2>2. /\ x \in Candidates /\ x.route = p(k - 1) /\ d \in Cells
          /\ Part(r, k) = Extend(x, d) /\ Part(r, k) \in Candidates
          /\ Extend(x, d).cost <= board.reach
      <3>1. Part(r, k).cost <= CostOf(r) /\ Part(r, k).cost \in Nat
        BY <1>2, <2>1 DEF Candidates
      <3>2. CostOf(r) \in Nat /\ board.reach \in Nat
        <4>1. CostOf(r) \in Nat
          BY <1>1, <2>11, CostOfAppend
        <4>2. board.reach \in Nat
          BY <1>1, BoardAssumption
        <4> QED BY <4>1, <4>2
      <3>3. Part(r, k).cost <= board.reach
        BY <3>1, <3>2
      <3> QED BY <1>2, <1>3, <2>1, <3>3
    <2>3. best[e] \in Candidates /\ e \in Cells
      BY <1>1, <2>1 DEF SearchTypes
    <2>4. Previous(r, k) = e
      <3>1. CASE k = 1
        <4>1. p(0) = <<>>
          BY <1>1
        <4> QED BY <3>1, <4>1 DEF Previous, End
      <3>2. CASE k # 1
        <4>1. k - 1 \in 1 .. n
          BY <1>1, <3>2
        <4> QED BY <1>3, <3>2, <4>1 DEF Previous
      <3> QED BY <3>1, <3>2
    <2>5. d \in Neighbours(e) /\ Enterable(d)
      BY <2>4 DEF Simple, Walkable
    <2>6. ~ Before(Extend(x, d), Extend(best[e], d))
          /\ Extend(best[e], d) \in Candidates /\ Extend(best[e], d).cost <= Extend(x, d).cost
      <3>0. Extend(best[e], d) \in Candidates /\ board.cost[d] \in Nat
        BY <1>1, <2>2, <2>3, <2>5, ExtendType
      <3>1. CASE best[e].route = x.route
        <4>1. best[e].cost = CostOf(best[e].route) /\ x.cost = CostOf(x.route)
          BY <1>3, <2>1 DEF LeastInv, FoundWalks, Part
        <4>2. Extend(best[e], d) = Extend(x, d)
          BY <3>1, <4>1 DEF Extend
        <4>3. Extend(x, d).cost \in Nat
          BY <3>0, <4>2 DEF Candidates
        <4> QED BY <3>0, <4>2, <4>3, CandidateOrder
      <3>2. CASE best[e].route # x.route
        <4>1. Before(best[e], x)
          BY <2>1, <2>2, <2>3, <3>2, CandidateOrder
        <4>2. ~ Shorter(best[e].route, x.route)
          BY <1>1, <2>1, <2>2, SimplePartsDiffer
        <4>3. ~ Before(Extend(x, d), Extend(best[e], d))
          BY <1>1, <2>2, <2>3, <2>5, <4>1, <4>2, ExtendKeepsOrder
        <4>4. best[e].cost <= x.cost /\ best[e].cost \in Nat /\ x.cost \in Nat
          BY <2>2, <2>3, <4>1 DEF Before, Candidates
        <4>5. Extend(best[e], d).cost = best[e].cost + board.cost[d]
              /\ Extend(x, d).cost = x.cost + board.cost[d]
          BY DEF Extend
        <4> HIDE DEF x, e, d
        <4> QED BY <3>0, <4>3, <4>4, <4>5
      <3> QED BY <3>1, <3>2
    <2>7. Extend(best[e], d).cost <= board.reach
      <3>1. Extend(best[e], d).cost \in Nat /\ Extend(x, d).cost \in Nat /\ board.reach \in Nat
        BY <1>1, <2>2, <2>6, BoardAssumption DEF Candidates
      <3> HIDE DEF x, e, d
      <3> QED BY <2>2, <2>6, <3>1
    <2>8. d \in DOMAIN best /\ ~ Before(Extend(best[e], d), best[d])
      BY <2>1, <2>5, <2>7 DEF LeastInv, Spread
    <2>9. best[d] \in Candidates
      BY <1>1, <2>8 DEF SearchTypes
    <2>10. ~ Before(Part(r, k), best[d])
      BY <2>2, <2>6, <2>8, <2>9, CandidateOrder
    <2> QED BY <1>3, <2>1, <2>8, <2>10
  <1>6. \A k \in 1 .. n : k - 1 \in S => k \in S
    BY <1>5
  <1> HIDE DEF S
  <1>7. 0 .. n \subseteq S
    BY <1>1, <1>4, <1>6, CountingUp
  <1> QED BY <1>7 DEF S

\* The route of every cell but the mover's own visits no cell twice, and has no
\* more cells than the board has besides that one.
LEMMA FoundIsSimple ==
    ASSUME LeastInv, NEW c \in DOMAIN best
    PROVE  /\ Simple(best[c].route)
           /\ Len(best[c].route) <= BoardWidth * BoardHeight - 1
  <1> DEFINE r == best[c].route
             n == Len(r)
  <1>1. SearchTypes /\ r \in Seq(Cells) /\ n \in Nat
    BY DEF LeastInv, SearchInv, SearchTypes, Candidates
  <1>2. Walkable(r)
    BY DEF LeastInv, FoundWalks
  <1>3. ASSUME NEW k \in 1 .. n
        PROVE  r[k] \in DOMAIN best /\ best[r[k]].route = SubSeq(r, 1, k)
    <2>1. k \in 0 .. n
      BY <1>1
    <2>2. PICK d \in DOMAIN best : best[d].route = SubSeq(r, 1, k)
      BY <2>1 DEF LeastInv, SearchInv, PrefixClosed
    <2>3. Len(SubSeq(r, 1, k)) = k /\ SubSeq(r, 1, k)[k] = r[k] /\ SubSeq(r, 1, k) # <<>>
      BY <1>1
    <2>4. End(SubSeq(r, 1, k)) = r[k]
      BY <2>3 DEF End
    <2>5. End(best[d].route) = d
      BY <1>1 DEF SearchTypes
    <2> QED BY <2>2, <2>4, <2>5
  <1>4. \A k \in 1 .. n : Len(SubSeq(r, 1, k)) = k
    BY <1>1
  <1>5. ASSUME NEW k \in 1 .. n
        PROVE  r[k] # board.origin
    <2>1. best[board.origin].route = <<>> /\ Len(<<>>) = 0 /\ k # 0
      BY <1>1 DEF SearchTypes, Start
    <2> QED BY <1>3, <1>4, <2>1
  <1>6. \A j, k \in 1 .. n : r[j] = r[k] => j = k
    BY <1>3, <1>4
  <1>7. Simple(r)
    BY <1>1, <1>2, <1>5, <1>6 DEF Simple
  <1>8. n <= BoardWidth * BoardHeight - 1
    <2> DEFINE m == BoardWidth * BoardHeight - 1
               T == (0 .. m) \ {board.origin}
    <2>1. m \in Nat /\ board.origin \in 0 .. m
      BY <1>1, BoardAssumption DEF SearchTypes, Cells
    <2> HIDE DEF m
    <2>2. IsFiniteSet(0 .. m) /\ Cardinality(0 .. m) = m + 1
      BY <2>1, FS_Interval
    <2>3. IsFiniteSet(T) /\ Cardinality(T) = m
      <3>1. /\ IsFiniteSet((0 .. m) \ {board.origin})
            /\ Cardinality((0 .. m) \ {board.origin}) = Cardinality(0 .. m) - 1
        BY <2>1, <2>2, FS_RemoveElement
      <3> QED BY <2>1, <2>2, <3>1
    <2>4. IsFiniteSet(1 .. n) /\ Cardinality(1 .. n) = n
      BY <1>1, FS_Interval
    <2>5. r \in [1 .. n -> T]
      <3>1. Cells = 0 .. m
        BY DEF Cells, m
      <3>2. r \in [1 .. n -> 0 .. m]
        <4>1. r \in [1 .. n -> Cells]
          BY <1>1
        <4> HIDE DEF r, n
        <4> QED BY <3>1, <4>1
      <3>3. \A k \in 1 .. n : r[k] \in T
        BY <1>5, <3>2
      <3> HIDE DEF T, r, n
      <3> QED BY <3>2, <3>3
    <2> HIDE DEF T, r, n
    <2>6. CASE m < n
      <3>1. \E x, y \in 1 .. n : x # y /\ r[x] = r[y]
        BY <2>3, <2>4, <2>5, <2>6, FS_PigeonHole
      <3> QED BY <1>6, <3>1
    <2> QED BY <1>1, <2>1, <2>6 DEF m
  <1> QED BY <1>7, <1>8

\* Where nothing is left to explore, the least routes have been found.
LEMMA LeastAreFound ==
    ASSUME LeastInv, frontier = {}
    PROVE  LeastRoutes
  <1> DEFINE within == {r \in SimpleRoutes : CostOf(r) <= board.reach}
             last   == BoardWidth * BoardHeight - 1
  <1>1. SearchTypes /\ board \in Boards
    BY DEF LeastInv, SearchInv, SearchTypes
  <1>2. within = {r \in Seq(Cells) : /\ Simple(r) /\ Len(r) \in 1 .. last
                                     /\ CostOf(r) <= board.reach}
    BY SimpleRoutesAre
  <1>3. ASSUME NEW c \in DOMAIN best \ {board.origin}
        PROVE  /\ best[c].route \in within
               /\ End(best[c].route) = c
               /\ best[c].cost = CostOf(best[c].route)
    <2>1. /\ best[c].route \in Seq(Cells) /\ End(best[c].route) = c
          /\ best[c].cost = CostOf(best[c].route) /\ best[c].cost <= board.reach
      BY <1>1 DEF SearchTypes, Candidates, LeastInv, FoundWalks
    <2>2. Simple(best[c].route) /\ Len(best[c].route) <= last
      BY FoundIsSimple
    <2>3. best[c].route # <<>>
      BY <2>1 DEF End
    <2>4. Len(best[c].route) \in 1 .. last
      <3>1. last \in Nat
        BY BoardAssumption
      <3>2. Len(best[c].route) \in Nat /\ Len(best[c].route) # 0
        BY <2>1, <2>3
      <3> HIDE DEF last
      <3> QED BY <2>2, <3>1, <3>2
    <2> HIDE DEF within
    <2> QED BY <1>2, <2>1, <2>2, <2>4
  <1>4. ASSUME NEW r \in within
        PROVE  /\ End(r) \in DOMAIN best \ {board.origin}
               /\ ~ Before([cost |-> CostOf(r), route |-> r], best[End(r)])
    <2>1. r \in Seq(Cells) /\ Simple(r) /\ Len(r) \in 1 .. last /\ CostOf(r) <= board.reach
      BY <1>2
    <2>2. Len(r) \in 0 .. Len(r) /\ SubSeq(r, 1, Len(r)) = r /\ r # <<>>
          /\ Len(r) \in 1 .. Len(r)
      BY <2>1
    <2>3. Part(r, Len(r)) = [cost |-> CostOf(r), route |-> r]
      BY <1>1, <2>1, PartsGrow
    <2>4. End(r) \in DOMAIN best /\ ~ Before(Part(r, Len(r)), best[End(r)])
      BY <2>1, <2>2, PartsAreReached
    <2>5. End(r) # board.origin
      BY <2>1, <2>2 DEF End, Simple
    <2> QED BY <2>3, <2>4, <2>5
  <1>5. DOMAIN best \ {board.origin} = {End(r) : r \in within}
    <2> HIDE DEF within
    <2>1. ASSUME NEW c \in DOMAIN best \ {board.origin}
          PROVE  c \in {End(r) : r \in within}
      BY <1>3
    <2>2. ASSUME NEW r \in within
          PROVE  End(r) \in DOMAIN best \ {board.origin}
      BY <1>4
    <2> QED BY <2>1, <2>2
  <1>6. ASSUME NEW c \in DOMAIN best \ {board.origin}, NEW r \in within,
               End(r) = c, r # best[c].route
        PROVE  Before(best[c], [cost |-> CostOf(r), route |-> r])
    <2> DEFINE x == [cost |-> CostOf(r), route |-> r]
    <2>1. r \in Seq(Cells)
      BY <1>2
    <2>2. 0 \in Cells
      BY BoardAssumption DEF Cells
    <2>3. x \in Candidates /\ x.route = r
      BY <1>1, <2>1, <2>2, CostOfAppend DEF Candidates
    <2>4. best[c] \in Candidates
      BY <1>1 DEF SearchTypes
    <2>5. ~ Before(x, best[c])
      BY <1>4, <1>6
    <2> HIDE DEF x
    <2>6. Before(best[c], x)
      BY <1>6, <2>3, <2>4, <2>5, CandidateOrder
    <2> QED BY <2>6 DEF x
  <1> QED BY <1>3, <1>5, <1>6 DEF LeastRoutes

-------------------------------------------------------------------------------
(* Rows, columns and pushes. *)

\* Quotient and remainder.
LEMMA Division ==
    ASSUME NEW c \in Nat, NEW w \in Nat, w > 0
    PROVE  /\ c \div w \in Nat /\ c % w \in 0 .. w - 1
           /\ c = w * (c \div w) + (c % w)
  OBVIOUS

\* A cell is made of its row and its column.
LEMMA CellOfRowAndColumn ==
    /\ \A c \in Cells : /\ Row(c) \in 0 .. BoardHeight - 1
                        /\ Column(c) \in 0 .. BoardWidth - 1
                        /\ c = BoardWidth * Row(c) + Column(c)
    /\ \A y \in 0 .. BoardHeight - 1, x \in 0 .. BoardWidth - 1 :
          LET c == BoardWidth * y + x
          IN  c \in Cells /\ Row(c) = y /\ Column(c) = x
  <1> DEFINE w == BoardWidth
             h == BoardHeight
  <1>1. w \in Nat /\ w > 0 /\ h \in Nat /\ h > 0
    BY BoardAssumption
  <1> HIDE DEF w, h
  <1>2. ASSUME NEW c \in 0 .. w * h - 1
        PROVE  /\ c \div w \in 0 .. h - 1 /\ c % w \in 0 .. w - 1
               /\ c = w * (c \div w) + (c % w)
    <2>1. c \in Nat /\ c < w * h /\ w * h \in Nat
      BY <1>1
    <2>2. c \div w \in Int /\ c % w \in 0 .. w - 1 /\ c = w * (c \div w) + (c % w)
      BY <1>1, <2>1, Division
    <2>3. c \div w >= 0
      BY <1>1, <2>1, Division
    <2>4. c \div w < h
      <3> DEFINE q == c \div w
                 m == c % w
      <3> HIDE DEF q, m
      <3>1. q \in Int /\ m \in Int /\ m >= 0 /\ w * q + m < w * h
        <4>1. c \div w \in Int /\ c % w \in Int /\ c % w >= 0
          BY <1>1, <2>2
        <4>2. w * (c \div w) + (c % w) < w * h
          BY <2>1, <2>2
        <4> QED BY <4>1, <4>2 DEF q, m
      <3>2. ASSUME q >= h PROVE FALSE
        <4>1. w * q >= w * h
          BY <1>1, <3>1, <3>2
        <4>2. w * q \in Int /\ w * h \in Int
          BY <1>1, <3>1
        <4> QED BY <3>1, <4>1, <4>2
      <3>3. q < h
        BY <1>1, <3>1, <3>2
      <3> QED BY <3>3 DEF q
    <2> QED BY <1>1, <2>2, <2>3, <2>4
  <1>3. ASSUME NEW y \in 0 .. h - 1, NEW x \in 0 .. w - 1
        PROVE  /\ w * y + x \in 0 .. w * h - 1
               /\ (w * y + x) \div w = y /\ (w * y + x) % w = x
    <2>1. x \in Nat /\ x < w /\ y \in Nat /\ y < h
      BY <1>1
    <2>2. w * y \in Nat /\ w * y <= w * (h - 1) /\ w * (h - 1) = w * h - w /\ w * h \in Nat
      BY <1>1, <2>1
    <2>3. w * y + x \in 0 .. w * h - 1
      BY <1>1, <2>1, <2>2
    <2> DEFINE c == w * y + x
               q == c \div w
               m == c % w
    <2>4. c \in Nat /\ q \in Int /\ m \in 0 .. w - 1 /\ c = w * q + m
      <3>1. c \in Nat
        BY <2>1, <2>2
      <3> HIDE DEF c
      <3> QED BY <1>1, <3>1
    <2>5. w * y + x = w * q + m
      BY <2>4
    <2> HIDE DEF c, q, m
    <2>6. ASSUME q > y PROVE FALSE
      <3>1. q >= y + 1 /\ w * q >= w * (y + 1) /\ w * (y + 1) = w * y + w
        BY <1>1, <2>1, <2>4, <2>6
      <3>2. w * q \in Int /\ w * y \in Int /\ m \in Int /\ m >= 0
        BY <1>1, <2>1, <2>4
      <3> QED BY <1>1, <2>1, <2>5, <3>1, <3>2
    <2>7. ASSUME q < y PROVE FALSE
      <3>1. y >= q + 1 /\ w * y >= w * (q + 1) /\ w * (q + 1) = w * q + w
        BY <1>1, <2>1, <2>4, <2>7
      <3>2. w * q \in Int /\ w * y \in Int /\ m \in Int /\ m < w
        BY <1>1, <2>1, <2>4
      <3> QED BY <1>1, <2>1, <2>5, <3>1, <3>2
    <2>8. q = y
      BY <2>1, <2>4, <2>6, <2>7
    <2>9. m = x
      <3>1. w * y \in Int /\ m \in Int /\ x \in Int /\ w * y + x = w * y + m
        BY <1>1, <2>1, <2>2, <2>4, <2>5, <2>8
      <3> QED BY <3>1
    <2> QED BY <2>3, <2>8, <2>9 DEF c, q, m
  <1>4. \A c \in Cells : /\ Row(c) \in 0 .. h - 1 /\ Column(c) \in 0 .. w - 1
                          /\ c = w * Row(c) + Column(c)
    BY <1>2 DEF Cells, Row, Column, w, h
  <1>5. \A y \in 0 .. h - 1, x \in 0 .. w - 1 :
           w * y + x \in Cells /\ Row(w * y + x) = y /\ Column(w * y + x) = x
    BY <1>3 DEF Cells, Row, Column, w, h
  <1> QED BY <1>4, <1>5 DEF w, h

\* The place "k" steps away from the source lies on the board.
OnBoard(k) ==
    /\ Column(board.origin) + k * StepX \in 0 .. BoardWidth - 1
    /\ Row(board.origin) + k * StepY \in 0 .. BoardHeight - 1

\* The steps of a push lead away from the source.
LEMMA StepSigns ==
    ASSUME board \in Boards
    PROVE  /\ board.origin \in Cells /\ board.source \in Cells
           /\ StepX \in {-1, 0, 1} /\ StepY \in {-1, 0, 1}
           /\ StepX = 1 <=> Column(board.origin) > Column(board.source)
           /\ StepX = -1 <=> Column(board.origin) < Column(board.source)
           /\ StepY = 1 <=> Row(board.origin) > Row(board.source)
           /\ StepY = -1 <=> Row(board.origin) < Row(board.source)
           /\ ~ (StepX = 0 /\ StepY = 0)
  <1>1. /\ board.origin \in Cells /\ board.source \in Cells
        /\ board.origin # board.source
    BY BoardAssumption
  <1>2. /\ Column(board.origin) \in Int /\ Column(board.source) \in Int
        /\ Row(board.origin) \in Int /\ Row(board.source) \in Int
    BY <1>1, CellOfRowAndColumn
  <1>3. ~ (Row(board.origin) = Row(board.source) /\ Column(board.origin) = Column(board.source))
    BY <1>1, CellOfRowAndColumn
  <1> QED BY <1>1, <1>2, <1>3 DEF StepX, StepY, Sign

\* The cells of a push are where its steps lead.
LEMMA PushedPlace ==
    ASSUME board \in Boards, NEW k \in Nat, OnBoard(k)
    PROVE  /\ PushedTo(k) \in Cells
           /\ Row(PushedTo(k)) = Row(board.origin) + k * StepY
           /\ Column(PushedTo(k)) = Column(board.origin) + k * StepX
  <1> DEFINE w == BoardWidth
             x == Column(board.origin)
             y == Row(board.origin)
  <1>1. /\ w \in Nat /\ x \in Int /\ y \in Int /\ board.origin = w * y + x
        /\ StepX \in {-1, 0, 1} /\ StepY \in {-1, 0, 1}
    BY BoardAssumption, StepSigns, CellOfRowAndColumn
  <1>2. PushedTo(k) = w * y + x + k * (StepX + w * StepY)
    BY <1>1 DEF PushedTo
  <1> HIDE DEF w, x, y
  <1>3. w * y \in Int /\ w * k \in Int
    BY <1>1
  <1>4. w * (y + k) = w * y + w * k /\ w * (y - k) = w * y - w * k
        /\ k * (1 + w) = k + w * k /\ k * (-1 + w) = w * k - k
        /\ k * (1 - w) = k - w * k /\ k * (-1 - w) = 0 - k - w * k
        /\ k * w = w * k /\ k * (0 - w) = 0 - w * k
    BY <1>1
  <1>5. PushedTo(k) = w * (y + k * StepY) + (x + k * StepX)
    <2>1. CASE StepY = 0
      <3>1. StepX + w * StepY = StepX /\ y + k * StepY = y
        BY <1>1, <2>1
      <3> QED BY <1>1, <1>2, <1>3, <3>1
    <2>2. CASE StepY = 1
      <3>1. StepX + w * StepY = StepX + w /\ y + k * StepY = y + k
        BY <1>1, <2>2
      <3>2. k * (StepX + w) = k * StepX + w * k /\ k * StepX \in Int
        BY <1>1, <1>3, <1>4
      <3> HIDE DEF PushedTo
      <3> QED BY <1>1, <1>2, <1>3, <1>4, <3>1, <3>2
    <2>3. CASE StepY = -1
      <3>1. StepX + w * StepY = StepX - w /\ y + k * StepY = y - k
        BY <1>1, <2>3
      <3>2. k * (StepX - w) = k * StepX - w * k /\ k * StepX \in Int
        BY <1>1, <1>3, <1>4
      <3> QED BY <1>1, <1>2, <1>3, <1>4, <3>1, <3>2
    <2> QED BY <1>1, <2>1, <2>2, <2>3
  <1>6. y + k * StepY \in 0 .. BoardHeight - 1 /\ x + k * StepX \in 0 .. w - 1
    BY DEF OnBoard, x, y, w
  <1> QED BY <1>5, <1>6, CellOfRowAndColumn DEF w, x, y

\* A push that is possible enters the cells up to the first that cannot be entered.
LEMMA PushEnters ==
    ASSUME board \in Boards, NEW distance \in Nat, (StepX = 0) # (StepY = 0)
    PROVE  \E n \in 0 .. distance :
              /\ PushRoute(distance) = [k \in 1 .. n |-> PushedTo(k)]
              /\ \A k \in 1 .. n : CanBePushed(k)
              /\ n < distance => ~ CanBePushed(n + 1)
  <1> DEFINE Stops(n) == /\ \A k \in 1 .. n : CanBePushed(k)
                         /\ n < distance => ~ CanBePushed(n + 1)
             stuck == {n \in 0 .. distance : n = distance \/ ~ CanBePushed(n + 1)}
  <1>1. stuck \in SUBSET Nat /\ stuck # {}
    <2>1. distance \in stuck
      OBVIOUS
    <2> QED BY <2>1
  <1>2. PICK n \in stuck : \A j \in stuck : n <= j
    <2> HIDE DEF stuck
    <2> QED BY <1>1, LeastExists
  <1>3. n \in 0 .. distance /\ (n < distance => ~ CanBePushed(n + 1))
    OBVIOUS
  <1>4. ASSUME NEW k \in 1 .. n, ~ CanBePushed(k)
        PROVE  FALSE
    <2>1. k - 1 \in 0 .. distance /\ k - 1 + 1 = k /\ ~ (n <= k - 1)
      BY <1>3
    <2>2. k - 1 \in stuck
      BY <1>4, <2>1
    <2> HIDE DEF stuck
    <2> QED BY <1>2, <2>1, <2>2
  <1>5. \E m \in 0 .. distance : Stops(m)
    BY <1>3, <1>4
  <1> DEFINE m == CHOOSE m \in 0 .. distance : Stops(m)
  <1>6. m \in 0 .. distance /\ Stops(m)
    <2> HIDE DEF Stops
    <2> QED BY <1>5
  <1>7. PushRoute(distance) = [k \in 1 .. m |-> PushedTo(k)]
    BY DEF PushRoute
  <1> HIDE DEF m
  <1> QED BY <1>6, <1>7

\* What a push enters is a simple route, of cells each of which lies one step
\* further in the direction of the push.
LEMMA PushIsSimple ==
    ASSUME board \in Boards, NEW n \in Nat, (StepX = 0) # (StepY = 0),
           \A k \in 1 .. n : CanBePushed(k)
    PROVE  LET r == [k \in 1 .. n |-> PushedTo(k)]
           IN  /\ Simple(r) /\ Len(r) = n
               /\ \A k \in 1 .. n : /\ r[k] = PushedTo(k) /\ Enterable(r[k])
                                    /\ Row(r[k]) = Row(board.origin) + k * StepY
                                    /\ Column(r[k]) = Column(board.origin) + k * StepX
  <1> DEFINE r == [k \in 1 .. n |-> PushedTo(k)]
             x == Column(board.origin)
             y == Row(board.origin)
  <1>1. /\ board.origin \in Cells /\ x \in Int /\ y \in Int
        /\ StepX \in {-1, 0, 1} /\ StepY \in {-1, 0, 1}
        /\ (StepX = 0 /\ StepY # 0) \/ (StepX # 0 /\ StepY = 0)
    BY StepSigns, CellOfRowAndColumn
  <1>2. \A k \in 1 .. n : /\ PushedTo(k) \in Cells /\ Enterable(PushedTo(k))
                          /\ Row(PushedTo(k)) = y + k * StepY
                          /\ Column(PushedTo(k)) = x + k * StepX
    BY PushedPlace DEF CanBePushed, OnBoard
  <1>3. /\ r \in Seq(Cells) /\ Len(r) = n
        /\ \A k \in 1 .. n : r[k] = PushedTo(k)
    BY <1>2
  <1> HIDE DEF r, x, y
  <1>4. ASSUME NEW k \in 1 .. n
        PROVE  r[k] \in Neighbours(Previous(r, k)) /\ Enterable(r[k])
    <2> DEFINE p == Previous(r, k)
    <2>1. p \in Cells /\ Row(p) = y + (k - 1) * StepY /\ Column(p) = x + (k - 1) * StepX
      <3>1. CASE k = 1
        <4>1. p = board.origin
          BY <3>1 DEF Previous
        <4> QED BY <1>1, <3>1, <4>1 DEF x, y
      <3>2. CASE k # 1
        <4>1. k - 1 \in 1 .. n /\ p = r[k - 1]
          BY <3>2 DEF Previous
        <4> QED BY <1>2, <1>3, <4>1
      <3> QED BY <3>1, <3>2
    <2>2. /\ r[k] \in Cells /\ Enterable(r[k])
          /\ Row(r[k]) = y + k * StepY /\ Column(r[k]) = x + k * StepX
      BY <1>2, <1>3
    <2> HIDE DEF p
    <2>3. \/ Row(r[k]) = Row(p) /\ Column(r[k]) \in {Column(p) - 1, Column(p) + 1}
          \/ Column(r[k]) = Column(p) /\ Row(r[k]) \in {Row(p) - 1, Row(p) + 1}
      <3>1. CASE StepX = 0 /\ StepY = 1
        BY <1>1, <2>1, <2>2, <3>1
      <3>2. CASE StepX = 0 /\ StepY = -1
        BY <1>1, <2>1, <2>2, <3>2
      <3>3. CASE StepX = 1 /\ StepY = 0
        BY <1>1, <2>1, <2>2, <3>3
      <3>4. CASE StepX = -1 /\ StepY = 0
        BY <1>1, <2>1, <2>2, <3>4
      <3> QED BY <1>1, <3>1, <3>2, <3>3, <3>4
    <2>4. r[k] \in Neighbours(p)
      BY <2>2, <2>3 DEF Neighbours
    <2> QED BY <2>2, <2>4 DEF p
  <1>5. ASSUME NEW k \in 1 .. n
        PROVE  r[k] # board.origin
    <2>1. Row(r[k]) = y + k * StepY /\ Column(r[k]) = x + k * StepX
      BY <1>2, <1>3
    <2>2. k * StepY # 0 \/ k * StepX # 0
      <3>1. k # 0 /\ k * 1 = k /\ k * (-1) = 0 - k
        OBVIOUS
      <3> QED BY <1>1, <3>1
    <2>3. k * StepY \in Int /\ k * StepX \in Int
      BY <1>1
    <2> QED BY <1>1, <2>1, <2>2, <2>3 DEF x, y
  <1>6. ASSUME NEW j \in 1 .. n, NEW k \in 1 .. n, r[j] = r[k]
        PROVE  j = k
    <2>1. y + j * StepY = y + k * StepY /\ x + j * StepX = x + k * StepX
      BY <1>2, <1>3, <1>6
    <2>2. /\ j * 1 = j /\ j * (-1) = 0 - j /\ k * 1 = k /\ k * (-1) = 0 - k
      OBVIOUS
    <2>3. CASE StepY # 0
      <3>1. StepY = 1 \/ StepY = -1
        BY <1>1, <2>3
      <3> QED BY <1>1, <2>1, <2>2, <3>1
    <2>4. CASE StepX # 0
      <3>1. StepX = 1 \/ StepX = -1
        BY <1>1, <2>4
      <3> QED BY <1>1, <2>1, <2>2, <3>1
    <2> QED BY <1>1, <2>3, <2>4
  <1>7. Simple(r)
    BY <1>3, <1>4, <1>5, <1>6 DEF Simple, Walkable
  <1>8. \A k \in 1 .. n : /\ r[k] = PushedTo(k) /\ Enterable(r[k])
                          /\ Row(r[k]) = y + k * StepY /\ Column(r[k]) = x + k * StepX
    BY <1>2, <1>3
  <1> QED BY <1>3, <1>7, <1>8 DEF r, x, y

\* A push goes straight on to an obstacle or its distance, and a slide reaches
\* where it ends at no greater cost.
LEMMA PushIsStraight ==
    ASSUME LeastInv, frontier = {}
    PROVE  StraightPush
  <1> DEFINE reach == board.reach
             r     == PushRoute(reach)
             ax(c) == Column(c) - Column(board.source)
             ay(c) == Row(c) - Row(board.source)
             size(v) == IF v < 0 THEN -v ELSE v
             aligned == 0 \in {ax(board.origin), ay(board.origin)}
  <1>1. board \in Boards /\ reach \in Nat
    BY BoardAssumption DEF LeastInv, SearchInv, SearchTypes
  <1>2. /\ board.origin \in Cells /\ board.source \in Cells
        /\ StepX \in {-1, 0, 1} /\ StepY \in {-1, 0, 1}
        /\ StepX = 1 <=> ax(board.origin) > 0
        /\ StepX = -1 <=> ax(board.origin) < 0
        /\ StepY = 1 <=> ay(board.origin) > 0
        /\ StepY = -1 <=> ay(board.origin) < 0
        /\ ~ (StepX = 0 /\ StepY = 0)
        /\ \A c \in Cells : ax(c) \in Int /\ ay(c) \in Int
    <2>1. \A c \in Cells : Row(c) \in Int /\ Column(c) \in Int
      BY CellOfRowAndColumn
    <2> QED BY <1>1, <2>1, StepSigns
  <1>3. CASE ~ aligned
    <2>1. StepX # 0 /\ StepY # 0
      BY <1>2, <1>3
    <2>2. r = <<>>
      BY <2>1 DEF PushRoute
    <2> QED BY <1>3, <2>2 DEF StraightPush
  <1>4. CASE aligned
    <2>1. (StepX = 0) # (StepY = 0)
      BY <1>2, <1>4
    <2>2. PICK n \in 0 .. reach :
              /\ r = [k \in 1 .. n |-> PushedTo(k)]
              /\ \A k \in 1 .. n : CanBePushed(k)
              /\ n < reach => ~ CanBePushed(n + 1)
      BY <1>1, <2>1, PushEnters
    <2>3. /\ Simple(r) /\ Len(r) = n /\ r \in Seq(Cells) /\ DOMAIN r = 1 .. n
          /\ \A k \in 1 .. n : /\ r[k] = PushedTo(k) /\ Enterable(r[k]) /\ r[k] \in Cells
                               /\ Row(r[k]) = Row(board.origin) + k * StepY
                               /\ Column(r[k]) = Column(board.origin) + k * StepX
      <3>1. n \in Nat
        BY <1>1
      <3>2. /\ Simple(r) /\ Len(r) = n
            /\ \A k \in 1 .. n : /\ r[k] = PushedTo(k) /\ Enterable(r[k])
                                 /\ Row(r[k]) = Row(board.origin) + k * StepY
                                 /\ Column(r[k]) = Column(board.origin) + k * StepX
        BY <1>1, <2>1, <2>2, <3>1, PushIsSimple
      <3>3. r \in Seq(Cells)
        BY <3>2 DEF Simple
      <3> HIDE DEF r
      <3> QED BY <3>1, <3>2, <3>3
    <2> HIDE DEF r, reach
    <2>4. ASSUME NEW k \in 1 .. n
          PROVE  /\ ax(r[k]) = ax(board.origin) + k * StepX
                 /\ ay(r[k]) = ay(board.origin) + k * StepY
      <3>1. \A c \in Cells : Row(c) \in Int /\ Column(c) \in Int
        BY CellOfRowAndColumn
      <3>2. k * StepX \in Int /\ k * StepY \in Int
        BY <1>2
      <3>3. /\ Row(r[k]) = Row(board.origin) + k * StepY
            /\ Column(r[k]) = Column(board.origin) + k * StepX
        BY <2>3
      <3>4. /\ Row(board.origin) \in Int /\ Row(board.source) \in Int
            /\ Column(board.origin) \in Int /\ Column(board.source) \in Int
        BY <1>2, <3>1
      <3> QED BY <3>2, <3>3, <3>4
    <2> DEFINE e == End(r)
    <2>5. /\ e \in Cells /\ ax(e) = ax(board.origin) + n * StepX
          /\ ay(e) = ay(board.origin) + n * StepY
      <3>1. CASE n = 0
        <4>1. r = <<>>
          BY <2>3, <3>1
        <4>2. e = board.origin
          BY <4>1 DEF End
        <4> HIDE DEF e
        <4> QED BY <1>2, <3>1, <4>2
      <3>2. CASE n # 0
        <4>1. n \in 1 .. n /\ r # <<>>
          BY <1>1, <2>3, <3>2
        <4>2. e = r[n]
          BY <2>3, <4>1 DEF End
        <4> HIDE DEF e
        <4> QED BY <2>3, <2>4, <4>1, <4>2
      <3> QED BY <3>1, <3>2
    <2> HIDE DEF e, ax, ay
    <2>6. ASSUME NEW k \in 1 .. n
          PROVE  /\ 0 \in {ax(r[k]), ay(r[k])}
                 /\ size(ax(r[k])) + size(ay(r[k]))
                       = size(ax(board.origin)) + size(ay(board.origin)) + k
      <3>1. k * 0 = 0 /\ k * 1 = k /\ k * (-1) = 0 - k /\ k \in Nat /\ k > 0
        OBVIOUS
      <3> QED BY <1>2, <1>4, <2>4, <3>1
    <2>7. ASSUME n < reach, NEW c \in Neighbours(e), Enterable(c), 0 \in {ax(c), ay(c)},
                 size(ax(c)) + size(ay(c)) = size(ax(e)) + size(ay(e)) + 1
          PROVE  FALSE
      <3>1. n \in Nat /\ n * 0 = 0 /\ n * 1 = n /\ n * (-1) = 0 - n
            /\ (n + 1) * 0 = 0 /\ (n + 1) * 1 = n + 1 /\ (n + 1) * (-1) = 0 - n - 1
        BY <1>1
      <3>2. /\ c \in Cells
            /\ \/ Row(c) = Row(e) /\ Column(c) \in {Column(e) - 1, Column(e) + 1}
               \/ Column(c) = Column(e) /\ Row(c) \in {Row(e) - 1, Row(e) + 1}
        BY DEF Neighbours
      <3>3. \A d \in {c, e, board.origin, board.source} :
               /\ Row(d) \in 0 .. BoardHeight - 1 /\ Column(d) \in 0 .. BoardWidth - 1
               /\ Row(d) \in Int /\ Column(d) \in Int
               /\ ax(d) = Column(d) - Column(board.source)
               /\ ay(d) = Row(d) - Row(board.source)
        <4>1. \A d \in Cells : /\ Row(d) \in 0 .. BoardHeight - 1
                               /\ Column(d) \in 0 .. BoardWidth - 1
          BY CellOfRowAndColumn
        <4>2. \A d \in {c, e, board.origin, board.source} : d \in Cells
          BY <1>2, <2>5, <3>2
        <4> QED BY <4>1, <4>2 DEF ax, ay
      <3>4. \/ ay(c) = ay(e) /\ ax(c) \in {ax(e) - 1, ax(e) + 1}
            \/ ax(c) = ax(e) /\ ay(c) \in {ay(e) - 1, ay(e) + 1}
        BY <3>2, <3>3
      <3>5. /\ ax(c) = ax(board.origin) + (n + 1) * StepX
            /\ ay(c) = ay(board.origin) + (n + 1) * StepY
        <4>1. CASE StepX = 0
          <5>1. ax(board.origin) = 0 /\ ax(e) = 0 /\ ay(board.origin) # 0
            BY <1>2, <2>5, <3>1, <4>1
          <5>2. CASE StepY = 1
            BY <1>2, <2>5, <2>7, <3>1, <3>4, <4>1, <5>1, <5>2
          <5>3. CASE StepY = -1
            BY <1>2, <2>5, <2>7, <3>1, <3>4, <4>1, <5>1, <5>3
          <5> QED BY <1>2, <2>1, <4>1, <5>2, <5>3
        <4>2. CASE StepY = 0
          <5>1. ay(board.origin) = 0 /\ ay(e) = 0 /\ ax(board.origin) # 0
            BY <1>2, <2>5, <3>1, <4>2
          <5>2. CASE StepX = 1
            BY <1>2, <2>5, <2>7, <3>1, <3>4, <4>2, <5>1, <5>2
          <5>3. CASE StepX = -1
            BY <1>2, <2>5, <2>7, <3>1, <3>4, <4>2, <5>1, <5>3
          <5> QED BY <1>2, <2>1, <4>2, <5>2, <5>3
        <4> QED BY <2>1, <4>1, <4>2
      <3>6. /\ Column(c) = Column(board.origin) + (n + 1) * StepX
            /\ Row(c) = Row(board.origin) + (n + 1) * StepY
        <4>1. (n + 1) * StepX \in Int /\ (n + 1) * StepY \in Int
          BY <1>2, <3>1
        <4> QED BY <3>3, <3>5, <4>1
      <3>7. n + 1 \in Nat /\ OnBoard(n + 1)
        BY <3>1, <3>3, <3>6 DEF OnBoard
      <3>8. /\ PushedTo(n + 1) \in Cells
            /\ Row(PushedTo(n + 1)) = Row(c) /\ Column(PushedTo(n + 1)) = Column(c)
        BY <1>1, <3>6, <3>7, PushedPlace
      <3>9. PushedTo(n + 1) = c
        BY <3>2, <3>8, CellOfRowAndColumn
      <3>10. CanBePushed(n + 1)
        BY <2>7, <3>7, <3>9 DEF CanBePushed, OnBoard
      <3> QED BY <2>2, <2>7, <3>10
    <2>8. ASSUME CostOf(r) <= reach
          PROVE  e \in DOMAIN best /\ best[e].cost <= CostOf(r)
      <3>1. n \in 0 .. Len(r) /\ SubSeq(r, 1, n) = r
        BY <1>1, <2>3
      <3>2. e \in DOMAIN best /\ ~ Before(Part(r, n), best[e])
        BY <2>3, <2>8, <3>1, PartsAreReached DEF e, reach
      <3>3. Part(r, n).cost = CostOf(r) /\ CostOf(r) \in Nat
        BY <1>1, <1>2, <2>3, <3>1, CostOfAppend DEF Part
      <3>4. best[e].cost \in Nat
        BY <3>2 DEF LeastInv, SearchInv, SearchTypes, Candidates
      <3>5. ~ (CostOf(r) < best[e].cost)
        BY <3>2, <3>3 DEF Before
      <3> QED BY <3>2, <3>3, <3>4, <3>5
    <2> QED BY <1>4, <2>3, <2>6, <2>7, <2>8 DEF StraightPush, r, reach, e, ax, ay
  <1> QED BY <1>3, <1>4

\* The search ends with the least route to each cell within the bound and to no
\* other cell, and a push takes one of the routes there are, on every board, with
\* all costs and obstacles (movement_paths, push_path).
THEOREM RoutesAreFound == SearchSpec => []RoutesAreLeast
  <1>1. SearchInit => LeastInv
    BY LeastInitially
  <1>2. LeastInv /\ [Explore]_routeVars => LeastInv'
    BY ExploreKeepsLeast, LeastStutters
  <1>3. LeastInv => RoutesAreLeast
    BY LeastAreFound, PushIsStraight DEF RoutesAreLeast
  <1> QED BY <1>1, <1>2, <1>3, PTL DEF SearchSpec
===============================================================================
