---------------------------- MODULE TransactionLog ----------------------------
(***************************************************************************)
(* What an authority session promises its host: a log of transactions that *)
(* only grows, at most one of them waiting for a decision, and nothing     *)
(* committed between the moment a transaction starts to wait and the       *)
(* moment it is committed.  The die values a transaction had when it       *)
(* started to wait are the first ones it is committed with.                *)
(***************************************************************************)
EXTENDS Naturals, Sequences

CONSTANTS Actors, \* who may author a transaction
          Kinds,  \* the actions and controls a transaction may perform
          Dice    \* die values

VARIABLES committed, \* accepted transactions, oldest first
          waiting    \* the suspended transaction: {} or a singleton

Transactions == [actor : Actors, kind : Kinds, evidence : Seq(Dice)]

Suspensions == [actor : Actors, kind : Kinds, evidence : Seq(Dice), base : Nat]

IsStart(s, t) == /\ Len(s) <= Len(t)
                 /\ \A k \in 1 .. Len(s) : s[k] = t[k]

Init == committed = <<>> /\ waiting = {}

\* Any transaction may start to wait; it remembers what it was based on.
Suspend ==
    /\ waiting = {}
    /\ \E w \in waiting' : /\ w \in Suspensions
                           /\ w.base = Len(committed)
                           /\ waiting' = {w}
    /\ UNCHANGED committed

\* A transaction that waits is the one that commits next.
Commit ==
    /\ Len(committed') = Len(committed) + 1
    /\ LET x == committed'[Len(committed')]
       IN  /\ x \in Transactions
           /\ committed' = Append(committed, x)
           /\ \A w \in waiting : /\ w.base = Len(committed)
                                 /\ w.actor = x.actor
                                 /\ w.kind = x.kind
                                 /\ IsStart(w.evidence, x.evidence)
    /\ waiting' = {}

Next == Suspend \/ Commit

Spec == Init /\ [][Next]_<<committed, waiting>>
===============================================================================
