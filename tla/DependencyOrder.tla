---------------------------- MODULE DependencyOrder ----------------------------
(***************************************************************************)
(* The order in which derived ruleset values are computed                  *)
(* (crates/rpg-compiler/src/artifact.rs, compile_ruleset_value_plan): of   *)
(* the targets whose reads have all been placed, the least comes next.     *)
(***************************************************************************)
EXTENDS Integers, Sequences, FiniteSets

CONSTANT Keys \* ruleset value keys, in their order

ASSUME KeysAssumption == Keys \subseteq Nat /\ IsFiniteSet(Keys)

VARIABLES
    dependencies, \* what each derived value reads, other derived values only
    remaining,    \* remaining_dependency_count
    ready,        \* targets that wait for nothing
    order         \* the plan so far

orderVars == <<dependencies, remaining, ready, order>>

Placed == {order[k] : k \in DOMAIN order}

First(S) == CHOOSE k \in S : \A j \in S : k <= j

StartOrder(reads) ==
    /\ dependencies' = reads
    /\ remaining' = [t \in DOMAIN reads |-> Cardinality(reads[t])]
    /\ ready' = {t \in DOMAIN reads : Cardinality(reads[t]) = 0}
    /\ order' = <<>>

\* Mutant: a dependent is ready as soon as one of its reads has been placed.
PlaceEager ==
    /\ ready # {}
    /\ order' = Append(order, First(ready))
    /\ remaining' = [t \in DOMAIN remaining |->
                       IF First(ready) \in dependencies[t] THEN remaining[t] - 1
                                                           ELSE remaining[t]]
    /\ ready' = (ready \ {First(ready)})
                  \cup {t \in DOMAIN remaining : First(ready) \in dependencies[t]}
    /\ UNCHANGED dependencies

\* ready.pop_first, and the dependents it was the last read of.
PlaceFirst ==
    /\ ready # {}
    /\ order' = Append(order, First(ready))
    /\ remaining' = [t \in DOMAIN remaining |->
                       IF First(ready) \in dependencies[t] THEN remaining[t] - 1
                                                           ELSE remaining[t]]
    /\ ready' = (ready \ {First(ready)})
                  \cup {t \in DOMAIN remaining : /\ First(ready) \in dependencies[t]
                                                 /\ remaining[t] = 1}
    /\ UNCHANGED dependencies

Ordered == ready = {}

\* Fewer targets placed than there are: a cycle.
Cyclic == Len(order) # Cardinality(DOMAIN dependencies)

\* One ruleset after another.  Only reads of other derived values are kept.
OrderInit == dependencies = <<>> /\ remaining = <<>> /\ ready = {} /\ order = <<>>

Start == \E targets \in SUBSET Keys :
            \E reads \in [targets -> SUBSET targets] : StartOrder(reads)

OrderSpec == OrderInit /\ [][Start \/ PlaceFirst]_orderVars

-------------------------------------------------------------------------------
(* Properties. *)

\* A derived value is placed once, and only after every derived value it
\* reads: evaluation, which follows the order, finds each of them computed.
ReadsPlacedFirst ==
    \A k \in DOMAIN order :
        /\ \A j \in DOMAIN order : order[j] = order[k] => j = k
        /\ \A read \in dependencies[order[k]] : \E j \in 1 .. k - 1 : order[j] = read

\* Derived values each of which reads one of them.
Circular ==
    \E S \in SUBSET DOMAIN dependencies :
        S # {} /\ \A t \in S : dependencies[t] \cap S # {}

\* When nothing is ready any more, the count of the plan tells whether there is
\* a cycle: it is short exactly if some values wait for each other.
ShortPlanIsCircular == Ordered => (Cyclic <=> Circular)
===============================================================================
