----------------------------- MODULE ParetoFront -----------------------------
(***************************************************************************)
(* The dashboard's Pareto front (dashboard/pareto.py): one pass over the   *)
(* configurations (provider, policy) that drops, at each one still         *)
(* standing, either it or everything it dominates.  A step of this module  *)
(* is an iteration of the loop; the averages are the input.  The code also *)
(* averages the errors of each configuration, and never compares them.     *)
(***************************************************************************)
EXTENDS Integers, FiniteSets

CONSTANTS
    N,         \* number of configurations
    MaxCost,   \* bound: average costs are in 0 .. MaxCost
    MaxLatency, \* bound: average latencies are in 0 .. MaxLatency
    MaxErrors  \* bound: error rates are in 0 .. MaxErrors

ASSUME ParetoAssumption ==
    N \in Nat /\ MaxCost \in Nat /\ MaxLatency \in Nat /\ MaxErrors \in Nat

Config == 1 .. N

VARIABLES
    costs,      \* average cost of each configuration
    latencies,  \* average latency of each configuration
    errors,     \* error rate of each configuration
    efficient,  \* the configurations is_efficient holds for
    i           \* the loop's index

vars == <<costs, latencies, errors, efficient, i>>

Init ==
    /\ costs     \in [Config -> 0 .. MaxCost]
    /\ latencies \in [Config -> 0 .. MaxLatency]
    /\ errors    \in [Config -> 0 .. MaxErrors]
    /\ efficient = Config
    /\ i = 1

StrictlyBelow(a, b) == costs[a] < costs[b] /\ latencies[a] < latencies[b]
NowhereAbove(a, b)  == costs[a] <= costs[b] /\ latencies[a] <= latencies[b]

Dominates(a, b) ==
    /\ costs[a] <= costs[b] /\ latencies[a] <= latencies[b]
    /\ costs[a] < costs[b] \/ latencies[a] < latencies[b]

BeyondLast == i <= N + 1
InRange    == i <= N

\* The code tests i against every configuration, dropped ones included.
Visit ==
    /\ InRange
    /\ i' = i + 1
    /\ \/ /\ i \notin efficient
          /\ UNCHANGED efficient
       \/ /\ i \in efficient
          /\ \E j \in Config : Dominates(j, i)
          /\ efficient' = efficient \ {i}
       \/ /\ i \in efficient
          /\ ~\E j \in Config : Dominates(j, i)
          /\ efficient' = {j \in efficient : ~Dominates(i, j)}
    /\ UNCHANGED <<costs, latencies, errors>>

Next == Visit

Spec == Init /\ [][Next]_vars

-----------------------------------------------------------------------------
(* Properties.                                                             *)

\* Every variable of the loop keeps its type.
TypeOK ==
    /\ costs     \in [Config -> 0 .. MaxCost]
    /\ latencies \in [Config -> 0 .. MaxLatency]
    /\ errors    \in [Config -> 0 .. MaxErrors]
    /\ efficient \subseteq Config
    /\ i \in 1 .. N + 1

\* The textbook definition, on the two axes the loop compares: on the front,
\* whoever is cheaper is slower and whoever is faster is dearer.
Front == {k \in Config : \A j \in Config :
            /\ costs[j] < costs[k] => latencies[j] > latencies[k]
            /\ latencies[j] < latencies[k] => costs[j] > costs[k]}

\* At the end of the loop the early elimination has dropped exactly the
\* configurations that are not on the front of cost and latency, ties kept.
FrontIsExact == i = N + 1 => efficient = Front

\* No iteration has to be revisited: the front still stands whole, and
\* everything before the index that stands is on it.
PrefixSettled ==
    /\ Front \subseteq efficient
    /\ \A k \in efficient : k < i => k \in Front

\* Dominance as the project's trade-off rules define it: equal or better in
\* cost, latency and reliability, and strictly better in one of them.
DominatesReliably(a, b) ==
    /\ NowhereAbove(a, b) /\ errors[a] <= errors[b]
    /\ Dominates(a, b) \/ errors[a] < errors[b]

\* What those rules ask of the front: a configuration that no other dominates on
\* all three is never filtered out, however many are cheaper and faster.
FrontKeepsReliable ==
    \A k \in Config :
        (~\E j \in Config : DominatesReliably(j, k)) => k \in efficient
=============================================================================
