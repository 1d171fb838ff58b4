-------------------------- MODULE ParetoFrontProofs --------------------------
(***************************************************************************)
(* The dashboard's loop computes the Pareto front, of cost and latency, of *)
(* any number of configurations with any averages.                         *)
(***************************************************************************)
EXTENDS ParetoFront, TLAPS

Settled == TypeOK /\ PrefixSettled

\* A member of the front is dominated by nobody, and only by nobody.
LEMMA FrontIsUndominated ==
    ASSUME TypeOK, NEW k \in Config
    PROVE  k \in Front <=> ~\E j \in Config : Dominates(j, k)
<1>1. \A j \in Config : /\ costs[j] \in Int /\ latencies[j] \in Int
                        /\ costs[k] \in Int /\ latencies[k] \in Int
  BY ParetoAssumption DEF TypeOK, Config
<1>2. \A j \in Config : Dominates(j, k) <=>
          ~(/\ costs[j] < costs[k] => latencies[j] > latencies[k]
            /\ latencies[j] < latencies[k] => costs[j] > costs[k])
  BY <1>1 DEF Dominates
<1> QED
  BY <1>2 DEF Front

\* One iteration keeps the types and the settled prefix.
LEMMA SettledStep == Settled /\ [Next]_vars => Settled'
<1> SUFFICES ASSUME Settled, [Next]_vars PROVE Settled'
  OBVIOUS
<1> USE ParetoAssumption DEF Settled, TypeOK, Config
<1>1. CASE UNCHANGED vars
  BY <1>1 DEF vars, PrefixSettled, Front
<1>2. CASE Visit
  <2>1. i \in Config /\ i' = i + 1 /\ UNCHANGED <<costs, latencies, errors>>
    BY <1>2 DEF Visit, InRange
  <2>2. Front' = Front
    BY <2>1 DEF Front
  <2>3. ASSUME i \notin efficient, UNCHANGED efficient PROVE Settled'
    BY <2>1, <2>2, <2>3 DEF PrefixSettled
  <2>4. ASSUME i \in efficient, \E j \in Config : Dominates(j, i),
               efficient' = efficient \ {i}
        PROVE  Settled'
    <3>1. i \notin Front
      BY <2>1, <2>4, FrontIsUndominated
    <3>2. efficient' \subseteq efficient
      BY <2>4
    <3>3. TypeOK'
      BY <2>1, <3>2
    <3>4. PrefixSettled'
      BY <2>1, <2>2, <2>4, <3>1 DEF PrefixSettled
    <3> QED
      BY <3>3, <3>4
  <2>5. ASSUME i \in efficient, ~\E j \in Config : Dominates(j, i),
               efficient' = {j \in efficient : ~Dominates(i, j)}
        PROVE  Settled'
    <3>1. i \in Front
      BY <2>1, <2>5, FrontIsUndominated
    <3>2. \A j \in Front : ~Dominates(i, j)
      BY <2>1, FrontIsUndominated DEF Front
    <3>3. TypeOK'
      <4>1. efficient' \subseteq efficient
        BY <2>5
      <4> QED
        BY <2>1, <4>1
    <3>4. Front' \subseteq efficient'
      BY <2>2, <2>5, <3>2 DEF PrefixSettled
    <3>5. ASSUME NEW k \in efficient', k < i' PROVE k \in Front'
      <4>1. k \in efficient /\ (k < i \/ k = i)
        BY <2>1, <2>5, <3>5
      <4> QED
        BY <2>2, <3>1, <4>1 DEF PrefixSettled
    <3>6. PrefixSettled'
      BY <3>4, <3>5 DEF PrefixSettled
    <3> QED
      BY <3>3, <3>6
  <2> QED
    BY <1>2, <2>3, <2>4, <2>5 DEF Visit
<1> QED
  BY <1>1, <1>2 DEF Next

\* The types and the settled prefix hold throughout the loop.
LEMMA SettledInvariant == Spec => []Settled
<1>1. Init => Settled
  BY ParetoAssumption DEF Init, Settled, TypeOK, PrefixSettled, Front, Config
<1> QED
  BY <1>1, SettledStep, PTL DEF Spec

\* Every variable of the loop keeps its type.
THEOREM Typing == Spec => []TypeOK
<1>1. Settled => TypeOK
  BY DEF Settled
<1> QED
  BY <1>1, SettledInvariant, PTL

\* One pass is enough: at any time the front still stands whole, and whatever
\* stands before the loop's index is on it.
THEOREM OnePass == Spec => []PrefixSettled
<1>1. Settled => PrefixSettled
  BY DEF Settled
<1> QED
  BY <1>1, SettledInvariant, PTL

\* For every input the loop ends with exactly the Pareto front of the two axes it
\* compares; the error rates do not enter.
THEOREM ExactFront == Spec => []FrontIsExact
<1>1. Settled => FrontIsExact
  <2> SUFFICES ASSUME Settled, i = N + 1 PROVE efficient = Front
    BY DEF FrontIsExact
  <2>1. \A k \in efficient : k < i
    BY ParetoAssumption DEF Settled, TypeOK, Config
  <2> QED
    BY <2>1 DEF Settled, PrefixSettled
<1> QED
  BY <1>1, SettledInvariant, PTL
=============================================================================
