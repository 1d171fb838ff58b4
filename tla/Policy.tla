------------------------------- MODULE Policy -------------------------------
(***************************************************************************)
(* How a routing policy weighs the rewards of the primary providers        *)
(* (api/mab/router.py, reward.py, state.py).  Softmax is monotone: of two  *)
(* providers the one with the higher adjusted weight is the likelier, so   *)
(* the adjusted weights, in tenths, stand for the probabilities.           *)
(*                                                                         *)
(* A z-score is a whole number of standard deviations.  All signs occur:   *)
(* an observation above its average has a positive one, and the very first *)
(* latency of a provider, against the average 0, one of about 3.           *)
(***************************************************************************)
EXTENDS Integers

CONSTANT ZScore   \* z-scores that occur, a set of integers

Primary == {"groq", "openrouter"}
Policies == {"latency-first", "cost-first", "sla-aware", "quality-first"}

VARIABLES
    weight,  \* mab:weights:{provider}, twice its value; Default without the key
    policy   \* the policy of the requests

vars == <<weight, policy>>

Default == 2

\* In tenths.
Multiplier(pol) ==
    CASE pol = "latency-first" -> [groq |-> 30, openrouter |-> 3]
      [] pol = "cost-first"    -> [groq |-> 3,  openrouter |-> 30]
      [] pol = "sla-aware"     -> [groq |-> 10, openrouter |-> 10]
      [] pol = "quality-first" -> [groq |-> 8,  openrouter |-> 30]

\* Twice alpha * quality - beta * latency - gamma * cost, for 1.0, 0.5, 0.5.
Reward(quality, latency, cost) == 2 * quality - latency - cost

Adjusted(p) == weight[p] * Multiplier(policy)[p]

Init ==
    /\ weight = [p \in Primary |-> Default]
    /\ policy \in Policies

\* The last command of update_mab_weights.
Learn(p) ==
    /\ \E quality, latency, cost \in ZScore :
          weight' = [weight EXCEPT ![p] = Reward(quality, latency, cost)]
    /\ UNCHANGED policy

Evict(p) ==
    /\ weight' = [weight EXCEPT ![p] = Default]
    /\ UNCHANGED policy

Next == \E p \in Primary : Learn(p) \/ Evict(p)

Spec == Init /\ [][Next]_vars

-----------------------------------------------------------------------------
\* What the comment on the multipliers says: of two providers with the same
\* reward the policy routes to the one that it favours.
PolicyDecides ==
    \A p, q \in Primary :
        weight[p] = weight[q] /\ Multiplier(policy)[p] >= Multiplier(policy)[q] =>
            Adjusted(p) >= Adjusted(q)
=============================================================================
