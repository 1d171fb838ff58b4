------------------------------ MODULE Breaker ------------------------------
(***************************************************************************)
(* The circuit breaker as the docstrings of api/circuit_breaker.py promise *)
(* it: recording a failure and recording a success are atomic, a breach of *)
(* the threshold opens the circuit, a success closes it and clears the     *)
(* counter, and the counter may lapse at the end of its window.            *)
(*                                                                         *)
(* It promises nothing about a provider for which several outcomes are     *)
(* being recorded at once, nor across a mishap: a recorder that dies, a    *)
(* key that Redis drops.                                                   *)
(***************************************************************************)
EXTENDS Naturals

CONSTANTS Provider, Threshold

VARIABLES
    state,
    failures,
    contended,   \* the providers with several recorders at work
    mishaps      \* how many there were

bvars == <<state, failures, contended, mishaps>>

Init ==
    /\ state     = [p \in Provider |-> "ABSENT"]
    /\ failures  = [p \in Provider |-> 0]
    /\ contended = {}
    /\ mishaps   = 0

Free(p)      == p \notin contended /\ p \notin contended'
Leaves(p, s) == Free(p) => state'[p] = s

\* The step is about p; the states of the other providers stay.
Others(p) ==
    /\ state' \in [Provider -> {"ABSENT", "CLOSED", "OPEN"}]
    /\ \A q \in Provider \ {p} : Leaves(q, state[q])

RecordFailure(p) ==
    /\ failures' = [failures EXCEPT ![p] = @ + 1]
    /\ Leaves(p, IF failures[p] + 1 >= Threshold THEN "OPEN"
                 ELSE IF state[p] = "ABSENT" THEN "CLOSED" ELSE state[p])
    /\ Others(p)
    /\ UNCHANGED mishaps

RecordSuccess(p) ==
    /\ failures' = [failures EXCEPT ![p] = 0]
    /\ Leaves(p, "CLOSED")
    /\ Others(p)
    /\ UNCHANGED mishaps

WindowEnds(p) ==
    /\ failures' = [failures EXCEPT ![p] = 0]
    /\ Leaves(p, state[p])
    /\ Others(p)
    /\ UNCHANGED mishaps

\* Recorders overlap, or one of those that overlap goes on.
Contend(p) ==
    /\ Leaves(p, state[p])
    /\ Others(p)
    /\ UNCHANGED <<failures, mishaps>>

Mishap(p) ==
    /\ mishaps' = mishaps + 1
    /\ failures' \in {failures, [failures EXCEPT ![p] = 0]}
    /\ Others(p)

Next == \E p \in Provider : \/ RecordFailure(p) \/ RecordSuccess(p) \/ WindowEnds(p)
                            \/ Contend(p) \/ Mishap(p)

Spec == Init /\ [][Next]_bvars
=============================================================================
