-------------------------- MODULE MCCircuitBreaker --------------------------
(* Instances of CircuitBreaker for TLC.                                    *)
EXTENDS CircuitBreaker, TLC

\* Flows are interchangeable, and so are the primaries: no definition
\* distinguishes them.
Interchangeable == Permutations(Flow) \cup Permutations(Primary)

\* The most favourable world for a recovery: requests keep arriving, and a
\* provider that is called again and again answers again and again.
Demand ==
    /\ \A r \in Flow : WF_vars(Start(r))
    /\ \A r \in Flow, p \in Provider : SF_vars(prov[r] = p /\ CallSucceeds(r))

DemandSpec == FairSpec /\ Demand
=============================================================================
