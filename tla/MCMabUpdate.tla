----------------------------- MODULE MCMabUpdate -----------------------------
(* Instances of MabUpdate for TLC.                                         *)
EXTENDS MabUpdate, TLC

\* Messages are interchangeable.
Interchangeable == Permutations(Task)

OneMetric  == <<"latency">>
=============================================================================
