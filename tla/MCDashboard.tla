---------------------------- MODULE MCDashboard ----------------------------
(* Instances of Dashboard for TLC.                                         *)
EXTENDS Dashboard, TLC

\* Visitors are interchangeable.
Interchangeable == Permutations(Session)
=============================================================================
