------------------------------ MODULE MCPolicy ------------------------------
(* Instances of Policy for TLC.                                            *)
EXTENDS Policy

Z == -1 .. 3
=============================================================================
