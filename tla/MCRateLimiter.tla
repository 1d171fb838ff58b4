---------------------------- MODULE MCRateLimiter ----------------------------
(* Instances of RateLimiter for TLC.                                       *)
EXTENDS RateLimiter, TLC

\* Requests of one client are interchangeable.
Interchangeable == Permutations(Slot)
=============================================================================
