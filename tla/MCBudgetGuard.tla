---------------------------- MODULE MCBudgetGuard ----------------------------
(* Instances of BudgetGuard for TLC.                                       *)
EXTENDS BudgetGuard, TLC

\* Requests of one client are interchangeable.
Interchangeable == Permutations(Req)
=============================================================================
