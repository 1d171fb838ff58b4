----------------------------- MODULE MCInference -----------------------------
(* Instances of Inference for TLC.                                         *)
EXTENDS Inference, TLC

\* Requests are interchangeable, and so are prompts.
Interchangeable == Permutations(Req) \cup Permutations(Prompt)
=============================================================================
