--------------------------- MODULE MCInferenceLog ---------------------------
(* Instances of InferenceLog for TLC.                                      *)
EXTENDS InferenceLog

CONSTANTS r1, r2, i1, i2

\* Two requests that share an id, two that do not, one with a malformed id:
\* up to names, all that two requests with a well-formed id among them can have.
Headers == {[r \in Req |-> i1],
            [r \in Req |-> IF r = r1 THEN i1 ELSE i2],
            [r \in Req |-> IF r = r1 THEN i1 ELSE None]}

Retries == [log |-> 1, quality |-> 1, safety |-> 1]

\* The tables of the two migrations, of models.py, and one with every column.
Deployments == {{"model"}, {"quality_score"}, {"model", "quality_score", "safety_flagged"}}
=============================================================================
