------------------------------ MODULE Messages ------------------------------
(***************************************************************************)
(* What _fire_post_response_tasks (api/routers/infer.py) publishes after a *)
(* provider has answered, and in which order.  All of it is inside one     *)
(* try: the first message the broker refuses is the last one tried, so     *)
(* that the workers get one of the Prefixes of these.                      *)
(*                                                                         *)
(* An answer is an error, a text, or blank (a success with an empty text). *)
(***************************************************************************)
EXTENDS Integers, Sequences, SequencesExt

Answer == {"error", "text", "blank"}

HasAnswer(a) == a # "error"
HasText(a)   == a = "text"

Only(condition, message) == IF condition THEN <<message>> ELSE <<>>

BothUpdates(sampled, unsure) == Only(sampled, "quality") \o <<"mab">>

\* A sampled answer is judged first.  A quality message that cannot be
\* published becomes an update at once: that is the same as not sampling,
\* unless the broker took it and only its reply was lost (unsure).
Feedback(sampled, unsure) ==
    IF ~sampled THEN <<"mab">>
    ELSE IF unsure THEN <<"quality", "mab">> ELSE <<"quality">>

ChargeFirst(a, sampled, unsure, paid, checked) ==
    Only(paid, "budget") \o <<"log">> \o Feedback(sampled, unsure)
        \o Only(HasText(a), "cache") \o Only(checked, "safety")
        \o Only(HasText(a), "trace")

Messages(a, sampled, unsure, paid, checked) ==
    <<"log">> \o Feedback(sampled, unsure)
        \o Only(HasText(a), "cache") \o Only(paid, "budget")
        \o Only(checked, "safety") \o Only(HasText(a), "trace")
=============================================================================
