---------------------------- MODULE InferenceLog ----------------------------
(***************************************************************************)
(* The rows of inference_logs: the tasks that write them                   *)
(* (log_inference_telemetry, run_quality_eval, run_hallucination_check) on *)
(* whatever the route has published, in any order, with retries, crashes   *)
(* and redelivery.                                                         *)
(*                                                                         *)
(* A request brings its own id (X-Request-ID), so two requests may share   *)
(* one and an id need not be a UUID: None stands for those that are not.   *)
(* The table has the columns of the migrations, of models.py, or of both;  *)
(* a statement that names another one fails whenever it is tried.          *)
(***************************************************************************)
EXTENDS Integers, Sequences, SequencesExt, FiniteSets, Messages

CONSTANTS
    Req,         \* requests
    Ids,         \* the ways in which requests may come by their ids
    Schemas,     \* sets of columns that inference_logs may have
    MaxRetries,  \* max_retries of each kind of task
    MaxFaults,   \* bound: failed attempts and worker deaths
    MaxMessages  \* bound: messages of the kinds below that a request publishes

None == "none"
Kind == {"log", "quality", "safety"}

ASSUME InferenceLogAssumption ==
    /\ None \notin Req
    /\ \A f \in Ids : DOMAIN f = Req
    /\ MaxRetries \in [Kind -> Nat]
    /\ MaxFaults \in Nat /\ MaxMessages \in Nat

VARIABLES
    id,      \* the request id of each request, None for a malformed one
    columns, \* those of inference_logs that not every schema has
    out,     \* whether the request has published its messages
    task,    \* where each task is
    retries, \* self.request.retries
    rows,    \* the rows each request has inserted
    judged,  \* how often its answer has been judged
    told,    \* the scores sent to the bandit: 0 for the route's 1.0
    asked,   \* how often the safety model was asked about it
    faults,  \* bound counter
    early    \* history: the last UPDATE failed or preceded an INSERT to come

request == <<id, columns, out>>
queue   == <<task, retries>>
effects == <<rows, judged, told, asked>>
vars    == <<request, queue, effects, faults, early>>

\* What a task has done last; it is acknowledged after "ran".
Busy     == {"queued", "judged", "scored", "asked", "ran"}
Finished == {"done", "gone"}
Row      == [scorer : Req \cup {None}, score : Nat, flagger : Req \cup {None}]
FreshRow == [scorer |-> None, score |-> 0, flagger |-> None]

Init ==
    /\ id \in Ids
    /\ columns \in Schemas
    /\ out     = [r \in Req |-> FALSE]
    /\ task    = [k \in Kind |-> [r \in Req |-> None]]
    /\ retries = [k \in Kind |-> [r \in Req |-> 0]]
    /\ rows    = [r \in Req |-> <<>>]
    /\ judged  = [r \in Req |-> 0]
    /\ told    = [r \in Req |-> <<>>]
    /\ asked   = [r \in Req |-> 0]
    /\ faults  = 0
    /\ early   = [k \in Kind |-> [r \in Req |-> FALSE]]

-----------------------------------------------------------------------------
(* The route, and the statements of the tasks.                             *)

\* A cache hit publishes the first message alone.
Publish(r) ==
    /\ ~out[r]
    /\ out' = [out EXCEPT ![r] = TRUE]
    /\ \E a \in Answer : \E sampled, checked \in {FALSE, HasText(a)} :
       \E unsure \in {FALSE, sampled /\ faults < MaxFaults} :
       \E ms \in Prefixes(Messages(a, sampled, unsure, FALSE, checked)) :
          /\ Cardinality(ToSet(ms) \cap Kind) <= MaxMessages
          /\ task' = [k \in Kind |->
                        [task[k] EXCEPT ![r] = IF Contains(ms, k) THEN "queued" ELSE @]]
          /\ told' = [told EXCEPT ![r] = Only(Contains(ms, "mab"), 0)]
          /\ faults' = IF unsure THEN faults + 1 ELSE faults
    /\ UNCHANGED <<id, columns, retries, rows, judged, asked, early>>

Storable(r) == id[r] # None /\ {"model", "quality_score"} \subseteq columns

\* Nothing makes request_id unique: a second INSERT adds a second row.
Upserted(old) == <<FreshRow>>
Inserted(old) == Append(old, FreshRow)

\* WHERE request_id = ...: the rows of every request with that id.
EveryRow(r) == Req
Matches(r)  == {q \in Req : id[q] = id[r]}

Updated(r, new) ==
    [q \in Req |-> IF q \in Matches(r) THEN [i \in DOMAIN rows[q] |-> new[rows[q][i]]]
                                       ELSE rows[q]]

Scorable(r)  == id[r] # None /\ "quality_score" \in columns
Flaggable(r) == id[r] # None /\ "safety_flagged" \in columns

\* No INSERT of a row it should have changed comes after this UPDATE.
Settled(r) == \A q \in Matches(r) : out[q] /\ task["log"][q] \in Finished \cup {None}

-----------------------------------------------------------------------------
(* Steps of the tasks.                                                     *)

Set(k, r, s) == task' = [task EXCEPT ![k][r] = s]
Moves(k, r, s, t) == task[k][r] = s /\ Set(k, r, t)

\* self.retry(exc=exc): queued again until the retries are used up.
CountedRetry(k, r) ==
    \/ /\ retries[k][r] < MaxRetries[k]
       /\ retries' = [retries EXCEPT ![k][r] = @ + 1]
       /\ Set(k, r, "queued")
    \/ /\ retries[k][r] = MaxRetries[k]
       /\ Set(k, r, "gone")
       /\ UNCHANGED retries

OneRetryMore(k, r) ==
    /\ retries' = [retries EXCEPT ![k][r] = @ + 1]
    /\ Set(k, r, IF retries[k][r] <= MaxRetries[k] THEN "queued" ELSE "gone")

UncountedRetry(k, r) == Set(k, r, "queued") /\ UNCHANGED retries

Retry(k, r) == CountedRetry(k, r)

Insert(r) ==
    /\ Storable(r)
    /\ Moves("log", r, "queued", "ran")
    /\ rows' = [rows EXCEPT ![r] = Inserted(@)]
    /\ UNCHANGED <<request, retries, judged, told, asked, faults, early>>

RefuseInsert(r) ==
    /\ ~Storable(r)
    /\ task["log"][r] = "queued"
    /\ Retry("log", r)
    /\ UNCHANGED <<request, effects, faults, early>>

\* The judge answers, or its failure counts as a score of 0.8.
Judge(r) ==
    /\ Moves("quality", r, "queued", "judged")
    /\ judged' = [judged EXCEPT ![r] = @ + 1]
    /\ UNCHANGED <<request, retries, rows, told, asked, faults, early>>

WriteScore(r) ==
    /\ Scorable(r)
    /\ rows'  = Updated(r, [row \in Row |-> [row EXCEPT !.scorer = r, !.score = judged[r]]])
    /\ early' = [early EXCEPT !["quality"][r] = ~Settled(r)]
    /\ UNCHANGED faults

\* _update_db_quality catches the failure of its UPDATE, a refusal or any other.
FailedScore(r) ==
    /\ \/ ~Scorable(r) /\ UNCHANGED faults
       \/ Scorable(r) /\ faults < MaxFaults /\ faults' = faults + 1
    /\ early' = [early EXCEPT !["quality"][r] = TRUE]
    /\ UNCHANGED rows

RetryScore(r) == FailedScore(r) /\ task["quality"][r] = "judged" /\ Retry("quality", r)
LoseScore(r)  == FailedScore(r) /\ Moves("quality", r, "judged", "scored") /\ UNCHANGED retries

Score(r) ==
    /\ \/ WriteScore(r) /\ Moves("quality", r, "judged", "scored") /\ UNCHANGED retries
       \/ LoseScore(r)
    /\ UNCHANGED <<request, judged, told, asked>>

\* update_mab_weights.delay with the score.
Chain(r) ==
    /\ Moves("quality", r, "scored", "ran")
    /\ told' = [told EXCEPT ![r] = Append(@, judged[r])]
    /\ UNCHANGED <<request, retries, rows, judged, asked, faults, early>>

Ask(r) ==
    /\ Moves("safety", r, "queued", "asked")
    /\ asked' = [asked EXCEPT ![r] = @ + 1]
    /\ UNCHANGED <<request, retries, rows, judged, told, faults, early>>

Flag(r) ==
    /\ Flaggable(r)
    /\ Moves("safety", r, "asked", "ran")
    /\ rows'  = Updated(r, [row \in Row |-> [row EXCEPT !.flagger = r]])
    /\ early' = [early EXCEPT !["safety"][r] = ~Settled(r)]
    /\ UNCHANGED <<request, retries, judged, told, asked, faults>>

RefuseFlag(r) ==
    /\ ~Flaggable(r)
    /\ task["safety"][r] = "asked"
    /\ Retry("safety", r)
    /\ UNCHANGED <<request, effects, faults, early>>

Ack(k, r) ==
    /\ Moves(k, r, "ran", "done")
    /\ UNCHANGED <<request, retries, effects, faults, early>>

\* Any other exception, before or after the effect of a step.
Fail(k, r) ==
    /\ task[k][r] \in Busy
    /\ faults < MaxFaults
    /\ faults' = faults + 1
    /\ Retry(k, r)
    /\ UNCHANGED <<request, effects, early>>

\* The worker host dies and the broker redelivers; or only the pool process
\* dies and its parent acknowledges the task as failed, or the message is lost
\* with the Redis that holds it or evicts it.
Crash(k, r) ==
    /\ task[k][r] \in Busy
    /\ faults < MaxFaults
    /\ faults' = faults + 1
    /\ \E s \in {"queued", "gone"} : Set(k, r, s)
    /\ UNCHANGED <<request, retries, effects, early>>

-----------------------------------------------------------------------------
LogStep(r)     == Insert(r) \/ RefuseInsert(r) \/ Ack("log", r)
QualityStep(r) == Judge(r) \/ Score(r) \/ Chain(r) \/ Ack("quality", r)
SafetyStep(r)  == Ask(r) \/ Flag(r) \/ RefuseFlag(r) \/ Ack("safety", r)

Next ==
    \E r \in Req : \/ Publish(r)
                   \/ LogStep(r) \/ QualityStep(r) \/ SafetyStep(r)
                   \/ \E k \in Kind : Fail(k, r) \/ Crash(k, r)

Spec == Init /\ [][Next]_vars

\* The workers never stop taking messages, and every wait of a step ends: the
\* HTTP calls have timeouts, the rest is cut off by task_time_limit (a Fail).
Fairness ==
    \A r \in Req : /\ WF_vars(LogStep(r))
                   /\ WF_vars(QualityStep(r))
                   /\ WF_vars(SafetyStep(r))

FairSpec == Spec /\ Fairness

-----------------------------------------------------------------------------
(* Properties.                                                             *)

\* Every variable keeps its type.
TypeOK ==
    /\ id      \in Ids
    /\ columns \in Schemas
    /\ out     \in [Req -> BOOLEAN]
    /\ task    \in [Kind -> [Req -> Busy \cup Finished \cup {None}]]
    /\ retries \in [Kind -> [Req -> Nat]]
    /\ \A k \in Kind, r \in Req : retries[k][r] <= MaxRetries[k]
    /\ rows    \in [Req -> Seq(Row)]
    /\ judged  \in [Req -> Nat]
    /\ told    \in [Req -> Seq(Nat)]
    /\ asked   \in [Req -> Nat]
    /\ faults  \in 0 .. MaxFaults
    /\ early   \in [Kind -> [Req -> BOOLEAN]]

\* No task takes a score or a verdict away from a row that has one, nor a row
\* from the log: what comes late or twice adds to it.
NeverForgets(old, new) ==
    /\ Len(new) >= Len(old)
    /\ \A i \in DOMAIN old : /\ old[i].scorer # None => new[i].scorer # None
                             /\ old[i].flagger # None => new[i].flagger # None
ScoreIsKept == [][\A r \in Req : NeverForgets(rows[r], rows'[r])]_vars

\* The score and the verdict of a row are about a request with the row's id.
\* And the dashboard and the bandit agree: where a request does not share its
\* id, and its rows were in when the UPDATE came and succeeded, each of them
\* ends with the score the bandit was told last, however often it was judged.
SameScore ==
    \A r \in Req :
        /\ \A i \in DOMAIN rows[r] :
              /\ rows[r][i].scorer # None => id[rows[r][i].scorer] = id[r]
              /\ rows[r][i].flagger # None => id[rows[r][i].flagger] = id[r]
        /\ task["quality"][r] = "done" /\ ~early["quality"][r] /\ Matches(r) = {r} =>
              \A i \in DOMAIN rows[r] : rows[r][i].scorer = r /\ rows[r][i].score = Last(told[r])

\* A task that ends well has logged the request, told the bandit, had it
\* checked; and nothing of that happens twice unless an attempt failed or a
\* worker died.  The bandit hears from the route or from the judge, and from
\* both, or twice, only for such a failure.
OncePerAttempt ==
    \A r \in Req :
        /\ task["log"][r] = "done" => rows[r] # <<>>
        /\ task["quality"][r] = "done" => told[r] # <<>>
        /\ task["safety"][r] = "done" => asked[r] > 0
        /\ Len(rows[r]) <= 1 + faults
        /\ judged[r] <= 1 + faults
        /\ Len(told[r]) <= 1 + faults
        /\ asked[r] <= 1 + MaxRetries["safety"] + faults

\* Without failures and crashes a task is given up only if its statement can
\* never succeed (a malformed id, a missing column), and then it takes no other
\* task with it: the judging task always ends, so that the bandit learns.
GivenUpForAReason ==
    \A r \in Req :
        /\ task["log"][r] = "gone" => faults > 0 \/ ~Storable(r)
        /\ task["quality"][r] = "gone" => faults > 0
        /\ task["safety"][r] = "gone" => faults > 0 \/ ~Flaggable(r)

\* Every task ends: also one whose statement fails on each attempt.
TasksEnd == \A k \in Kind, r \in Req : task[k][r] \in Busy ~> task[k][r] \in Finished
=============================================================================
