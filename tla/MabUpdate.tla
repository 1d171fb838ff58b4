------------------------------ MODULE MabUpdate ------------------------------
(***************************************************************************)
(* The learning step of the bandit for one provider: the Celery task       *)
(* update_mab_weights (workers/tasks/telemetry.py), run by the processes   *)
(* of a worker pool, one action per Redis command or database statement.   *)
(* Providers share no key, so one is enough.                               *)
(*                                                                         *)
(* A moving average is represented by the sequence of observations folded  *)
(* into it, the last one weighing most: a fold appends, and the empty      *)
(* sequence is the default of a missing key.  Each task carries one        *)
(* observation, named after the task.                                      *)
(***************************************************************************)
EXTENDS Integers, Sequences, FiniteSets

CONSTANTS
    Task,       \* update_mab_weights messages
    Metrics,    \* METRICS, the metrics in the order of the loop
    Pool,       \* number of worker processes
    MaxRetries, \* max_retries of the task
    MaxFaults,  \* bound: failed attempts, worker deaths and evictions
    MayEvict    \* Redis may drop a key (allkeys-lru)

ASSUME MabAssumption ==
    /\ Metrics \in Seq(STRING) /\ Metrics # <<>>
    /\ \A j, k \in DOMAIN Metrics : Metrics[j] = Metrics[k] => j = k
    /\ Pool \in Nat \ {0} /\ MaxRetries \in Nat /\ MaxFaults \in Nat
    /\ MayEvict \in BOOLEAN

Metric == {Metrics[k] : k \in DOMAIN Metrics}
None   == "none"

VARIABLES
    mu,        \* mab:stats:{p}:{m}:mu
    var,       \* mab:stats:{p}:{m}:var
    weight,    \* mab:weights:{p}: the means it was computed from
    row,       \* the provider's row of provider_stats
    pc,        \* the command each task is at
    at,        \* which metric of the loop it is at
    myMu,      \* its new_mu (before that, the mean it read)
    myVar,     \* its new_var (likewise)
    retries,   \* self.request.retries
    faults,    \* bound counter
    tries,     \* history: attempts of each task
    disturbed, \* history: tasks whose last attempt ran next to another, or
               \* since when Redis has dropped a key
    latest     \* history: the task that ran last, alone and to its end

redis   == <<mu, var, weight>>
locals  == <<at, myMu, myVar>>
history == <<tries, disturbed, latest>>
vars    == <<redis, row, pc, locals, retries, faults, history>>

Running == {"mu", "var", "setmu", "setvar", "weight", "persist", "ack"}
PC      == {"queued", "done", "gone"} \cup Running

Busy == {t \in Task : pc[t] \in Running}

Empty == [m \in Metric |-> <<>>]

Init ==
    /\ mu = Empty /\ var = Empty /\ weight = Empty
    /\ row = [mu |-> Empty, var |-> Empty]
    /\ pc      = [t \in Task |-> "queued"]
    /\ at      = [t \in Task |-> 1]
    /\ myMu    = [t \in Task |-> Empty]
    /\ myVar   = [t \in Task |-> Empty]
    /\ retries = [t \in Task |-> 0]
    /\ faults  = 0
    /\ tries   = [t \in Task |-> 0]
    /\ disturbed = {}
    /\ latest  = None

-----------------------------------------------------------------------------
(* The task.                                                               *)

\* A process takes the message.
Start(t) ==
    /\ pc[t] = "queued"
    /\ Cardinality(Busy) < Pool
    /\ pc'      = [pc EXCEPT ![t] = "mu"]
    /\ at'      = [at EXCEPT ![t] = 1]
    /\ tries'   = [tries EXCEPT ![t] = @ + 1]
    /\ disturbed' = IF Busy = {} THEN disturbed \ {t} ELSE disturbed \cup Busy \cup {t}
    /\ latest'  = None
    /\ UNCHANGED <<redis, row, myMu, myVar, retries, faults>>

Here(t) == Metrics[at[t]]

FoldTwice(s, t)  == Append(Append(s, t), t)
FoldAfresh(s, t) == <<t>>
Fold(s, t)       == Append(s, t)

GetMu(t) ==
    /\ pc[t] = "mu"
    /\ myMu' = [myMu EXCEPT ![t][Here(t)] = mu[Here(t)]]
    /\ pc'   = [pc EXCEPT ![t] = "var"]
    /\ UNCHANGED <<redis, row, at, myVar, retries, faults, history>>

\* GET the variance and, without another command, fold the observation in.
GetVar(t) ==
    /\ pc[t] = "var"
    /\ myMu'  = [myMu  EXCEPT ![t][Here(t)] = Fold(@, t)]
    /\ myVar' = [myVar EXCEPT ![t][Here(t)] = Fold(var[Here(t)], t)]
    /\ pc'    = [pc EXCEPT ![t] = "setmu"]
    /\ UNCHANGED <<redis, row, at, retries, faults, history>>

SetMu(t) ==
    /\ pc[t] = "setmu"
    /\ mu' = [mu EXCEPT ![Here(t)] = myMu[t][Here(t)]]
    /\ pc' = [pc EXCEPT ![t] = "setvar"]
    /\ UNCHANGED <<var, weight, row, locals, retries, faults, history>>

OneMore(t) == at[t] <= Len(Metrics)
More(t)    == at[t] < Len(Metrics)

SetVar(t) ==
    /\ pc[t] = "setvar"
    /\ var' = [var EXCEPT ![Here(t)] = myVar[t][Here(t)]]
    /\ IF More(t)
       THEN at' = [at EXCEPT ![t] = @ + 1] /\ pc' = [pc EXCEPT ![t] = "mu"]
       ELSE UNCHANGED at /\ pc' = [pc EXCEPT ![t] = "weight"]
    /\ UNCHANGED <<mu, weight, row, myMu, myVar, retries, faults, history>>

SetWeight(t) ==
    /\ pc[t] = "weight"
    /\ weight' = myMu[t]
    /\ pc' = [pc EXCEPT ![t] = "persist"]
    /\ UNCHANGED <<mu, var, row, locals, retries, faults, history>>

FirstRow(t) == IF row.mu = Empty THEN [mu |-> myMu[t], var |-> myVar[t]] ELSE row
NewRow(t)   == [mu |-> myMu[t], var |-> myVar[t]]

\* INSERT ... ON CONFLICT DO UPDATE.
Persist(t) ==
    /\ pc[t] = "persist"
    /\ row' = NewRow(t)
    /\ pc'  = [pc EXCEPT ![t] = "ack"]
    /\ UNCHANGED <<redis, locals, retries, faults, history>>

\* The end of an attempt; the process forgets its locals.
Finish(t, state) ==
    /\ pc'    = [pc EXCEPT ![t] = state]
    /\ at'    = [at EXCEPT ![t] = 1]
    /\ myMu'  = [myMu EXCEPT ![t] = Empty]
    /\ myVar' = [myVar EXCEPT ![t] = Empty]

Ack(t) ==
    /\ pc[t] = "ack"
    /\ Finish(t, "done")
    /\ latest' = IF t \in disturbed THEN None ELSE t
    /\ UNCHANGED <<redis, row, retries, faults, tries, disturbed>>

-----------------------------------------------------------------------------
(* Failures.                                                               *)

\* A Redis or database error, or the time limit: the task starts over.
Fail(t) ==
    /\ pc[t] \in Running \ {"ack"}
    /\ faults < MaxFaults
    /\ faults' = faults + 1
    /\ \/ /\ retries[t] < MaxRetries
          /\ retries' = [retries EXCEPT ![t] = @ + 1]
          /\ Finish(t, "queued")
       \/ /\ retries[t] = MaxRetries
          /\ Finish(t, "gone")
          /\ UNCHANGED retries
    /\ UNCHANGED <<redis, row, history>>

\* The worker host dies: the broker redelivers what was not acknowledged.
Redeliver(t) ==
    /\ pc[t] \in Running
    /\ faults < MaxFaults
    /\ faults' = faults + 1
    /\ Finish(t, "queued")
    /\ UNCHANGED <<redis, row, retries, history>>

\* Only the pool process dies: its parent acknowledges the task as failed.  Or
\* the broker, a database of the Redis that evicts, drops the message.
Lose(t) ==
    /\ pc[t] \in ({"queued"} \cup Running) \ {"ack"}
    /\ faults < MaxFaults
    /\ faults' = faults + 1
    /\ Finish(t, "gone")
    /\ UNCHANGED <<redis, row, retries, history>>

Evict ==
    /\ MayEvict
    /\ faults < MaxFaults
    /\ faults' = faults + 1
    /\ disturbed' = Task
    /\ \/ \E m \in Metric : /\ mu[m] # <<>>
                            /\ mu' = [mu EXCEPT ![m] = <<>>]
                            /\ UNCHANGED <<var, weight>>
       \/ \E m \in Metric : /\ var[m] # <<>>
                            /\ var' = [var EXCEPT ![m] = <<>>]
                            /\ UNCHANGED <<mu, weight>>
       \/ weight # Empty /\ weight' = Empty /\ UNCHANGED <<mu, var>>
    /\ latest' = None
    /\ UNCHANGED <<row, pc, locals, retries, tries>>

Step(t) == \/ GetMu(t) \/ GetVar(t) \/ SetMu(t) \/ SetVar(t)
           \/ SetWeight(t) \/ Persist(t) \/ Ack(t)

Next == \/ \E t \in Task : Start(t) \/ Step(t) \/ Fail(t) \/ Redeliver(t) \/ Lose(t)
        \/ Evict

Spec == Init /\ [][Next]_vars

-----------------------------------------------------------------------------
(* Properties.                                                             *)

Observed == [Metric -> Seq(Task)]

\* Every variable keeps its type.
TypeOK ==
    /\ mu \in Observed /\ var \in Observed /\ weight \in Observed
    /\ row \in [mu : Observed, var : Observed]
    /\ pc \in [Task -> PC]
    /\ at \in [Task -> DOMAIN Metrics]
    /\ myMu \in [Task -> Observed] /\ myVar \in [Task -> Observed]
    /\ retries \in [Task -> 0 .. MaxRetries] /\ faults \in 0 .. MaxFaults
    /\ tries \in [Task -> Nat] /\ disturbed \subseteq Task
    /\ latest \in Task \cup {None}

Occurs(s, t) == \E k \in DOMAIN s : s[k] = t

\* An update is only ever lost to one that ran at the same time, or to an
\* eviction: otherwise a task whose last attempt ran alone and to its end counts in
\* every average for good, whatever other tasks do later.
LostOnlyToOverlap ==
    \A t \in Task : pc[t] = "done" /\ t \notin disturbed =>
        \A m \in Metric : Occurs(mu[m], t) /\ Occurs(var[m], t)

Occurrences(s, t) == Cardinality({k \in DOMAIN s : s[k] = t})

\* An observation is counted at most once per attempt of its task, in every
\* average, in the weight and in the backup: however tasks overlap, only
\* failures can make a request count twice.
CountedPerAttempt ==
    \A t \in Task, m \in Metric :
        \A s \in {mu[m], var[m], weight[m], row.mu[m], row.var[m]} :
            Occurrences(s, t) <= tries[t]

\* Updates repair what overlaps and failures left behind: after a task that
\* ran alone and to its end, the backup and the weight agree with the
\* averages in Redis.
LoneUpdateRepairs ==
    latest # None => /\ row = [mu |-> mu, var |-> var]
                     /\ weight = mu
=============================================================================
