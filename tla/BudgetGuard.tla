----------------------------- MODULE BudgetGuard -----------------------------
(***************************************************************************)
(* The daily budget of one client: check_budget (api/budget_guard.py) in   *)
(* the request path, and the Celery task deduct_budget                     *)
(* (workers/tasks/budget.py) that charges a request after its response,    *)
(* one action per Redis command.  Clients share no key, so one is enough.  *)
(*                                                                         *)
(* Time is the UTC day, and midnight may fall between any two commands.  A *)
(* TTL is the day at whose end the key's time is over.  The code computes  *)
(* whole seconds to midnight, rounded up, and sends them one command       *)
(* later, so a key outlives its day a little, and the flag and the counter *)
(* go one by one, in either order.  Amounts are in units of cost.          *)
(***************************************************************************)
EXTENDS Integers

CONSTANTS
    Req,         \* the client's requests
    Cost,        \* what a paid request may cost
    Limit,       \* default_daily_budget_cents
    MaxRetries,  \* max_retries of the task
    LastDay,     \* bound: the last day of a behaviour
    MaxFaults,   \* bound: failed task attempts and worker losses
    MayLose,     \* a killed pool process loses its task (acknowledged)
    MayEvict     \* Redis may drop a key (allkeys-lru)

ASSUME BudgetAssumption ==
    /\ Cost \subseteq Nat \ {0}
    /\ Limit \in Nat \ {0}
    /\ MaxRetries \in Nat /\ LastDay \in Nat /\ MaxFaults \in Nat
    /\ MayLose \in BOOLEAN /\ MayEvict \in BOOLEAN

None   == -1           \* no TTL, or no block flag
Moment == -2           \* a TTL of one second
Until  == Nat \cup {None, Moment}

VARIABLES
    day,       \* the UTC day
    total,     \* budget:daily:{client}, 0 when the key does not exist
    expiry,    \* the day budget:daily lapses after, None without a TTL
    blocked,   \* the day budget:blocked lapses after, None without the key
    pc,        \* where each request, later its charging task, is
    cost,      \* cost_cents of a paid request
    mine,      \* the task's new_total
    due,       \* the day of the task's first ttl, later its second ttl
    retries,   \* self.request.retries
    faults,    \* bound counter
    born,      \* history: the day the daily key was created
    charges,   \* history: how often each request was charged
    barred,    \* history: requests that began when the counter was at its limit
    cut,       \* history: where midnight or the end of the counter caught a task
    evicted    \* history: Redis has evicted the counter

redis   == <<total, expiry, blocked>>
history == <<born, charges, barred, cut, evicted>>
task    == <<cost, mine, due, retries>>
vars    == <<day, redis, pc, task, faults, history>>

Midway   == {"ttl", "expire", "left"}
Running  == {"ttl", "expire", "left", "block", "ack"}
Pending  == {"queued"} \cup Running
PC       == {"new", "spend", "calling", "refused", "done", "dropped", "lost"} \cup Pending

Init ==
    /\ day = 0 /\ total = 0 /\ expiry = None /\ blocked = None
    /\ pc      = [r \in Req |-> "new"]
    /\ cost    = [r \in Req |-> 0]
    /\ mine    = [r \in Req |-> 0]
    /\ due     = [r \in Req |-> None]
    /\ retries = [r \in Req |-> 0]
    /\ faults  = 0
    /\ born = 0 /\ barred = {} /\ cut = {} /\ evicted = FALSE
    /\ charges = [r \in Req |-> 0]

-----------------------------------------------------------------------------
(* check_budget: two reads, each of which may refuse the request.          *)

SpentLate(n) == n > Limit
Spent(n)     == n >= Limit

ReadFlag(r) ==
    /\ pc[r] = "new"
    /\ pc' = [pc EXCEPT ![r] = IF blocked # None THEN "refused" ELSE "spend"]
    /\ barred' = IF total >= Limit THEN barred \cup {r} ELSE barred
    /\ UNCHANGED <<day, redis, task, faults, born, charges, cut, evicted>>

ReadSpend(r) ==
    /\ pc[r] = "spend"
    /\ pc' = [pc EXCEPT ![r] = IF Spent(total) THEN "refused" ELSE "calling"]
    /\ UNCHANGED <<day, redis, task, faults, history>>

\* The provider answered: a positive cost is charged by a task, anything
\* else (an error, a free answer, a failed enqueue) by nothing.
CallPaid(r, c) ==
    /\ pc[r] = "calling"
    /\ pc'   = [pc EXCEPT ![r] = "queued"]
    /\ cost' = [cost EXCEPT ![r] = c]
    /\ UNCHANGED <<day, redis, mine, due, retries, faults, history>>

CallFree(r) ==
    /\ pc[r] = "calling"
    /\ pc' = [pc EXCEPT ![r] = "done"]
    /\ UNCHANGED <<day, redis, task, faults, history>>

-----------------------------------------------------------------------------
(* deduct_budget.                                                          *)

\* INCRBYFLOAT; it keeps the TTL of an existing key and gives a new one none.
SubtractedTotal(r) == total - cost[r]
NewTotal(r)        == total + cost[r]

Charge(r) ==
    /\ pc[r] = "queued"
    /\ total'   = NewTotal(r)
    /\ mine'    = [mine EXCEPT ![r] = NewTotal(r)]
    /\ pc'      = [pc EXCEPT ![r] = "ttl"]
    /\ born'    = IF total = 0 THEN day ELSE born
    /\ charges' = [charges EXCEPT ![r] = @ + 1]
    /\ UNCHANGED <<day, expiry, blocked, cost, due, retries, faults, barred, cut, evicted>>

\* Where a task goes on once the daily key has its TTL.
Judged(r) == IF Spent(mine[r]) THEN "left" ELSE "ack"

FirstCharge(r) == mine[r] = cost[r] /\ expiry = None
LacksTTL(r)    == total > 0 /\ expiry = None

\* TTL; without one, the seconds to midnight are computed next.
ReadTTL(r) ==
    /\ pc[r] = "ttl"
    /\ \/ /\ LacksTTL(r)
          /\ due' = [due EXCEPT ![r] = day]
          /\ pc'  = [pc EXCEPT ![r] = "expire"]
       \/ /\ ~LacksTTL(r)
          /\ pc' = [pc EXCEPT ![r] = Judged(r)]
          /\ UNCHANGED due
    /\ UNCHANGED <<day, redis, cost, mine, retries, faults, history>>

\* The clock is read between the answer to TTL and EXPIRE.
DayAhead(r)  == {day + 1}
Deadlines(r) == due[r] .. day

SetTTLOfLiveKey(r) ==
    /\ pc[r] = "expire" /\ total > 0
    /\ expiry' \in Deadlines(r)
    /\ pc'     = [pc EXCEPT ![r] = Judged(r)]
    /\ UNCHANGED <<day, total, blocked, task, faults, history>>

\* EXPIRE; of a key that is gone it does nothing.
SetTTL(r) ==
    /\ pc[r] = "expire"
    /\ \/ total > 0 /\ expiry' \in Deadlines(r)
       \/ total = 0 /\ UNCHANGED expiry
    /\ pc' = [pc EXCEPT ![r] = Judged(r)]
    /\ UNCHANGED <<day, total, blocked, task, faults, history>>

FullDay   == day + 1
Remaining == IF total > 0 /\ expiry # None THEN expiry ELSE Moment

\* TTL again, for the lifetime of the flag: max(ttl, 1) seconds.
ReadLeft(r) ==
    /\ pc[r] = "left"
    /\ due' = [due EXCEPT ![r] = Remaining]
    /\ pc'  = [pc EXCEPT ![r] = "block"]
    /\ UNCHANGED <<day, redis, cost, mine, retries, faults, history>>

Block(r) ==
    /\ pc[r] = "block"
    /\ blocked' = due[r]
    /\ pc'      = [pc EXCEPT ![r] = "ack"]
    /\ UNCHANGED <<day, total, expiry, task, faults, history>>

\* task_acks_late: the message is acknowledged after the task has run.
Ack(r) ==
    /\ pc[r] = "ack"
    /\ pc' = [pc EXCEPT ![r] = "done"]
    /\ UNCHANGED <<day, redis, task, faults, history>>

-----------------------------------------------------------------------------
(* Failures of the task, and time.                                         *)

FailQuietly(r) ==
    /\ pc[r] \in Pending \ {"ack"}
    /\ faults < MaxFaults
    /\ faults' = faults + 1
    /\ pc' = [pc EXCEPT ![r] = "done"]
    /\ UNCHANGED <<day, redis, task, history>>

\* A Redis error at any command: the task starts over, MaxRetries times.
Fail(r) ==
    /\ pc[r] \in Pending \ {"ack"}
    /\ faults < MaxFaults
    /\ faults' = faults + 1
    /\ \/ /\ retries[r] < MaxRetries
          /\ retries' = [retries EXCEPT ![r] = @ + 1]
          /\ pc' = [pc EXCEPT ![r] = "queued"]
       \/ /\ retries[r] = MaxRetries
          /\ pc' = [pc EXCEPT ![r] = "dropped"]
          /\ UNCHANGED retries
    /\ UNCHANGED <<day, redis, cost, mine, due, history>>

\* The worker host dies before the acknowledgement: the broker redelivers.
Redeliver(r) ==
    /\ pc[r] \in Running
    /\ faults < MaxFaults
    /\ faults' = faults + 1
    /\ pc' = [pc EXCEPT ![r] = "queued"]
    /\ UNCHANGED <<day, redis, task, history>>

\* Only the pool process dies: its parent acknowledges the task as failed.  Or
\* the broker, a database of the Redis that evicts, drops the message.
Lose(r) ==
    /\ MayLose
    /\ pc[r] \in Pending \ {"ack"}
    /\ faults < MaxFaults
    /\ faults' = faults + 1
    /\ pc' = [pc EXCEPT ![r] = "lost"]
    /\ UNCHANGED <<day, redis, task, history>>

Lapsed(x, now) == x # None /\ x < now

\* Midnight, or the end of the counter, catches every task at work.
CatchTasks == cut' = cut \cup ({pc[r] : r \in Req} \cap Midway)

\* Neither a key whose time is over nor a task (task_time_limit) sees a second
\* midnight.
Midnight ==
    /\ day < LastDay
    /\ ~(total > 0 /\ Lapsed(expiry, day)) /\ ~Lapsed(blocked, day)
    /\ \A r \in Req : pc[r] \in {"expire", "block"} => due[r] \notin 0 .. day - 1
    /\ day' = day + 1
    /\ CatchTasks
    /\ UNCHANGED <<redis, pc, task, faults, born, charges, barred, evicted>>

\* The counter goes: its time is over, or Redis evicts it.
DropDaily ==
    /\ total > 0
    /\ Lapsed(expiry, day) \/ MayEvict
    /\ total' = 0 /\ expiry' = None
    /\ barred' = {}
    /\ CatchTasks
    /\ evicted' = (evicted \/ ~Lapsed(expiry, day))
    /\ UNCHANGED <<day, blocked, pc, task, faults, born, charges>>

DropFlag ==
    /\ blocked # None
    /\ Lapsed(blocked, day) \/ MayEvict
    /\ blocked' = None
    /\ UNCHANGED <<day, total, expiry, pc, task, faults, history>>

Step(r) == Charge(r) \/ ReadTTL(r) \/ SetTTL(r) \/ ReadLeft(r) \/ Block(r) \/ Ack(r)

Next ==
    \/ \E r \in Req :
          \/ ReadFlag(r) \/ ReadSpend(r) \/ CallFree(r)
          \/ \E c \in Cost : CallPaid(r, c)
          \/ Step(r)
          \/ Fail(r) \/ Redeliver(r) \/ Lose(r)
    \/ Midnight \/ DropDaily \/ DropFlag

Spec == Init /\ [][Next]_vars

\* Queued tasks are consumed and run on; Redis expires what has lapsed.
Fairness ==
    /\ \A r \in Req : WF_vars(Step(r))
    /\ WF_vars(Midnight)
    /\ WF_vars((Lapsed(expiry, day) /\ DropDaily))
    /\ WF_vars((Lapsed(blocked, day) /\ DropFlag))

FairSpec == Spec /\ Fairness

-----------------------------------------------------------------------------
(* Properties.                                                             *)

\* Every variable keeps its type.
TypeOK ==
    /\ day \in 0 .. LastDay /\ total \in Nat
    /\ expiry \in Nat \cup {None} /\ blocked \in Until
    /\ pc      \in [Req -> PC]
    /\ cost    \in [Req -> Nat]
    /\ mine    \in [Req -> Nat]
    /\ due     \in [Req -> Until]
    /\ \A r \in Req : pc[r] = "expire" => due[r] \in Nat
    /\ retries \in [Req -> 0 .. MaxRetries]
    /\ faults \in 0 .. MaxFaults
    /\ born \in 0 .. LastDay /\ barred \subseteq Req
    /\ cut \subseteq Midway /\ evicted \in BOOLEAN
    /\ charges \in [Req -> Nat]

\* A counter that Redis is not about to drop holds a charge of an earlier day.
CarriesOver == total > 0 /\ ~Lapsed(expiry, day) /\ born < day

\* What the 402 promises ("Resets at midnight UTC"): while no task has failed,
\* and with none under way, no charge is carried over into the next day.
ResetsAtMidnight ==
    faults = 0 /\ (\A r \in Req : pc[r] \notin Running) => ~CarriesOver

\* Who can break that promise: while no task has failed, only a task that
\* midnight, or the end of the counter, caught between its INCRBYFLOAT and its
\* EXPIRE carries a charge over, eviction or not.
CarriedByCaughtTask ==
    faults = 0 /\ CarriesOver => cut \cap {"ttl", "expire"} # {}

\* The two keys agree as long as the flag has time left: a client carries it
\* only while the counter is at the limit, so the fast path never refuses for
\* longer than that what the spend check would admit.  Failed and lost tasks
\* do not break this; a task caught between its first and its last TTL, or an
\* evicted counter, can.
FlagMeansSpent ==
    cut = {} /\ ~evicted =>
        (blocked # None /\ ~Lapsed(blocked, day) => total >= Limit)

\* A request that arrives when the budget is already spent does not reach a
\* provider before Redis drops the counter, whichever of the two reads it is at.
SpentIsSpent == \A r \in barred : pc[r] # "calling"

\* A daily counter without a TTL will get one: a task that has charged is
\* still to read the TTL, or to set it, or to be tried again.  Only a task that
\* was given up, or killed, after its charge leaves one that never lapses.
CounterWillLapse ==
    total > 0 /\ expiry = None =>
        \E r \in Req : \/ pc[r] \in {"ttl", "expire"}
                       \/ pc[r] \in {"queued", "dropped", "lost"} /\ charges[r] > 0

\* Each attempt charges at most once, so failures are all that can charge a
\* client too often; and a finished task has charged.
ChargedPerAttempt ==
    \A r \in Req : /\ charges[r] <= 1 + faults
                   /\ pc[r] = "done" /\ cost[r] > 0 => charges[r] >= 1

\* The task of a paid request always comes to an end.
ChargeEnds == \A r \in Req : pc[r] = "queued" ~> pc[r] \in {"done", "dropped", "lost"}
=============================================================================
