-------------------------- MODULE BudgetGuardProofs --------------------------
(***************************************************************************)
(* Theorems about BudgetGuard, for any set of requests, any costs, limit   *)
(* and bounds.                                                             *)
(***************************************************************************)
EXTENDS BudgetGuard, TLAPS

\* The steps of a request before its charging task.
Reads(r)  == ReadFlag(r) \/ ReadSpend(r) \/ CallFree(r) \/ \E c \in Cost : CallPaid(r, c)

-----------------------------------------------------------------------------
(* Types.                                                                  *)

\* One step keeps every type.
LEMMA TypeStep == TypeOK /\ [Next]_vars => TypeOK'
<1> SUFFICES ASSUME TypeOK, [Next]_vars PROVE TypeOK'
  OBVIOUS
<1> USE BudgetAssumption
    DEF TypeOK, Until, None, Moment, PC, Pending, Running, redis, task, history
<1>1. ASSUME NEW r \in Req, ReadFlag(r) \/ ReadSpend(r) \/ CallFree(r) PROVE TypeOK'
  BY <1>1 DEF ReadFlag, ReadSpend, CallFree
<1>2. ASSUME NEW r \in Req, NEW c \in Cost, CallPaid(r, c) PROVE TypeOK'
  BY <1>2 DEF CallPaid
<1>3. ASSUME NEW r \in Req, Charge(r) PROVE TypeOK'
  BY <1>3 DEF Charge, NewTotal
<1>4. ASSUME NEW r \in Req, ReadTTL(r) PROVE TypeOK'
  BY <1>4 DEF ReadTTL, Judged, LacksTTL
<1>5. ASSUME NEW r \in Req, SetTTL(r) PROVE TypeOK'
  BY <1>5 DEF SetTTL, Judged, Deadlines
<1>6. ASSUME NEW r \in Req, ReadLeft(r) PROVE TypeOK'
  BY <1>6 DEF ReadLeft, Remaining
<1>7. ASSUME NEW r \in Req, Block(r) \/ Ack(r) PROVE TypeOK'
  BY <1>7 DEF Block, Ack
<1>8. ASSUME NEW r \in Req, Fail(r) PROVE TypeOK'
  BY <1>8 DEF Fail
<1>9. ASSUME NEW r \in Req, Redeliver(r) \/ Lose(r) PROVE TypeOK'
  BY <1>9 DEF Redeliver, Lose
<1>10. CASE Midnight
  <2>1. cut' \subseteq Midway
    BY <1>10 DEF Midnight, CatchTasks
  <2> QED
    BY <1>10, <2>1 DEF Midnight
<1>11. CASE DropDaily
  <2>1. cut' \subseteq Midway
    BY <1>11 DEF DropDaily, CatchTasks
  <2>2. evicted' \in BOOLEAN
    BY <1>11, Zenon DEF DropDaily
  <2> QED
    BY <1>11, <2>1, <2>2 DEF DropDaily
<1>12. CASE DropFlag
  BY <1>12 DEF DropFlag
<1>13. CASE UNCHANGED vars
  BY <1>13 DEF vars
<1> QED
  BY <1>1, <1>2, <1>3, <1>4, <1>5, <1>6, <1>7, <1>8, <1>9, <1>10, <1>11, <1>12, <1>13
     DEF Next, Step

\* The budget's variables keep their types.
THEOREM Typing == Spec => []TypeOK
<1>1. Init => TypeOK
  <2> SUFFICES ASSUME Init PROVE TypeOK
    OBVIOUS
  <2>1. evicted \in BOOLEAN
    BY DEF Init
  <2>2. \A r \in Req : pc[r] = "new"
    BY DEF Init
  <2> QED
    BY <2>1, <2>2, BudgetAssumption DEF Init, TypeOK, PC, Pending, Running, Until, None
<1> QED
  BY <1>1, TypeStep, PTL DEF Spec

-----------------------------------------------------------------------------
(* The counter's TTL.                                                      *)

\* A task that will set the TTL of the counter, or that died owing it.
Minder(r) == \/ pc[r] \in {"ttl", "expire"}
             \/ pc[r] \in {"queued", "dropped", "lost"} /\ charges[r] > 0

\* A task that is past its INCRBYFLOAT has charged.
HasCharged == \A r \in Req : pc[r] \in Running => charges[r] > 0

LapseInv == HasCharged /\ CounterWillLapse

\* One step keeps the counter minded.
LEMMA LapseStep == ASSUME TypeOK, LapseInv, [Next]_vars PROVE LapseInv'
<1> USE BudgetAssumption DEF redis, task, history
<1>1. HasCharged'
  <2> USE DEF TypeOK, LapseInv, HasCharged, Running, Pending
  <2>1. ASSUME NEW r \in Req, Reads(r) PROVE HasCharged'
    BY <2>1 DEF Reads, ReadFlag, ReadSpend, CallFree, CallPaid
  <2>2. ASSUME NEW r \in Req, Charge(r) PROVE HasCharged'
    BY <2>2 DEF Charge
  <2>3. ASSUME NEW r \in Req, ReadTTL(r) \/ SetTTL(r) PROVE HasCharged'
    BY <2>3 DEF ReadTTL, SetTTL, Judged
  <2>4. ASSUME NEW r \in Req, ReadLeft(r) \/ Block(r) \/ Ack(r) PROVE HasCharged'
    BY <2>4 DEF ReadLeft, Block, Ack
  <2>5. ASSUME NEW r \in Req, Fail(r) \/ Redeliver(r) \/ Lose(r) PROVE HasCharged'
    BY <2>5 DEF Fail, Redeliver, Lose
  <2>6. CASE Midnight \/ DropDaily \/ DropFlag \/ UNCHANGED vars
    BY <2>6 DEF Midnight, DropDaily, DropFlag, vars
  <2> QED
    BY <2>1, <2>2, <2>3, <2>4, <2>5, <2>6 DEF Next, Step, Reads
<1>2. ASSUME total' > 0, expiry' = None PROVE \E q \in Req : Minder(q)'
  <2> USE <1>2
  <2>1. total > 0 /\ expiry = None => \E q \in Req : Minder(q)
    BY DEF LapseInv, CounterWillLapse, Minder
  <2>2. ASSUME UNCHANGED <<total, expiry>>, \A q \in Req : Minder(q) => Minder(q)'
        PROVE  \E q \in Req : Minder(q)'
    BY <2>1, <2>2
  <2>3. ASSUME NEW r \in Req, Reads(r) PROVE \E q \in Req : Minder(q)'
    <3>1. UNCHANGED <<total, expiry>>
      BY <2>3 DEF Reads, ReadFlag, ReadSpend, CallFree, CallPaid
    <3>2. \A q \in Req : Minder(q) => Minder(q)'
      BY <2>3 DEF Reads, ReadFlag, ReadSpend, CallFree, CallPaid, Minder, TypeOK
    <3> QED
      BY <3>1, <3>2, <2>2
  <2>4. ASSUME NEW r \in Req, Charge(r) PROVE \E q \in Req : Minder(q)'
    BY <2>4 DEF Charge, Minder, TypeOK
  <2>5. ASSUME NEW r \in Req, ReadTTL(r) PROVE \E q \in Req : Minder(q)'
    <3>1. UNCHANGED <<total, expiry>>
      BY <2>5 DEF ReadTTL
    <3>2. pc'[r] = "expire"
      BY <2>5, <3>1 DEF ReadTTL, LacksTTL, TypeOK
    <3> QED
      BY <3>2 DEF Minder
  <2>6. ASSUME NEW r \in Req, SetTTL(r) PROVE \E q \in Req : Minder(q)'
    <3>1. total' = total /\ total > 0
      BY <2>6 DEF SetTTL
    <3>2. expiry' \in Nat
      BY <2>6, <3>1 DEF SetTTL, Deadlines, TypeOK
    <3> QED
      BY <3>2 DEF None
  <2>7. ASSUME NEW r \in Req, ReadLeft(r) \/ Block(r) \/ Ack(r)
        PROVE  \E q \in Req : Minder(q)'
    <3>1. UNCHANGED <<total, expiry>>
      BY <2>7 DEF ReadLeft, Block, Ack
    <3>2. \A q \in Req : Minder(q) => Minder(q)'
      BY <2>7 DEF ReadLeft, Block, Ack, Minder, TypeOK
    <3> QED
      BY <3>1, <3>2, <2>2
  <2>8. ASSUME NEW r \in Req, Fail(r) \/ Redeliver(r) \/ Lose(r)
        PROVE  \E q \in Req : Minder(q)'
    <3>1. UNCHANGED <<total, expiry, charges>>
      BY <2>8 DEF Fail, Redeliver, Lose
    <3>2. /\ pc'[r] \in {"queued", "dropped", "lost"}
          /\ pc[r] \in Pending
          /\ \A q \in Req : q # r => pc'[q] = pc[q]
      BY <2>8 DEF Fail, Redeliver, Lose, TypeOK, Pending
    <3>3. Minder(r) => charges[r] > 0
      BY DEF Minder, LapseInv, HasCharged, Running
    <3>4. \A q \in Req : Minder(q) => Minder(q)'
      BY <3>1, <3>2, <3>3 DEF Minder
    <3> QED
      BY <3>1, <3>4, <2>2
  <2>9. CASE Midnight
    <3>1. UNCHANGED <<total, expiry, pc, charges>>
      BY <2>9 DEF Midnight
    <3> QED
      BY <3>1, <2>2 DEF Minder
  <2>10. CASE DropDaily
    BY <2>10 DEF DropDaily
  <2>11. CASE DropFlag \/ UNCHANGED vars
    BY <2>11, <2>2 DEF DropFlag, vars, Minder
  <2> QED
    BY <2>3, <2>4, <2>5, <2>6, <2>7, <2>8, <2>9, <2>10, <2>11 DEF Next, Step, Reads
<1> QED
  BY <1>1, <1>2 DEF LapseInv, CounterWillLapse, Minder

\* The counter lapses some day, however midnight, eviction, retries and lost
\* tasks fall between the commands, unless a task that had charged was given up
\* or killed.
THEOREM CounterLapses == Spec => []CounterWillLapse
<1>1. Init => LapseInv
  BY DEF Init, LapseInv, HasCharged, CounterWillLapse, Running
<1>2. TypeOK /\ LapseInv /\ [Next]_vars => LapseInv'
  BY LapseStep
<1> QED
  BY <1>1, <1>2, Typing, PTL DEF Spec, LapseInv

-----------------------------------------------------------------------------
(* The limit.                                                              *)

\* Who came when the budget was spent is refused at one of the two reads, for
\* the counter does not shrink until Redis drops it.
BarredInv == \A r \in barred : total >= Limit /\ pc[r] \in {"spend", "refused"}

\* One step keeps it.
LEMMA BarredStep == ASSUME TypeOK, BarredInv, [Next]_vars PROVE BarredInv'
<1> USE BudgetAssumption DEF TypeOK, BarredInv, redis, task, history, Pending, Running
<1>1. ASSUME NEW r \in Req, Reads(r) PROVE BarredInv'
  BY <1>1 DEF Reads, ReadFlag, ReadSpend, CallFree, CallPaid, Spent
<1>2. ASSUME NEW r \in Req, Charge(r) PROVE BarredInv'
  BY <1>2 DEF Charge, NewTotal
<1>3. ASSUME NEW r \in Req, ReadTTL(r) \/ SetTTL(r) PROVE BarredInv'
  BY <1>3 DEF ReadTTL, SetTTL, Judged
<1>4. ASSUME NEW r \in Req, ReadLeft(r) \/ Block(r) \/ Ack(r) PROVE BarredInv'
  BY <1>4 DEF ReadLeft, Block, Ack
<1>5. ASSUME NEW r \in Req, Fail(r) \/ Redeliver(r) \/ Lose(r) PROVE BarredInv'
  BY <1>5 DEF Fail, Redeliver, Lose
<1>6. CASE Midnight \/ DropDaily \/ DropFlag \/ UNCHANGED vars
  BY <1>6 DEF Midnight, DropDaily, DropFlag, vars
<1> QED
  BY <1>1, <1>2, <1>3, <1>4, <1>5, <1>6 DEF Next, Step, Reads

\* The limit is final until Redis drops the counter: a request that arrives
\* after the counter has reached it calls no provider, through any retries,
\* redeliveries, lost tasks, midnights and evictions.
THEOREM LimitHolds == Spec => []SpentIsSpent
<1>1. Init => BarredInv
  BY DEF Init, BarredInv
<1>2. TypeOK /\ BarredInv /\ [Next]_vars => BarredInv'
  BY BarredStep
<1>3. BarredInv => SpentIsSpent
  BY DEF BarredInv, SpentIsSpent
<1> QED
  BY <1>1, <1>2, <1>3, Typing, PTL DEF Spec

-----------------------------------------------------------------------------
(* The flag.  The two keys agree while no task was caught between its      *)
(* charge and its last TTL, and nothing was evicted.                       *)

Undisturbed == cut = {} /\ ~evicted

\* What a task knows at each of its steps.
TaskInv ==
    \A r \in Req :
        /\ pc[r] \in Midway => mine[r] <= total /\ total > 0
        /\ pc[r] = "expire" => due[r] = day
        /\ pc[r] = "left" => mine[r] >= Limit /\ expiry # None
        /\ pc[r] = "block" /\ due[r] >= day => total >= Limit /\ expiry = day /\ due[r] = day

\* A key is never due later than today, and a flag with time left is due with
\* a spent counter.
KeyInv ==
    /\ expiry <= day
    /\ blocked >= day => total >= Limit /\ expiry = day /\ blocked = day

FlagInv == Undisturbed => TaskInv /\ KeyInv

\* Only a paid request is charged.
PaidInv == \A r \in Req : pc[r] \in Pending => cost[r] > 0

\* It is an invariant: a task is only enqueued for a positive cost.
LEMMA PaidHolds == Spec => []PaidInv
<1>1. Init => PaidInv
  BY DEF Init, PaidInv, Pending, Running
<1>2. TypeOK /\ PaidInv /\ [Next]_vars => PaidInv'
  BY BudgetAssumption DEF TypeOK, PaidInv, Pending, Running, redis, task, history, vars,
     Next, Step, ReadFlag, ReadSpend, CallFree, CallPaid, Charge, ReadTTL, SetTTL, Judged,
     ReadLeft, Block, Ack, Fail, Redeliver, Lose, Midnight, DropDaily, DropFlag
<1> QED
  BY <1>1, <1>2, Typing, PTL DEF Spec

\* One step keeps it.
LEMMA FlagStep == ASSUME TypeOK, PaidInv, FlagInv, [Next]_vars PROVE FlagInv'
<1> SUFFICES ASSUME Undisturbed' PROVE TaskInv' /\ KeyInv'
  BY DEF FlagInv
<1>0. Undisturbed /\ TaskInv /\ KeyInv
  <2>1. Undisturbed
    BY DEF Undisturbed, TypeOK, Next, Step, ReadFlag, ReadSpend, CallFree, CallPaid, Charge,
       ReadTTL, SetTTL, ReadLeft, Block, Ack, Fail, Redeliver, Lose, Midnight, DropDaily,
       DropFlag, CatchTasks, vars, history
  <2> QED
    BY <2>1 DEF FlagInv
<1> USE <1>0, BudgetAssumption
    DEF TypeOK, Until, None, Moment, redis, task, history, Midway
<1>1. ASSUME NEW r \in Req, Reads(r) PROVE TaskInv' /\ KeyInv'
  BY <1>1 DEF Reads, ReadFlag, ReadSpend, CallFree, CallPaid, TaskInv, KeyInv
<1>2. ASSUME NEW r \in Req, Charge(r) PROVE TaskInv' /\ KeyInv'
  <2>1. total' = total + cost[r] /\ cost[r] \in Nat /\ total' >= total /\ total' \in Nat
    BY <1>2 DEF Charge, NewTotal
  <2>2. mine'[r] = total' /\ pc'[r] = "ttl"
    BY <1>2 DEF Charge
  <2>3. \A q \in Req : q # r => mine'[q] = mine[q] /\ pc'[q] = pc[q]
    BY <1>2 DEF Charge
  <2>4. UNCHANGED <<day, expiry, blocked, due>>
    BY <1>2 DEF Charge
  <2>5. total' > 0
    BY <1>2, <2>1 DEF Charge, PaidInv, Pending
  <2> QED
    BY <2>1, <2>2, <2>3, <2>4, <2>5 DEF TaskInv, KeyInv
<1>3. ASSUME NEW r \in Req, ReadTTL(r) PROVE TaskInv' /\ KeyInv'
  BY <1>3 DEF ReadTTL, LacksTTL, Judged, Spent, TaskInv, KeyInv
<1>4. ASSUME NEW r \in Req, SetTTL(r) PROVE TaskInv' /\ KeyInv'
  <2>1. expiry' = day /\ UNCHANGED <<day, total, blocked, task>>
    BY <1>4 DEF SetTTL, Deadlines, TaskInv
  <2> QED
    BY <1>4, <2>1 DEF SetTTL, Judged, Spent, TaskInv, KeyInv
<1>5. ASSUME NEW r \in Req, ReadLeft(r) PROVE TaskInv' /\ KeyInv'
  BY <1>5 DEF ReadLeft, Remaining, TaskInv, KeyInv
<1>6. ASSUME NEW r \in Req, Block(r) \/ Ack(r) PROVE TaskInv' /\ KeyInv'
  BY <1>6 DEF Block, Ack, TaskInv, KeyInv
<1>7. ASSUME NEW r \in Req, Fail(r) \/ Redeliver(r) \/ Lose(r)
      PROVE  TaskInv' /\ KeyInv'
  BY <1>7 DEF Fail, Redeliver, Lose, TaskInv, KeyInv
<1>8. CASE Midnight
  <2>1. \A r \in Req : pc[r] \notin Midway
    BY <1>8 DEF Midnight, CatchTasks, Undisturbed
  <2> QED
    BY <1>8, <2>1 DEF Midnight, TaskInv, KeyInv
<1>9. CASE DropDaily
  <2>1. \A r \in Req : pc[r] \notin Midway
    BY <1>9 DEF DropDaily, CatchTasks, Undisturbed
  <2>2. expiry < day
    BY <1>9 DEF DropDaily, Lapsed, Undisturbed
  <2> QED
    BY <1>9, <2>1, <2>2 DEF DropDaily, TaskInv, KeyInv
<1>10. CASE DropFlag \/ UNCHANGED vars
  BY <1>10 DEF DropFlag, vars, TaskInv, KeyInv
<1> QED
  BY <1>1, <1>2, <1>3, <1>4, <1>5, <1>6, <1>7, <1>8, <1>9, <1>10 DEF Next, Step, Reads

\* The block flag, while it has time left, is only there while the counter is at
\* the limit, through failures, redeliveries, lost tasks, midnights and keys
\* that lapse one after the other, unless a task was caught between its charge
\* and its last TTL or the counter was evicted.
THEOREM FlagIsHonest == Spec => []FlagMeansSpent
<1>1. Init => FlagInv
  BY DEF Init, FlagInv, TaskInv, KeyInv, Midway, None
<1>2. TypeOK /\ PaidInv /\ FlagInv /\ [Next]_vars => FlagInv'
  BY FlagStep
<1>3. TypeOK /\ FlagInv => FlagMeansSpent
  BY DEF TypeOK, Until, None, Moment, FlagInv, KeyInv, Undisturbed, FlagMeansSpent, Lapsed
<1> QED
  BY <1>1, <1>2, <1>3, Typing, PaidHolds, PTL DEF Spec

-----------------------------------------------------------------------------
(* What a request is charged.                                              *)

Unpaid == {"new", "spend", "calling", "refused"}

\* Before a task's charge every earlier one was paid for by a fault, and after
\* it all but one were; who has not been priced is charged nothing.
Paired(r) ==
    /\ charges[r] <= faults + 1
    /\ pc[r] = "queued" \/ pc[r] \in Unpaid => charges[r] <= faults
    /\ pc[r] \in Unpaid => cost[r] = 0
    /\ pc[r] \in Running => charges[r] >= 1
    /\ pc[r] = "done" /\ cost[r] > 0 => charges[r] >= 1

AttemptInv == \A r \in Req : Paired(r)

\* One step keeps what is known of the charges.
LEMMA AttemptStep == ASSUME TypeOK, AttemptInv, [Next]_vars PROVE AttemptInv'
<1> USE BudgetAssumption
    DEF TypeOK, AttemptInv, Paired, Unpaid, Running, Pending, redis, task, history
<1>1. ASSUME NEW r \in Req, Reads(r) PROVE AttemptInv'
  BY <1>1 DEF Reads, ReadFlag, ReadSpend, CallFree, CallPaid
<1>2. ASSUME NEW r \in Req, Charge(r) PROVE AttemptInv'
  BY <1>2 DEF Charge
<1>3. ASSUME NEW r \in Req, ReadTTL(r) \/ SetTTL(r) PROVE AttemptInv'
  BY <1>3 DEF ReadTTL, SetTTL, Judged
<1>4. ASSUME NEW r \in Req, ReadLeft(r) \/ Block(r) \/ Ack(r) PROVE AttemptInv'
  BY <1>4 DEF ReadLeft, Block, Ack
<1>5. ASSUME NEW r \in Req, Fail(r) PROVE AttemptInv'
  BY <1>5 DEF Fail
<1>6. ASSUME NEW r \in Req, Redeliver(r) \/ Lose(r) PROVE AttemptInv'
  BY <1>6 DEF Redeliver, Lose
<1>7. CASE Midnight \/ DropDaily \/ DropFlag \/ UNCHANGED vars
  BY <1>7 DEF Midnight, DropDaily, DropFlag, vars
<1> QED
  BY <1>1, <1>2, <1>3, <1>4, <1>5, <1>6, <1>7 DEF Next, Step, Reads

\* Only failures charge a request more than once, each of them once more, and
\* no paid request is done without a charge: across midnight, eviction and
\* lost tasks.
THEOREM ChargesCounted == Spec => []ChargedPerAttempt
<1>1. Init => AttemptInv
  <2> SUFFICES ASSUME Init, NEW r \in Req PROVE Paired(r)
    BY DEF AttemptInv
  <2> QED
    BY DEF Init, Paired, Unpaid, Running
<1>2. TypeOK /\ AttemptInv /\ [Next]_vars => AttemptInv'
  BY AttemptStep
<1>3. TypeOK /\ AttemptInv => ChargedPerAttempt
  <2> SUFFICES ASSUME TypeOK, AttemptInv, NEW r \in Req
               PROVE  /\ charges[r] <= 1 + faults
                      /\ pc[r] = "done" /\ cost[r] > 0 => charges[r] >= 1
    BY DEF ChargedPerAttempt
  <2> QED
    BY BudgetAssumption DEF TypeOK, AttemptInv, Paired
<1> QED
  BY <1>1, <1>2, <1>3, Typing, PTL DEF Spec

-----------------------------------------------------------------------------
(* Midnight.                                                               *)

\* While no task has failed and none was caught between its INCRBYFLOAT and its
\* EXPIRE, a counter without a TTL is of today and has a task at work on it, and
\* any other is due at the end of the day it was created on.
CarryInv ==
    /\ total = 0 => expiry = None
    /\ faults = 0 /\ cut \cap {"ttl", "expire"} = {} =>
          /\ total > 0 /\ expiry = None =>
                born = day /\ \E r \in Req : pc[r] \in {"ttl", "expire"}
          /\ total > 0 /\ expiry # None => expiry = born
          /\ \A r \in Req : pc[r] = "expire" => due[r] = day /\ total > 0 /\ born = day

\* One step keeps it.
LEMMA CarryStep == ASSUME TypeOK, PaidInv, CarryInv, [Next]_vars PROVE CarryInv'
<1> USE BudgetAssumption DEF TypeOK, CarryInv, None, redis, task, history
<1>1. ASSUME NEW r \in Req, Reads(r) PROVE CarryInv'
  BY <1>1 DEF Reads, ReadFlag, ReadSpend, CallFree, CallPaid
<1>2. ASSUME NEW r \in Req, Charge(r) PROVE CarryInv'
  <2>1. total' > 0 /\ UNCHANGED <<day, expiry, due, faults, cut>>
    BY <1>2 DEF Charge, NewTotal, PaidInv, Pending
  <2>2. born' = IF total = 0 THEN day ELSE born
    BY <1>2 DEF Charge
  <2>3. pc'[r] = "ttl" /\ \A q \in Req : q # r => pc'[q] = pc[q]
    BY <1>2 DEF Charge
  <2> QED
    BY <2>1, <2>2, <2>3
<1>3. ASSUME NEW r \in Req, ReadTTL(r) PROVE CarryInv'
  BY <1>3 DEF ReadTTL, Judged, LacksTTL, Spent
<1>4. ASSUME NEW r \in Req, SetTTL(r) PROVE CarryInv'
  BY <1>4 DEF SetTTL, Judged, Spent, Deadlines
<1>5. ASSUME NEW r \in Req, ReadLeft(r) \/ Block(r) \/ Ack(r) PROVE CarryInv'
  BY <1>5 DEF ReadLeft, Block, Ack
<1>6. ASSUME NEW r \in Req, Fail(r) \/ Redeliver(r) \/ Lose(r) PROVE CarryInv'
  BY <1>6 DEF Fail, Redeliver, Lose
<1>7. CASE Midnight \/ DropDaily
  <2>1. cut' \cap {"ttl", "expire"} = {} =>
           /\ cut \cap {"ttl", "expire"} = {}
           /\ \A r \in Req : pc[r] \notin {"ttl", "expire"}
    BY <1>7 DEF Midnight, DropDaily, CatchTasks, Midway
  <2> QED
    BY <1>7, <2>1 DEF Midnight, DropDaily
<1>8. CASE DropFlag \/ UNCHANGED vars
  BY <1>8 DEF DropFlag, vars
<1> QED
  BY <1>1, <1>2, <1>3, <1>4, <1>5, <1>6, <1>7, <1>8 DEF Next, Step, Reads

\* While no task has failed, a charge outlives its day only when midnight, or the
\* end of the counter, caught a task between its INCRBYFLOAT and its EXPIRE.
THEOREM CarriedOnlyIfCaught == Spec => []CarriedByCaughtTask
<1>1. Init => CarryInv
  BY DEF Init, CarryInv
<1>2. TypeOK /\ PaidInv /\ CarryInv /\ [Next]_vars => CarryInv'
  BY CarryStep
<1>3. TypeOK /\ CarryInv => CarriedByCaughtTask
  BY DEF TypeOK, CarryInv, CarriedByCaughtTask, CarriesOver, Lapsed
<1> QED
  BY <1>1, <1>2, <1>3, Typing, PaidHolds, PTL DEF Spec
=============================================================================
