----------------------------- MODULE RateLimiter -----------------------------
(***************************************************************************)
(* The rate limiter of one client (api/rate_limiter.py): check_rate_limit  *)
(* takes a timestamp in the API process and then runs a Lua script in      *)
(* Redis, atomically, that counts the request in the bucket of its         *)
(* timestamp and weighs the bucket before.  Several requests of the client *)
(* are in flight, so scripts run in any order of their timestamps.         *)
(*                                                                         *)
(* Time is in ticks, any number of them to a second: time.time() has a     *)
(* fraction, which the weight takes in and Retry-After drops.  The API     *)
(* workers and Redis share the clock of one host.                          *)
(***************************************************************************)
EXTENDS Integers

CONSTANTS
    Slot,       \* requests that may be in flight
    Second,     \* the ticks of a second: the resolution of the clock
    Window,     \* rate_limit_window_seconds, in ticks
    Limit,      \* rate_limit_requests
    MaxLag,     \* the longest delay between the timestamp and the script
    LastTime,   \* bound: the last tick of a behaviour
    MaxEvals    \* bound: script runs in a behaviour

ASSUME RateAssumption ==
    /\ Second \in Nat \ {0} /\ Window \in Nat \ {0} /\ Limit \in Nat \ {0}
    /\ \E k \in 1 .. Window : Window = k * Second
    /\ MaxLag \in Nat /\ LastTime \in Nat /\ MaxEvals \in Nat

Time == 0 .. LastTime

VARIABLES
    now,        \* the clock
    hits,       \* the counter of each bucket
    dies,       \* when the key of a bucket expires
    pc,         \* "idle", "stamped" or "told" (to retry later)
    stamp,      \* the timestamp a request carries
    wake,       \* when Retry-After has passed
    evals,      \* bound counter
    admitted,   \* history: admitted requests stamped by each tick
    newest,     \* history: the latest timestamp a script has run for
    late,       \* history: a script ran after its bucket or a later timestamp's
    alone,      \* history: requests rejected with no script run since
    snubs       \* history: how often such a request waited and was rejected again

vars == <<now, hits, dies, pc, stamp, wake, evals, admitted, newest, late, alone, snubs>>

BucketOf(t) == t \div Window
Bucket == 0 .. BucketOf(LastTime)

Init ==
    /\ now      = 0
    /\ hits     = [b \in Bucket |-> 0]
    /\ dies     = [b \in Bucket |-> 0]
    /\ pc       = [r \in Slot |-> "idle"]
    /\ stamp    = [r \in Slot |-> 0]
    /\ wake     = [r \in Slot |-> 0]
    /\ evals    = 0
    /\ admitted = [t \in Time |-> 0]
    /\ newest   = 0
    /\ late     = FALSE
    /\ alone    = {}
    /\ snubs    = 0

-----------------------------------------------------------------------------
ShortLife == Window
Life      == 2 * Window

\* What INCR and GET find: nothing once the key has expired.
Live(b) == IF b \in Bucket /\ now < dies[b] THEN hits[b] ELSE 0

\* The weighted count of a request stamped t, times Window: its own bucket
\* with the request in it, and the part of the bucket before that the window
\* still overlaps.
FixedWindow(t) == Window * (Live(BucketOf(t)) + 1)
Weighted(t) == Window * (Live(BucketOf(t)) + 1)
                 + (Window - (t % Window)) * Live(BucketOf(t) - 1)

OverBefore(t) == Weighted(t) - Window > Window * Limit
Over(t)       == Weighted(t) > Window * Limit

\* int(now), in ticks.
Whole(t) == (t \div Second) * Second

RetryAtOnce(t) == Whole(t) % Window
RetryAfter(t)  == Window - (Whole(t) % Window)

Stamp(r) ==
    /\ \/ pc[r] = "idle"
       \/ pc[r] = "told" /\ now >= wake[r]
    /\ evals < MaxEvals
    /\ pc'    = [pc EXCEPT ![r] = "stamped"]
    /\ stamp' = [stamp EXCEPT ![r] = now]
    /\ UNCHANGED <<now, hits, dies, wake, evals, admitted, newest, late, alone, snubs>>

TokensLeft(b) == Live(b) - 1
Counted(b)    == Live(b) + 1

\* INCR, and EXPIRE when it created the key.
Count(b) ==
    /\ hits' = [hits EXCEPT ![b] = Counted(b)]
    /\ dies' = [dies EXCEPT ![b] = IF Live(b) = 0 THEN now + Life ELSE @]

Evaluate(r) ==
    /\ pc[r] = "stamped"
    /\ evals' = evals + 1
    /\ newest' = IF stamp[r] > newest THEN stamp[r] ELSE newest
    /\ late'   = (late \/ stamp[r] < newest \/ BucketOf(stamp[r]) < BucketOf(now))
    /\ Count(BucketOf(stamp[r]))
    /\ \/ /\ Over(stamp[r])
          /\ pc'      = [pc EXCEPT ![r] = "told"]
          /\ wake'    = [wake EXCEPT ![r] = now + RetryAfter(stamp[r])]
          /\ alone'   = {r}
          /\ snubs'   = IF r \in alone THEN snubs + 1 ELSE 0
          /\ UNCHANGED admitted
       \/ /\ ~Over(stamp[r])
          /\ pc'       = [pc EXCEPT ![r] = "idle"]
          /\ admitted' = [t \in Time |-> IF stamp[r] <= t THEN admitted[t] + 1
                                                         ELSE admitted[t]]
          /\ alone'    = {}
          /\ snubs'    = 0
          /\ UNCHANGED wake
    /\ UNCHANGED <<now, stamp>>

\* A rejected client need not come back with the same request.
GiveUp(r) ==
    /\ pc[r] = "told"
    /\ pc'    = [pc EXCEPT ![r] = "idle"]
    /\ alone' = alone \ {r}
    /\ UNCHANGED <<now, hits, dies, stamp, wake, evals, admitted, newest, late, snubs>>

\* A tick passes; no request in flight is older than MaxLag.
Tick ==
    /\ now < LastTime
    /\ \A r \in Slot : pc[r] = "stamped" => now - stamp[r] < MaxLag
    /\ now' = now + 1
    /\ UNCHANGED <<hits, dies, pc, stamp, wake, evals, admitted, newest, late, alone, snubs>>

Next == \/ \E r \in Slot : Stamp(r) \/ Evaluate(r) \/ GiveUp(r)
        \/ Tick

Spec == Init /\ [][Next]_vars

-----------------------------------------------------------------------------
(* Properties.                                                             *)

\* Every variable keeps its type.
TypeOK ==
    /\ now \in Time /\ newest \in Time /\ evals \in Nat /\ late \in BOOLEAN /\ snubs \in Nat
    /\ alone \subseteq Slot
    /\ hits  \in [Bucket -> Nat] /\ dies \in [Bucket -> Nat]
    /\ pc    \in [Slot -> {"idle", "stamped", "told"}]
    /\ stamp \in [Slot -> Time]  /\ wake \in [Slot -> Nat]
    /\ admitted \in [Time -> Nat]

UpTo(t) == IF t < 0 THEN 0 ELSE IF t > LastTime THEN admitted[LastTime] ELSE admitted[t]

Admitted(from, to) == UpTo(to) - UpTo(from - 1)

\* However the scripts are delayed (up to MaxLag), no fixed window admits more
\* than the limit.
BucketBound == \A b \in Bucket : Admitted(b * Window, b * Window + Window - 1) <= Limit

\* How far the approximation can be wrong, as long as scripts run in the order of
\* their timestamps and within their buckets: in the window that ends at t, the
\* limit can be exceeded by the fraction of t's bucket that has passed.
SlidingExcess ==
    ~late => \A t \in Time :
        Window * Admitted(t - Window + 1, t) <= Limit * (Window + (t % Window))

\* A counter outlives its bucket and the next, the last it is weighed in, also
\* when its key was created by a late script, or again.
CountersLiveOn ==
    \A b \in {BucketOf(now) - 1, BucketOf(now)} \cap Bucket :
        hits[b] > 0 => now < dies[b]

\* Retry-After promises the next bucket, where the last one still counts in
\* full, so one wait may not do.  Two do: as long as scripts run within their
\* buckets, in order, who waits for Retry-After each time, with no other request
\* counted in between, is rejected at most once more (given a limit that admits
\* two requests, for the rejected ones count as well).
SecondRetrySuffices == ~late /\ Limit >= 2 => snubs <= 1
=============================================================================
