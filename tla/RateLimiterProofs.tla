-------------------------- MODULE RateLimiterProofs --------------------------
(***************************************************************************)
(* Theorems about RateLimiter, for any window, limit and delays, and any   *)
(* number of requests in flight.                                           *)
(***************************************************************************)
EXTENDS RateLimiter, TLAPS

-----------------------------------------------------------------------------
(* Arithmetic of the window.                                               *)

\* The parameters are numbers.
LEMMA Rates ==
    /\ Second \in Nat \ {0} /\ Window \in Nat \ {0} /\ Limit \in Nat \ {0}
    /\ MaxLag \in Nat /\ LastTime \in Nat /\ MaxEvals \in Nat
BY RateAssumption

\* A time is its bucket's start and the rest.
LEMMA Divided ==
    ASSUME NEW t \in Int
    PROVE  /\ BucketOf(t) \in Int /\ t % Window \in 0 .. Window - 1
           /\ t = BucketOf(t) * Window + (t % Window)
           /\ t \in Nat => BucketOf(t) \in Nat
BY Rates DEF BucketOf

\* The rest of a bucket.
LEMMA Remains ==
    ASSUME NEW t \in Int
    PROVE  t % Window \in Nat /\ t % Window < Window /\ Window - (t % Window) \in Nat
<1>1. t % Window \in 0 .. Window - 1 /\ Window \in Int
  BY Divided, Rates
<1> QED
  BY <1>1

\* Later times are in later buckets.
LEMMA Buckets ==
    ASSUME NEW s \in Int, NEW t \in Int, s <= t
    PROVE  BucketOf(s) <= BucketOf(t)
BY Rates DEF BucketOf

\* A bucket is an interval.
LEMMA InItsBucket ==
    ASSUME NEW t \in Int, NEW b \in Int
    PROVE  BucketOf(t) = b <=> b * Window <= t /\ t <= b * Window + Window - 1
BY Rates DEF BucketOf

\* The second of a time is in its bucket, for a window is so many seconds.
LEMMA Floored ==
    ASSUME NEW t \in Int
    PROVE  /\ Whole(t) \in Int /\ Whole(t) <= t /\ BucketOf(t) * Window <= Whole(t)
           /\ Whole(t) % Window = Whole(t) - BucketOf(t) * Window
<1>1. PICK k \in Nat : Window = k * Second
  BY RateAssumption
<1>2. PICK q \in Int : q = t \div Second /\ q * Second <= t /\ t < q * Second + Second
  BY Rates
<1>3. PICK b \in Int : b = BucketOf(t) /\ b * Window \in Int /\ b * Window <= t
                       /\ t <= b * Window + Window - 1
  <2>1. BucketOf(t) \in Int /\ BucketOf(t) * Window \in Int
    BY Divided, Rates
  <2> QED
    BY <2>1, InItsBucket
<1>4. Whole(t) = q * Second /\ q * Second \in Int
  BY <1>2, Rates DEF Whole
<1>5. b * Window <= q * Second
  <2>1. b * Window = (b * k) * Second /\ b * k \in Int
    BY <1>1, <1>3, Rates
  <2>2. b * k < q + 1
    <3>1. (b * k) * Second < (q + 1) * Second
      BY <1>2, <1>3, <2>1, Rates
    <3> QED
      BY <1>2, <2>1, <3>1, Rates
  <2>3. b * k <= q
    BY <1>2, <2>1, <2>2
  <2> QED
    BY <1>2, <2>1, <2>3, Rates
<1>6. BucketOf(Whole(t)) = b
  <2>1. Whole(t) \in Int /\ b * Window <= Whole(t) /\ Whole(t) <= b * Window + Window - 1
    BY <1>2, <1>3, <1>4, <1>5, Rates
  <2> QED
    BY <1>3, <2>1, InItsBucket
<1>7. Whole(t) = b * Window + (Whole(t) % Window) /\ Whole(t) % Window \in Int
  BY <1>4, <1>6, Divided, Rates
<1> QED
  BY <1>2, <1>3, <1>4, <1>5, <1>7

\* Multiples of the window.
LEMMA Later ==
    ASSUME NEW a \in Int, NEW b \in Int
    PROVE  /\ a * Window \in Int
           /\ a <= b <=> a * Window <= b * Window
           /\ a < b <=> a * Window + Window <= b * Window
           /\ (a - 1) * Window = a * Window - Window
           /\ (a + 1) * Window = a * Window + Window
BY Rates

LEMMA Scaled ==
    ASSUME NEW k \in Nat, NEW x \in Int, NEW y \in Int, x <= y
    PROVE  k * x \in Int /\ k * y \in Int /\ k * x <= k * y
OBVIOUS

LEMMA Shrunk ==
    ASSUME NEW x \in Int, NEW y \in Int, Window * x <= Window * y
    PROVE  x <= y
BY Rates

-----------------------------------------------------------------------------
(* The invariant.                                                          *)

\* No script is older than MaxLag.
Flight(r) == pc[r] = "stamped" => stamp[r] <= now /\ now - stamp[r] <= MaxLag

\* A counter exists from its bucket's first second on, and its key lives at
\* least until the bucket after it has passed.
Key(b) == hits[b] > 0 => b * Window <= now /\ b * Window + 2 * Window <= dies[b]

\* The history only rises, up to the latest timestamp a script has run for.
Rises(s, t)  == s <= t => admitted[s] <= admitted[t]
Cumulative == /\ \A s, t \in Time : Rises(s, t)
              /\ \A t \in Time : t >= newest => admitted[t] = admitted[newest]

InBucket(b) == Admitted(b * Window, b * Window + Window - 1)

\* A counter misses none of the requests that its bucket has admitted, ...
Full(b) == ~late \/ MaxLag <= Window => InBucket(b) <= hits[b] /\ InBucket(b) <= Limit

\* ... so that the last one of them was weighed against all before it.
Before(t)  == BucketOf(t) * Window - 1
Sofar(t)   == UpTo(t) - UpTo(Before(t))
Overlap(t) == UpTo(Before(t)) - UpTo(Before(t) - Window)
Slides(t) ==
    ~late /\ Sofar(t) > 0 =>
        Window * Sofar(t) + (Window - (t % Window)) * Overlap(t) <= Window * Limit

\* Who has been rejected with no script run since finds the next bucket empty,
\* and after a second time no more than its own request in the one before.
Empty(b, c) == b >= c => hits[b] = 0
Thin(b, c)  == b + 1 >= c => hits[b] <= 1

Waits(r) ==
    /\ pc[r] \in {"told", "stamped"} /\ (pc[r] = "stamped" => stamp[r] >= wake[r])
    /\ \A b \in Bucket : /\ Empty(b, BucketOf(wake[r]))
                         /\ snubs >= 1 => Thin(b, BucketOf(wake[r]))

Patient == ~late => /\ \A r \in alone : Waits(r)
                    /\ Limit >= 2 => snubs <= 1

Inv == /\ TypeOK /\ Cumulative /\ Patient
       /\ \A r \in Slot : Flight(r)
       /\ \A b \in Bucket : Key(b) /\ Full(b)
       /\ \A t \in Time : Slides(t)

-----------------------------------------------------------------------------
(* Types.                                                                  *)

\* A counter that is read is a number.
LEMMA LiveType ==
    ASSUME TypeOK, NEW b \in Int
    PROVE  Live(b) \in Nat
BY DEF Live, TypeOK

\* A stamp was taken up to now.
LEMMA StampType ==
    ASSUME NEW t \in Time
    PROVE  /\ BucketOf(t) \in Bucket /\ BucketOf(t) \in Nat
           /\ RetryAfter(t) \in 1 .. Window /\ t + RetryAfter(t) \in Nat
<1>1. t \in Int /\ LastTime \in Int /\ t <= LastTime /\ t \in Nat
  BY Rates DEF Time
<1>2. BucketOf(t) \in Nat /\ BucketOf(t) <= BucketOf(LastTime) /\ BucketOf(LastTime) \in Int
  BY <1>1, Divided, Buckets
<1>3. Whole(t) % Window \in 0 .. Window - 1
  BY <1>1, Floored, Divided
<1> QED
  BY <1>1, <1>2, <1>3, Rates DEF Bucket, RetryAfter

LEMMA TypeInit == Init => TypeOK
<1> SUFFICES ASSUME Init PROVE TypeOK
  OBVIOUS
<1>1. 0 \in Time
  BY Rates DEF Time
<1> QED
  BY <1>1 DEF Init, TypeOK

LEMMA TypeStep == TypeOK /\ [Next]_vars => TypeOK'
<1> SUFFICES ASSUME TypeOK, [Next]_vars PROVE TypeOK'
  OBVIOUS
<1>1. ASSUME NEW r \in Slot, Stamp(r) PROVE TypeOK'
  BY <1>1 DEF Stamp, TypeOK
<1>2. ASSUME NEW r \in Slot, Evaluate(r) PROVE TypeOK'
  <2> DEFINE b == BucketOf(stamp[r])
  <2>1. stamp[r] \in Time /\ now \in Nat /\ now \in Time
    BY Rates DEF TypeOK, Time
  <2>0. b \in Bucket /\ b \in Nat /\ RetryAfter(stamp[r]) \in 1 .. Window
    BY <2>1, StampType
  <2>2. b \in Bucket /\ b \in Int /\ now + RetryAfter(stamp[r]) \in Nat
    BY <2>0, <2>1, Rates
  <2>3. Live(b) + 1 \in Nat /\ now + Life \in Nat
    BY <2>1, <2>2, LiveType, Rates DEF Life
  <2>4. hits' \in [Bucket -> Nat] /\ dies' \in [Bucket -> Nat]
    BY <1>2, <2>2, <2>3 DEF Evaluate, Count, Counted, TypeOK
  <2>5. admitted' \in [Time -> Nat]
    BY <1>2 DEF Evaluate, TypeOK
  <2>6. wake' \in [Slot -> Nat] /\ pc' \in [Slot -> {"idle", "stamped", "told"}]
    BY <1>2, <2>2 DEF Evaluate, TypeOK
  <2>7. /\ now' = now /\ stamp' = stamp /\ evals' = evals + 1
        /\ newest' \in Time
        /\ late' \in BOOLEAN /\ snubs' \in Nat /\ alone' \subseteq Slot
    BY <1>2 DEF Evaluate, TypeOK
  <2> QED
    BY <2>4, <2>5, <2>6, <2>7 DEF TypeOK
<1>3. ASSUME NEW r \in Slot, GiveUp(r) PROVE TypeOK'
  BY <1>3 DEF GiveUp, TypeOK
<1>4. CASE Tick
  BY <1>4, Rates DEF Tick, TypeOK, Time
<1>5. CASE UNCHANGED vars
  BY <1>5 DEF TypeOK, vars
<1> QED
  BY <1>1, <1>2, <1>3, <1>4, <1>5 DEF Next

\* Every variable keeps its type.
THEOREM Typing == Spec => []TypeOK
BY TypeInit, TypeStep, PTL DEF Spec

-----------------------------------------------------------------------------
(* The history of admissions.                                              *)

\* What was admitted up to a time, also outside the bounds of time.
LEMMA UpToIs ==
    ASSUME TypeOK, Cumulative, NEW s \in Int, NEW t \in Int
    PROVE  /\ UpTo(s) \in Nat /\ (s <= t => UpTo(s) <= UpTo(t))
           /\ newest <= s => UpTo(s) = admitted[newest]
<1>1. newest \in Time /\ LastTime \in Time /\ Time \subseteq Int /\ 0 \in Time
      /\ \A u \in Int : u \in Time <=> 0 <= u /\ u <= LastTime
  BY Rates DEF TypeOK, Time
<1>2. \A u \in Time : admitted[u] \in Nat
  BY DEF TypeOK
<1>3. \A u, v \in Time : u <= v => admitted[u] <= admitted[v]
  BY DEF Cumulative, Rises
<1>4. UpTo(s) \in Nat
  BY <1>1, <1>2 DEF UpTo
<1>5. ASSUME s <= t PROVE UpTo(s) <= UpTo(t)
  BY <1>1, <1>2, <1>3, <1>5 DEF UpTo
<1>6. ASSUME newest <= s PROVE UpTo(s) = admitted[newest]
  BY <1>1, <1>6 DEF UpTo, Cumulative
<1> QED
  BY <1>4, <1>5, <1>6

\* An admitted request counts from its stamp on, and nowhere before.
LEMMA UpToStep ==
    ASSUME TypeOK, NEW s \in Time,
           admitted' = [t \in Time |-> IF s <= t THEN admitted[t] + 1 ELSE admitted[t]],
           NEW t \in Int
    PROVE  UpTo(t)' = UpTo(t) + (IF s <= t THEN 1 ELSE 0)
<1>1. LastTime \in Time /\ s \in Int /\ 0 <= s /\ s <= LastTime
      /\ \A u \in Int : u \in Time <=> 0 <= u /\ u <= LastTime
  BY Rates DEF TypeOK, Time
<1>2. \A u \in Time : admitted[u] \in Nat
  BY DEF TypeOK
<1>3. \A u \in Time : admitted'[u] = admitted[u] + (IF s <= u THEN 1 ELSE 0)
  BY <1>2
<1> QED
  BY <1>1, <1>2, <1>3 DEF UpTo

LEMMA AdmittedStep ==
    ASSUME TypeOK, Cumulative, NEW s \in Time,
           admitted' = [t \in Time |-> IF s <= t THEN admitted[t] + 1 ELSE admitted[t]],
           NEW b \in Int
    PROVE  InBucket(b)' = InBucket(b) + (IF BucketOf(s) = b THEN 1 ELSE 0)
<1>1. s \in Int
  BY Rates DEF Time
<1>2. b * Window \in Int /\ b * Window + Window - 1 \in Int /\ b * Window - 1 \in Int
      /\ b * Window - 1 < b * Window + Window - 1
  BY Later, Rates
<1> DEFINE lo == b * Window - 1
           hi == b * Window + Window - 1
<1>3. UpTo(lo)' = UpTo(lo) + (IF s <= lo THEN 1 ELSE 0) /\ UpTo(lo) \in Nat
  BY <1>2, UpToStep, UpToIs
<1>4. UpTo(hi)' = UpTo(hi) + (IF s <= hi THEN 1 ELSE 0) /\ UpTo(hi) \in Nat
  BY <1>2, UpToStep, UpToIs
<1>5. BucketOf(s) = b <=> lo < s /\ s <= hi
  BY <1>1, <1>2, InItsBucket
<1>6. InBucket(b) = UpTo(hi) - UpTo(lo)
  BY DEF InBucket, Admitted
<1>7. InBucket(b)' = UpTo(hi)' - UpTo(lo)'
  BY DEF InBucket, Admitted
<1> HIDE DEF lo, hi
<1>8. lo \in Int /\ hi \in Int /\ lo < hi
  BY <1>2 DEF lo, hi
<1> QED
  BY <1>1, <1>3, <1>4, <1>5, <1>6, <1>7, <1>8

-----------------------------------------------------------------------------
(* The script.                                                             *)

\* A counter whose key cannot have expired.
LEMMA Alive ==
    ASSUME TypeOK, NEW b \in Bucket, Key(b), now < b * Window + 2 * Window
    PROVE  Live(b) = hits[b]
<1>1. b \in Int /\ now \in Int /\ hits[b] \in Nat /\ dies[b] \in Nat
  <2>1. b \in Int
    BY DEF Bucket
  <2>2. now \in Int
    BY Rates DEF TypeOK, Time
  <2> QED
    BY <2>1, <2>2 DEF TypeOK
<1>2. b * Window \in Int
  BY <1>1, Later
<1> QED
  BY <1>1, <1>2, Rates DEF Key, Live

\* Who is admitted fits under the limit, with what is weighed of the bucket before.
LEMMA UnderLimit ==
    ASSUME TypeOK, NEW t \in Time, ~Over(t)
    PROVE  /\ Window * (Live(BucketOf(t)) + 1)
                 + (Window - (t % Window)) * Live(BucketOf(t) - 1) <= Window * Limit
           /\ Live(BucketOf(t)) + 1 <= Limit
<1> DEFINE n == Live(BucketOf(t)) + 1
           p == Live(BucketOf(t) - 1)
           k == Window - (t % Window)
<1>1. t \in Int /\ BucketOf(t) \in Int /\ k \in Nat
  <2>1. t \in Int
    BY Rates DEF Time
  <2> QED
    BY <2>1, Divided, Rates
<1>2. n \in Nat /\ p \in Nat
  BY <1>1, LiveType
<1>3. ~(Window * n + k * p > Window * Limit)
  BY DEF Over, Weighted
<1> HIDE DEF n, p, k
<1>4. k * p \in Nat /\ Window * n \in Int /\ Window * Limit \in Int
  BY <1>1, <1>2, Rates
<1>5. Window * n + k * p <= Window * Limit /\ Window * n <= Window * Limit
  BY <1>3, <1>4
<1>6. n <= Limit
  BY <1>2, <1>5, Shrunk, Rates
<1> QED
  BY <1>5, <1>6 DEF n, p, k

\* What is known of the request whose script runs.
LEMMA Evaluated ==
    ASSUME Inv, NEW r \in Slot, Evaluate(r), NEW s, s = stamp[r], NEW b, b = BucketOf(s)
    PROVE  /\ s \in Time /\ s \in Int /\ now \in Int /\ s <= now /\ now - s <= MaxLag
           /\ b \in Bucket /\ b \in Nat /\ b * Window \in Int
           /\ b * Window <= s /\ s <= b * Window + Window - 1
           /\ hits' = [hits EXCEPT ![b] = Live(b) + 1] /\ Live(b) \in Nat
           /\ now' = now /\ stamp' = stamp
           /\ newest' = IF s > newest THEN s ELSE newest
           /\ ~late' => ~late /\ newest <= s /\ BucketOf(now) = b /\ now <= b * Window + Window - 1
           /\ ~late' \/ MaxLag <= Window => Live(b) = hits[b]
<1>1. TypeOK /\ Flight(r)
  BY DEF Inv
<1>2. s \in Time /\ s \in Int /\ now \in Int /\ s <= now /\ now - s <= MaxLag
  BY <1>1, Rates DEF Evaluate, Flight, TypeOK, Time
<1>3. b \in Bucket /\ b \in Nat
  BY <1>2, StampType
<1>4. b * Window \in Int /\ b * Window <= s /\ s <= b * Window + Window - 1
  <2>1. b * Window \in Int
    BY <1>3, Later
  <2> QED
    BY <1>2, <1>3, <2>1, InItsBucket
<1>5. Live(b) \in Nat
  BY <1>1, <1>3, LiveType
<1>6. ~late' => ~late /\ newest <= s /\ BucketOf(now) = b /\ now <= b * Window + Window - 1
  <2>1. ~late' => ~late /\ ~(s < newest) /\ ~(b < BucketOf(now))
    BY DEF Evaluate
  <2>2. newest \in Int /\ BucketOf(now) \in Int /\ b <= BucketOf(now)
    BY <1>1, <1>2, Divided, Buckets DEF TypeOK, Time
  <2>3. ~late' => ~late /\ newest <= s /\ BucketOf(now) = b
    BY <1>2, <1>3, <2>1, <2>2
  <2>4. BucketOf(now) = b => now <= b * Window + Window - 1
    BY <1>2, <1>3, InItsBucket
  <2> QED
    BY <2>3, <2>4
<1>7. ASSUME ~late' \/ MaxLag <= Window PROVE Live(b) = hits[b]
  <2>1. now < b * Window + 2 * Window
    BY <1>2, <1>4, <1>6, <1>7, Rates
  <2>2. Key(b)
    BY <1>3 DEF Inv
  <2> QED
    BY <1>1, <1>3, <2>1, <2>2, Alive
<1> QED
  BY <1>2, <1>3, <1>4, <1>5, <1>6, <1>7 DEF Evaluate, Count, Counted

\* One step keeps the counters' keys.
LEMMA KeyStep ==
    ASSUME Inv, NEW r \in Slot, Evaluate(r), NEW c \in Bucket
    PROVE  Key(c)'
<1> DEFINE s == stamp[r]
           b == BucketOf(s)
<1>1. /\ s \in Int /\ now \in Int /\ s <= now /\ b \in Bucket /\ b * Window \in Int
      /\ b * Window <= s /\ hits' = [hits EXCEPT ![b] = Live(b) + 1] /\ now' = now
  BY Evaluated
<1>2. TypeOK /\ Key(c)
  BY DEF Inv
<1>3. dies' = [dies EXCEPT ![b] = IF Live(b) = 0 THEN now + Life ELSE @]
  BY DEF Evaluate, Count
<1> HIDE DEF s, b
<1>4. CASE c # b
  BY <1>1, <1>2, <1>3, <1>4 DEF TypeOK, Key
<1>5. CASE c = b
  <2>1. CASE Live(b) = 0
    <3>1. dies'[b] = now + 2 * Window
      BY <1>1, <1>2, <1>3, <2>1 DEF TypeOK, Life
    <3> QED
      BY <1>1, <1>5, <3>1, Rates DEF Key
  <2>2. CASE Live(b) # 0
    <3>1. hits[b] > 0 /\ dies'[b] = dies[b]
      BY <1>1, <1>2, <1>3, <2>2 DEF TypeOK, Live
    <3> QED
      BY <1>1, <1>2, <1>5, <3>1 DEF Key
  <2> QED
    BY <2>1, <2>2
<1> QED
  BY <1>4, <1>5

\* One step lets no bucket overflow.
LEMMA FullStep ==
    ASSUME Inv, NEW r \in Slot, Evaluate(r), NEW c \in Bucket
    PROVE  Full(c)'
<1> SUFFICES ASSUME ~late' \/ MaxLag <= Window
             PROVE  InBucket(c)' <= hits'[c] /\ InBucket(c)' <= Limit
  BY DEF Full
<1> DEFINE s == stamp[r]
           b == BucketOf(s)
<1>1. /\ s \in Time /\ b \in Bucket /\ hits' = [hits EXCEPT ![b] = Live(b) + 1]
      /\ Live(b) = hits[b]
      /\ ~late \/ MaxLag <= Window
  BY Evaluated
<1> HIDE DEF s, b
<1>2. TypeOK /\ Cumulative /\ InBucket(c) <= hits[c] /\ InBucket(c) <= Limit
  BY <1>1 DEF Inv, Full
<1>3. InBucket(c) \in Int /\ hits[c] \in Nat /\ Limit \in Nat
  <2>1. c \in Int /\ c * Window \in Int
    BY Later DEF Bucket
  <2>2. c * Window - 1 \in Int /\ c * Window + Window - 1 \in Int
    BY <2>1, Rates
  <2>3. UpTo(c * Window - 1) \in Nat /\ UpTo(c * Window + Window - 1) \in Nat
    BY <1>2, <2>2, UpToIs
  <2> QED
    BY <1>2, <2>3, Rates DEF InBucket, Admitted, TypeOK
<1>4. hits'[c] = IF c = b THEN hits[c] + 1 ELSE hits[c]
  BY <1>1, <1>2 DEF TypeOK
<1>5. CASE UNCHANGED admitted
  <2>1. InBucket(c)' = InBucket(c)
    BY <1>5 DEF InBucket, Admitted, UpTo
  <2> QED
    BY <1>2, <1>3, <1>4, <2>1
<1>6. CASE ~Over(s) /\ admitted' = [t \in Time |-> IF s <= t THEN admitted[t] + 1
                                                        ELSE admitted[t]]
  <2>1. InBucket(c)' = InBucket(c) + (IF b = c THEN 1 ELSE 0)
    <3>1. c \in Int
      BY DEF Bucket
    <3> QED
      BY <1>1, <1>2, <1>6, <3>1, AdmittedStep DEF b
  <2>2. hits[b] + 1 <= Limit
    BY <1>1, <1>2, <1>6, UnderLimit DEF s, b
  <2> QED
    BY <1>2, <1>3, <1>4, <2>1, <2>2
<1> QED
  BY <1>5, <1>6 DEF Evaluate, s

\* What the window still overlaps of the bucket before was weighed.
LEMMA OverlapIs ==
    ASSUME TypeOK, Cumulative, NEW t \in Time
    PROVE  /\ Overlap(t) \in Nat /\ Sofar(t) \in Nat
           /\ BucketOf(t) = 0 => Overlap(t) = 0
           /\ BucketOf(t) > 0 => /\ BucketOf(t) - 1 \in Bucket
                                 /\ Overlap(t) = InBucket(BucketOf(t) - 1)
<1>1. PICK b \in Nat : b = BucketOf(t) /\ b \in Bucket
  BY StampType
<1>2. t \in Int /\ b * Window \in Int /\ b * Window <= t /\ (b - 1) * Window = b * Window - Window
  <2>1. t \in Int
    BY Rates DEF Time
  <2>2. b * Window \in Int /\ (b - 1) * Window = b * Window - Window
    BY Later
  <2> QED
    BY <1>1, <2>1, <2>2, InItsBucket
<1>3. PICK lo \in Int : lo = b * Window - 1
  BY <1>2
<1>4. PICK ll \in Int : ll = lo - Window
  BY <1>3, Rates
<1>5. Overlap(t) = UpTo(lo) - UpTo(ll) /\ Sofar(t) = UpTo(t) - UpTo(lo)
  BY <1>1, <1>3, <1>4 DEF Overlap, Sofar, Before
<1>6. /\ UpTo(lo) \in Nat /\ UpTo(ll) \in Nat /\ UpTo(t) \in Nat
      /\ UpTo(ll) <= UpTo(lo) /\ UpTo(lo) <= UpTo(t)
  <2>1. ll <= lo /\ lo <= t
    BY <1>2, <1>3, <1>4, Rates
  <2> QED
    BY <1>2, <2>1, UpToIs
<1>7. ASSUME b = 0 PROVE Overlap(t) = 0
  <2>1. lo < 0 /\ ll < 0
    BY <1>2, <1>3, <1>4, <1>7, Rates
  <2>2. UpTo(lo) = 0 /\ UpTo(ll) = 0
    BY <2>1 DEF UpTo
  <2> QED
    BY <1>5, <2>2
<1>8. ASSUME b > 0 PROVE b - 1 \in Bucket /\ Overlap(t) = InBucket(b - 1)
  <2>1. b - 1 \in Bucket
    <3>1. BucketOf(LastTime) \in Int
      BY Divided, Rates
    <3> QED
      BY <1>1, <1>8, <3>1 DEF Bucket
  <2>2. (b - 1) * Window + Window - 1 = lo /\ (b - 1) * Window - 1 = ll
    BY <1>2, <1>3, <1>4, Rates
  <2> QED
    BY <1>5, <2>1, <2>2 DEF InBucket, Admitted
<1> QED
  BY <1>1, <1>5, <1>6, <1>7, <1>8

\* A script that runs in its bucket weighs at least what the history overlaps.
LEMMA Weighs ==
    ASSUME Inv, ~late, now \in Time, NEW t \in Time, BucketOf(t) = BucketOf(now)
    PROVE  Overlap(t) <= Live(BucketOf(t) - 1)
<1>1. PICK b \in Nat : b = BucketOf(now) /\ b \in Bucket /\ b = BucketOf(t)
  BY StampType
<1>2. TypeOK /\ Cumulative
  BY DEF Inv
<1>3. CASE b = 0
  <2>1. Live(b - 1) \in Nat
    BY <1>2, LiveType
  <2>2. Overlap(t) = 0
    BY <1>1, <1>2, <1>3, OverlapIs
  <2> QED
    BY <1>1, <2>1, <2>2
<1>4. CASE b > 0
  <2>1. b - 1 \in Bucket /\ Overlap(t) = InBucket(b - 1)
    BY <1>1, <1>2, <1>4, OverlapIs
  <2>2. InBucket(b - 1) <= hits[b - 1] /\ Key(b - 1)
    BY <2>1 DEF Inv, Full
  <2>3. now < (b - 1) * Window + 2 * Window
    <3>1. now \in Int
      BY Rates DEF Time
    <3>2. now <= b * Window + Window - 1
      BY <1>1, <3>1, InItsBucket
    <3>3. b * Window \in Int /\ (b - 1) * Window = b * Window - Window
      BY Later
    <3> QED
      BY <3>1, <3>2, <3>3, Rates
  <2>4. Live(b - 1) = hits[b - 1]
    BY <1>2, <2>1, <2>2, <2>3, Alive
  <2> QED
    BY <1>1, <2>1, <2>2, <2>4
<1> QED
  BY <1>3, <1>4

\* One step keeps the bound on the sliding window: the script weighed it.
LEMMA SlidesStep ==
    ASSUME Inv, NEW r \in Slot, Evaluate(r), NEW t \in Time
    PROVE  Slides(t)'
<1> SUFFICES ASSUME ~late', Sofar(t)' > 0
             PROVE  Window * Sofar(t)' + (Window - (t % Window)) * Overlap(t)' <= Window * Limit
  BY DEF Slides
<1>1. PICK s \in Time : s = stamp[r]
  BY DEF Inv, TypeOK
<1>2. PICK b \in Bucket : b = BucketOf(s)
  BY <1>1, Evaluated
<1>3. /\ s \in Int /\ newest <= s /\ BucketOf(now) = b /\ b \in Nat /\ b * Window \in Int
      /\ b * Window <= s /\ s <= b * Window + Window - 1
      /\ Live(b) = hits[b] /\ ~late /\ Live(b) \in Nat
  BY <1>1, <1>2, Evaluated
<1>4. TypeOK /\ Cumulative /\ Slides(t) /\ now \in Time /\ newest \in Int
  BY DEF Inv, TypeOK, Time
<1>5. CASE UNCHANGED admitted
  <2>1. Sofar(t)' = Sofar(t) /\ Overlap(t)' = Overlap(t)
    BY <1>5 DEF Sofar, Overlap, Before, UpTo
  <2> QED
    BY <1>3, <1>4, <2>1 DEF Slides
<1>6. CASE ~Over(s) /\ admitted' = [u \in Time |-> IF s <= u THEN admitted[u] + 1
                                                        ELSE admitted[u]]
  <2>1. PICK c \in Nat : c = BucketOf(t)
    BY StampType
  <2>2. /\ t \in Int /\ c * Window \in Int
        /\ c * Window <= t /\ t <= c * Window + Window - 1
    <3>1. t \in Int
      BY Rates DEF Time
    <3>2. c * Window \in Int
      BY Later
    <3> QED
      BY <2>1, <3>1, <3>2, InItsBucket
  <2>3. PICK lo \in Int : lo = c * Window - 1
    BY <2>2
  <2>4. PICK ll \in Int : ll = lo - Window
    BY <2>3, Rates
  <2>5. /\ Sofar(t) = UpTo(t) - UpTo(lo) /\ Overlap(t) = UpTo(lo) - UpTo(ll)
        /\ Sofar(t)' = UpTo(t)' - UpTo(lo)' /\ Overlap(t)' = UpTo(lo)' - UpTo(ll)'
    BY <2>1, <2>3, <2>4 DEF Sofar, Overlap, Before
  <2>6. \A x \in Int : UpTo(x) \in Nat /\ UpTo(x)' = UpTo(x) + (IF s <= x THEN 1 ELSE 0)
                       /\ (newest <= x => UpTo(x) = admitted[newest])
    BY <1>4, <1>6, UpToIs, UpToStep
  <2>7. ll < lo
    BY <2>4, Rates
  <2>8. CASE lo >= s
    <3>1. s <= t /\ UpTo(t) = UpTo(lo)
      BY <1>3, <1>4, <2>2, <2>3, <2>6, <2>8
    <3>2. Sofar(t)' = 0
      BY <2>2, <2>5, <2>6, <2>8, <3>1
    <3> QED
      BY <3>2
  <2>9. CASE t < s
    <3>1. lo < s /\ ll < s
      BY <1>3, <2>2, <2>3, <2>7, <2>9
    <3>2. Sofar(t)' = Sofar(t) /\ Overlap(t)' = Overlap(t)
      BY <1>3, <2>2, <2>5, <2>6, <2>9, <3>1
    <3> QED
      BY <1>3, <1>4, <3>2 DEF Slides
  <2>10. CASE lo < s /\ s <= t
    <3>1. c = b
      <4>1. c * Window <= s /\ s <= c * Window + Window - 1
        BY <1>3, <2>2, <2>3, <2>10, Rates
      <4> QED
        BY <1>2, <1>3, <4>1, InItsBucket
    <3>2. Sofar(t)' = Sofar(t) + 1 /\ Overlap(t)' = Overlap(t)
      BY <1>3, <2>2, <2>5, <2>6, <2>7, <2>10
    <3>3. Sofar(t) = InBucket(b) /\ Overlap(t) = Overlap(s)
      <4>1. PICK hi \in Int : hi = b * Window + Window - 1
        BY <1>3, Rates
      <4>2. UpTo(hi) = UpTo(t)
        BY <1>3, <1>4, <2>2, <2>6, <2>10, <4>1
      <4>3. InBucket(b) = UpTo(hi) - UpTo(lo)
        BY <2>3, <3>1, <4>1 DEF InBucket, Admitted
      <4>4. Overlap(s) = UpTo(lo) - UpTo(ll)
        BY <1>2, <2>3, <2>4, <3>1 DEF Overlap, Before
      <4> QED
        BY <2>5, <4>2, <4>3, <4>4
    <3>4. Sofar(t) <= Live(b)
      BY <1>3, <3>3 DEF Inv, Full
    <3>5. Overlap(t) <= Live(b - 1)
      BY <1>2, <1>3, <1>4, <3>3, Weighs
    <3>6. Overlap(t) \in Nat /\ Sofar(t) \in Nat /\ Live(b - 1) \in Nat
      BY <1>3, <1>4, OverlapIs, LiveType
    <3>7. PICK k \in Nat : k = Window - (t % Window)
      BY <2>2, Remains
    <3>8. PICK l \in Nat : l = Window - (s % Window)
      BY <1>3, Remains
    <3>9. k <= l
      <4>1. /\ t = c * Window + (t % Window) /\ t % Window \in Int
            /\ s = b * Window + (s % Window) /\ s % Window \in Int
        BY <1>2, <1>3, <2>1, <2>2, Divided, Rates
      <4> QED
        BY <1>3, <2>2, <2>10, <3>1, <3>7, <3>8, <4>1, Rates
    <3>10. k * Overlap(t) <= k * Live(b - 1) /\ k * Overlap(t) \in Int /\ k * Live(b - 1) \in Int
      BY <3>5, <3>6, Scaled
    <3>11. k * Live(b - 1) <= l * Live(b - 1) /\ l * Live(b - 1) \in Int
      <4>1. Live(b - 1) * k <= Live(b - 1) * l
        BY <3>6, <3>9, Scaled
      <4> QED
        BY <3>6, <4>1
    <3>12. /\ Window * (Sofar(t) + 1) <= Window * (Live(b) + 1)
           /\ Window * (Sofar(t) + 1) \in Int /\ Window * (Live(b) + 1) \in Int
      BY <1>3, <3>4, <3>6, Scaled, Rates
    <3>13. Window * (Live(b) + 1) + l * Live(b - 1) <= Window * Limit
      BY <1>2, <1>4, <1>6, <3>8, UnderLimit
    <3>14. Window * Limit \in Int
      BY Rates
    <3>15. Window * (Sofar(t) + 1) + k * Overlap(t) <= Window * Limit
      BY <3>10, <3>11, <3>12, <3>13, <3>14
    <3> QED
      BY <3>2, <3>7, <3>15
  <2> QED
    BY <1>3, <2>2, <2>8, <2>9, <2>10
<1> QED
  BY <1>1, <1>5, <1>6 DEF Evaluate

\* A request that was rejected alone, and waited, finds its bucket empty; and
\* rejected a second time it is not.
LEMMA Patience ==
    ASSUME Inv, ~late, NEW r \in alone, pc[r] = "stamped", NEW s, s = stamp[r]
    PROVE  LET b == BucketOf(s) IN
           /\ Live(b) = 0
           /\ snubs >= 1 => Live(b - 1) <= 1
           /\ snubs >= 1 /\ Limit >= 2 => ~Over(s)
<1>1. TypeOK /\ Waits(r) /\ s \in Time /\ s \in Int /\ snubs \in Nat /\ r \in Slot
  BY Rates DEF Inv, Patient, TypeOK, Time
<1>2. PICK b \in Nat : b = BucketOf(s) /\ b \in Bucket
  BY <1>1, StampType
<1>3. wake[r] \in Int /\ wake[r] <= s
  BY <1>1 DEF TypeOK, Waits
<1>4. PICK w \in Int : w = BucketOf(wake[r]) /\ w <= b
  BY <1>1, <1>2, <1>3, Divided, Buckets
<1>5. Live(b) = 0
  <2>1. Empty(b, w)
    BY <1>1, <1>2, <1>4 DEF Waits
  <2>2. hits[b] = 0
    BY <1>2, <1>4, <2>1 DEF Empty
  <2> QED
    BY <2>2 DEF Live
<1>6. ASSUME snubs >= 1 PROVE Live(b - 1) <= 1
  <2>1. CASE b - 1 \in Bucket
    <3>1. (b - 1) + 1 >= w
      BY <1>2, <1>4
    <3>2. Thin(b - 1, w)
      BY <1>1, <1>4, <1>6, <2>1 DEF Waits
    <3>3. hits[b - 1] <= 1
      BY <3>1, <3>2 DEF Thin
    <3> QED
      BY <3>3 DEF Live
  <2>2. CASE b - 1 \notin Bucket
    BY <2>2 DEF Live
  <2> QED
    BY <2>1, <2>2
<1>7. ASSUME snubs >= 1, Limit >= 2 PROVE ~Over(s)
  <2>1. PICK k \in Nat : k = Window - (s % Window) /\ k <= Window
    <3>1. s % Window \in Nat /\ Window - (s % Window) \in Nat
      BY <1>1, Remains
    <3> QED
      BY <3>1, Rates
  <2>2. PICK l \in Nat : l = Live(b - 1) /\ l <= 1
    BY <1>1, <1>6, <1>7, LiveType
  <2>3. Weighted(s) = Window * (0 + 1) + k * l
    BY <1>2, <1>5, <2>1, <2>2 DEF Weighted
  <2>4. l \in {0, 1}
    BY <2>2
  <2>5. k * l \in {0, k}
    BY <2>1, <2>4
  <2>6. Window * 2 <= Window * Limit /\ Window * Limit \in Int
    BY <1>7, Scaled, Rates
  <2> QED
    BY <2>1, <2>3, <2>5, <2>6, Rates DEF Over
<1> QED
  BY <1>2, <1>5, <1>6, <1>7

\* One step rejects no patient client twice.
LEMMA PatientStep ==
    ASSUME Inv, NEW r \in Slot, Evaluate(r)
    PROVE  Patient'
<1> SUFFICES ASSUME ~late'
             PROVE  (\A q \in alone' : Waits(q)') /\ (Limit >= 2 => snubs' <= 1)
  BY DEF Patient
<1>1. PICK b \in Bucket : b = BucketOf(stamp[r])
  BY Evaluated
<1>2. /\ stamp[r] \in Int /\ now \in Int /\ stamp[r] <= now /\ b \in Nat /\ b * Window \in Int
      /\ b * Window <= stamp[r]
      /\ b * Window <= now /\ now <= b * Window + Window - 1
      /\ hits' = [hits EXCEPT ![b] = Live(b) + 1] /\ ~late
  BY <1>1, Evaluated
<1>3. TypeOK /\ (Limit >= 2 => snubs <= 1) /\ pc[r] = "stamped"
  BY <1>2 DEF Inv, Patient, Evaluate
<1>4. CASE ~Over(stamp[r]) /\ alone' = {} /\ snubs' = 0
  BY <1>4
<1>5. CASE /\ Over(stamp[r])
           /\ pc' = [pc EXCEPT ![r] = "told"]
           /\ wake' = [wake EXCEPT ![r] = now + RetryAfter(stamp[r])]
           /\ alone' = {r} /\ snubs' = IF r \in alone THEN snubs + 1 ELSE 0
  <2>1. PICK w \in Int : /\ w = wake'[r]
                         /\ (b + 1) * Window <= w /\ w <= (b + 1) * Window + Window - 1
                         /\ (b + 1) * Window = b * Window + Window
    <3>1. PICK f \in Int : /\ f = Whole(stamp[r]) /\ f <= stamp[r] /\ b * Window <= f
                           /\ f % Window = f - b * Window
      BY <1>1, <1>2, Floored
    <3>2. (b + 1) * Window = b * Window + Window
      BY <1>2, Later
    <3>3. wake'[r] = now + (Window - (f - b * Window))
      BY <1>2, <1>3, <1>5, <3>1 DEF TypeOK, RetryAfter
    <3> QED
      BY <1>2, <3>1, <3>2, <3>3, Rates
  <2>2. BucketOf(w) = b + 1
    <3>1. b + 1 \in Int
      BY <1>2
    <3> QED
      BY <2>1, <3>1, InItsBucket
  <2>3. ASSUME NEW c \in Bucket PROVE Empty(c, b + 1)'
    <3> SUFFICES ASSUME c >= b + 1 PROVE hits'[c] = 0
      BY <1>2 DEF Empty
    <3>1. c \in Int /\ c # b /\ hits'[c] = hits[c] /\ hits[c] \in Nat
      BY <1>2, <1>3 DEF TypeOK, Bucket
    <3>2. (b + 1) * Window <= c * Window /\ c * Window \in Int
      BY <1>2, <3>1, Later
    <3>3. ~(c * Window <= now) /\ Key(c)
      BY <1>2, <2>1, <3>2, Rates DEF Inv
    <3> QED
      BY <3>1, <3>3 DEF Key
  <2>4. ASSUME snubs' >= 1, NEW c \in Bucket PROVE Thin(c, b + 1)'
    <3> SUFFICES ASSUME c + 1 >= b + 1 PROVE hits'[c] <= 1
      BY <1>2 DEF Thin
    <3>1. r \in alone
      BY <1>5, <2>4
    <3>2. hits'[b] = 1
      <4>1. Live(b) = 0
        BY <1>1, <1>2, <1>3, <3>1, Patience
      <4> QED
        BY <1>2, <1>3, <4>1 DEF TypeOK
    <3>3. CASE c = b
      BY <3>2, <3>3
    <3>4. CASE c # b
      <4>1. c >= b + 1
        BY <1>2, <3>4 DEF Bucket
      <4> QED
        BY <1>2, <2>3, <4>1 DEF Empty
    <3> QED
      BY <3>3, <3>4
  <2>5. Waits(r)'
    <3>1. pc'[r] = "told"
      BY <1>3, <1>5 DEF TypeOK
    <3> QED
      BY <2>1, <2>2, <2>3, <2>4, <3>1 DEF Waits, Empty, Thin, BucketOf
  <2>6. ASSUME Limit >= 2 PROVE snubs' <= 1
    <3>1. CASE r \notin alone
      BY <1>5, <3>1
    <3>2. CASE r \in alone
      <4>1. ~(snubs >= 1)
        BY <1>2, <1>3, <1>5, <2>6, <3>2, Patience
      <4> QED
        BY <1>3, <1>5, <3>2, <4>1 DEF TypeOK
    <3> QED
      BY <3>1, <3>2
  <2> QED
    BY <1>5, <2>5, <2>6
<1> QED
  BY <1>4, <1>5 DEF Evaluate

-----------------------------------------------------------------------------
(* The invariant holds.                                                    *)

LEMMA InvInit == Init => Inv
<1> SUFFICES ASSUME Init PROVE Inv
  OBVIOUS
<1>1. TypeOK
  BY TypeInit
<1>2. Cumulative
  <2>1. newest \in Time /\ \A t \in Time : admitted[t] = 0
    BY <1>1 DEF Init, TypeOK
  <2> QED
    BY <2>1 DEF Cumulative, Rises
<1>3. Patient /\ \A r \in Slot : Flight(r)
  BY DEF Init, Patient, Flight
<1>4. ASSUME NEW t \in Int PROVE UpTo(t) = 0
  BY Rates DEF Init, UpTo, Time
<1>5. ASSUME NEW b \in Bucket PROVE Key(b) /\ Full(b)
  <2>1. b \in Int /\ b * Window \in Int
    BY Later DEF Bucket
  <2>2. UpTo(b * Window - 1) = 0 /\ UpTo(b * Window + Window - 1) = 0
    BY <1>4, <2>1, Rates
  <2> QED
    BY <2>2, Rates DEF Init, Key, Full, InBucket, Admitted
<1>6. ASSUME NEW t \in Time PROVE Slides(t)
  <2>1. PICK b \in Int : b = BucketOf(t)
    BY StampType
  <2>2. t \in Int /\ b * Window - 1 \in Int
    BY <2>1, Later DEF Time
  <2>3. UpTo(t) = 0 /\ UpTo(b * Window - 1) = 0
    BY <1>4, <2>2
  <2> QED
    BY <2>1, <2>3 DEF Slides, Sofar, Before
<1> QED
  BY <1>1, <1>2, <1>3, <1>5, <1>6 DEF Inv

\* The clock carries the history on.
LEMMA CumulativeStep ==
    ASSUME Inv, NEW r \in Slot, Evaluate(r)
    PROVE  Cumulative'
<1>1. PICK s \in Time : s = stamp[r] /\ s \in Int
                        /\ newest' = IF s > newest THEN s ELSE newest
  BY Evaluated
<1>2. Cumulative /\ newest \in Time /\ \A t \in Time : admitted[t] \in Nat /\ t \in Int
  <2>1. TypeOK /\ Cumulative
    BY DEF Inv
  <2>2. newest \in Time /\ admitted \in [Time -> Nat]
    BY <2>1 DEF TypeOK
  <2>3. \A t \in Time : t \in Int
    BY DEF Time
  <2> QED
    BY <2>1, <2>2, <2>3
<1>3. CASE UNCHANGED admitted
  BY <1>1, <1>2, <1>3 DEF Cumulative, Rises
<1>4. CASE admitted' = [t \in Time |-> IF s <= t THEN admitted[t] + 1 ELSE admitted[t]]
  <2>1. ASSUME NEW u \in Time, NEW t \in Time PROVE Rises(u, t)'
    BY <1>1, <1>2, <1>4 DEF Cumulative, Rises
  <2>2. ASSUME NEW t \in Time, t >= newest' PROVE admitted'[t] = admitted'[newest']
    BY <1>1, <1>2, <1>4, <2>2 DEF Cumulative
  <2> QED
    BY <1>1, <2>1, <2>2 DEF Cumulative
<1> QED
  BY <1>1, <1>3, <1>4 DEF Evaluate

\* The script adds to it at its own time.
LEMMA EvaluateStep ==
    ASSUME Inv, NEW r \in Slot, Evaluate(r), TypeOK'
    PROVE  Inv'
<1>1. Cumulative' /\ Patient'
  BY CumulativeStep, PatientStep
<1>2. \A b \in Bucket : Key(b)' /\ Full(b)'
  BY KeyStep, FullStep
<1>3. \A t \in Time : Slides(t)'
  BY SlidesStep
<1>4. ASSUME NEW q \in Slot PROVE Flight(q)'
  <2>1. pc'[q] = "stamped" => pc[q] = "stamped"
    BY DEF Evaluate, Inv, TypeOK
  <2> QED
    BY <2>1 DEF Evaluate, Inv, Flight
<1> QED
  BY <1>1, <1>2, <1>3, <1>4 DEF Inv

\* A step that counts nothing.
LEMMA CalmStep ==
    ASSUME Inv, UNCHANGED <<hits, dies, admitted, newest, late>>, now' \in Int, now <= now',
           TypeOK', Patient', \A r \in Slot : Flight(r)'
    PROVE  Inv'
<1>1. TypeOK /\ Cumulative /\ now \in Int /\ now' \in Time /\ Time \subseteq Int
  BY DEF Inv, TypeOK, Time
<1>2. Cumulative'
  BY <1>1 DEF Cumulative, Rises
<1>3. ASSUME NEW b \in Bucket PROVE Key(b)' /\ Full(b)'
  <2>1. Key(b) /\ Full(b) /\ b \in Int
    BY DEF Inv, Bucket
  <2>2. b * Window \in Int
    BY <2>1, Later
  <2>3. Key(b)'
    BY <1>1, <2>1, <2>2 DEF Key
  <2>4. Full(b)'
    BY <2>1 DEF Full, InBucket, Admitted, UpTo
  <2> QED
    BY <2>3, <2>4
<1>4. ASSUME NEW t \in Time PROVE Slides(t)'
  <2>1. Slides(t)
    BY DEF Inv
  <2> QED
    BY <2>1 DEF Slides, Sofar, Overlap, Before, UpTo
<1> QED
  BY <1>2, <1>3, <1>4 DEF Inv

LEMMA Invariance == Spec => []Inv
<1>1. Inv /\ [Next]_vars => Inv'
  <2> SUFFICES ASSUME Inv, [Next]_vars PROVE Inv'
    OBVIOUS
  <2>1. TypeOK /\ TypeOK' /\ now \in Int /\ MaxLag \in Nat
    <3>1. TypeOK /\ TypeOK' /\ MaxLag \in Nat
      BY TypeStep, Rates DEF Inv
    <3> QED
      BY <3>1 DEF TypeOK, Time
  <2>2. ASSUME NEW r \in Slot, Stamp(r) PROVE Inv'
    <3>1. now' = now /\ UNCHANGED <<hits, dies, wake, admitted, newest, late, alone, snubs>>
      BY <2>2 DEF Stamp
    <3>2. \A q \in Slot : Flight(q)'
      BY <2>1, <2>2 DEF Stamp, Flight, Inv, TypeOK
    <3>3. ASSUME NEW q \in alone, ~late PROVE Waits(q)'
      <4>1. Waits(q) /\ q \in Slot
        BY <2>1, <3>3 DEF Inv, Patient, TypeOK
      <4>2. pc'[q] \in {"told", "stamped"} /\ (pc'[q] = "stamped" => stamp'[q] >= wake[q])
        BY <2>1, <2>2, <4>1 DEF Stamp, Waits, TypeOK
      <4> QED
        BY <3>1, <4>1, <4>2 DEF Waits, Empty, Thin
    <3>4. Patient'
      BY <3>1, <3>3 DEF Inv, Patient
    <3> QED
      BY <2>1, <3>1, <3>2, <3>4, CalmStep
  <2>3. ASSUME NEW r \in Slot, Evaluate(r) PROVE Inv'
    BY <2>1, <2>3, EvaluateStep
  <2>4. ASSUME NEW r \in Slot, GiveUp(r) PROVE Inv'
    <3>1. now' = now /\ UNCHANGED <<hits, dies, wake, stamp, admitted, newest, late, snubs>>
          /\ alone' = alone \ {r} /\ \A q \in Slot \ {r} : pc'[q] = pc[q]
      BY <2>1, <2>4 DEF GiveUp, TypeOK
    <3>2. \A q \in Slot : Flight(q)'
      BY <2>1, <2>4 DEF GiveUp, Flight, Inv, TypeOK
    <3>3. Patient'
      <4>1. ASSUME NEW q \in alone', ~late PROVE Waits(q)'
        <5>1. Waits(q) /\ q \in Slot /\ pc'[q] = pc[q]
          BY <2>1, <3>1, <4>1 DEF Inv, Patient, TypeOK
        <5> QED
          BY <3>1, <5>1 DEF Waits, Empty, Thin
      <4> QED
        BY <3>1, <4>1 DEF Inv, Patient
    <3> QED
      BY <2>1, <3>1, <3>2, <3>3, CalmStep
  <2>5. CASE Tick
    <3>1. now' = now + 1 /\ UNCHANGED <<hits, dies, pc, stamp, wake, admitted, newest, late, alone, snubs>>
      BY <2>5 DEF Tick
    <3>2. ASSUME NEW q \in Slot PROVE Flight(q)'
      <4>1. stamp[q] \in Int
        BY <2>1 DEF TypeOK, Time
      <4> QED
        BY <2>1, <2>5, <4>1 DEF Tick, Flight, Inv
    <3>3. Patient'
      BY <3>1 DEF Inv, Patient, Waits, Empty, Thin
    <3> QED
      BY <2>1, <3>1, <3>2, <3>3, CalmStep
  <2>6. CASE UNCHANGED vars
    <3>1. Patient'
      BY <2>6 DEF vars, Inv, Patient, Waits, Empty, Thin
    <3>2. \A q \in Slot : Flight(q)'
      BY <2>6 DEF vars, Inv, Flight
    <3> QED
      BY <2>1, <2>6, <3>1, <3>2, CalmStep DEF vars
  <2> QED
    BY <2>2, <2>3, <2>4, <2>5, <2>6 DEF Next
<1> QED
  BY <1>1, InvInit, PTL DEF Spec

-----------------------------------------------------------------------------
(* The theorems.                                                           *)

\* No fixed window admits more than the limit, whatever the order of the scripts,
\* when none can be delayed by more than a window; and whatever the delays, as
\* long as scripts have run in order and within their buckets.
THEOREM LimitPerBucket == Spec => [](~late \/ MaxLag <= Window => BucketBound)
<1>1. Inv => (~late \/ MaxLag <= Window => BucketBound)
  BY DEF Inv, Full, InBucket, BucketBound
<1> QED
  BY <1>1, Invariance, PTL

\* A counter outlives its bucket and the next, in which it is weighed, whenever
\* the scripts run that created it.
THEOREM CountersOutlive == Spec => []CountersLiveOn
<1>1. Inv => CountersLiveOn
  <2> SUFFICES ASSUME Inv, NEW b \in {BucketOf(now) - 1, BucketOf(now)} \cap Bucket, hits[b] > 0
               PROVE  now < dies[b]
    BY DEF CountersLiveOn
  <2>1. now \in Int /\ BucketOf(now) \in Int /\ b \in Int /\ dies[b] \in Nat
    <3>1. now \in Int
      BY DEF Inv, TypeOK, Time
    <3>2. BucketOf(now) \in Int /\ b \in Bucket /\ b \in Int
      BY <3>1, Divided DEF Bucket
    <3> QED
      BY <3>1, <3>2 DEF Inv, TypeOK
  <2>2. now <= BucketOf(now) * Window + Window - 1
    BY <2>1, InItsBucket
  <2>3. BucketOf(now) * Window <= (b + 1) * Window /\ (b + 1) * Window = b * Window + Window
        /\ BucketOf(now) * Window \in Int /\ b * Window \in Int
    <3>1. b = BucketOf(now) - 1 \/ b = BucketOf(now)
      OBVIOUS
    <3>2. b + 1 \in Int /\ BucketOf(now) <= b + 1
      BY <2>1, <3>1
    <3>3. BucketOf(now) * Window <= (b + 1) * Window
      BY <2>1, <3>2, Later
    <3>4. (b + 1) * Window = b * Window + Window
      BY <2>1, Later
    <3>5. BucketOf(now) * Window \in Int /\ b * Window \in Int
      BY <2>1, Later
    <3> QED
      BY <3>3, <3>4, <3>5
  <2>4. b * Window + 2 * Window <= dies[b]
    BY DEF Inv, Key
  <2>5. PICK w \in Nat, s \in Int, n \in Int :
           w = Window /\ s = b * Window /\ n = BucketOf(now) * Window
    BY <2>3, Rates
  <2> QED
    BY <2>1, <2>2, <2>3, <2>4, <2>5
<1> QED
  BY <1>1, Invariance, PTL

\* As long as scripts run in the order of their timestamps and within their
\* buckets, the window that ends at any time, whatever fraction of a second the
\* clock resolves, exceeds the limit by at most the fraction of that time's bucket
\* that has passed.
THEOREM ExcessIsBounded == Spec => []SlidingExcess
<1>1. Inv => SlidingExcess
  <2> SUFFICES ASSUME Inv, ~late, NEW t \in Time
               PROVE  Window * Admitted(t - Window + 1, t) <= Limit * (Window + (t % Window))
    BY DEF SlidingExcess
  <2>1. TypeOK /\ Cumulative /\ Slides(t) /\ t \in Int
    BY DEF Inv, Time
  <2>2. PICK b \in Nat : b = BucketOf(t)
    BY StampType
  <2>3. PICK e \in Nat : e = t % Window /\ e < Window /\ t = b * Window + e /\ b * Window \in Int
    <3>1. t % Window \in Nat /\ t % Window < Window
      BY <2>1, Remains
    <3>2. t = b * Window + (t % Window) /\ b * Window \in Int
      BY <2>1, <2>2, Divided, Later
    <3> QED
      BY <3>1, <3>2
  <2>4. PICK k \in Nat : k = Window - e /\ Window = k + e
    <3>1. e \in Nat /\ e < Window /\ Window \in Nat
      BY <2>3, Rates
    <3> QED
      BY <3>1
  <2>5. PICK lo \in Int, ll \in Int, m \in Int :
           lo = b * Window - 1 /\ ll = lo - Window /\ m = t - Window
    BY <2>1, <2>3, Rates
  <2>6. PICK x \in Int : x = UpTo(lo) - UpTo(m)
    BY <2>1, UpToIs
  <2>7. PICK y \in Nat : y = Sofar(t)
    BY <2>1, OverlapIs
  <2>8. PICK o \in Nat : o = Overlap(t)
    BY <2>1, OverlapIs
  <2>9. y = UpTo(t) - UpTo(lo) /\ o = UpTo(lo) - UpTo(ll)
    BY <2>2, <2>5, <2>7, <2>8 DEF Sofar, Overlap, Before
  <2>10. Admitted(t - Window + 1, t) = x + y
    <3>1. PICK f \in Int : f = t - Window + 1 /\ f - 1 = m
      BY <2>1, <2>5, Rates
    <3>2. UpTo(t) \in Nat /\ UpTo(lo) \in Nat /\ UpTo(m) \in Nat
      BY <2>1, UpToIs
    <3>3. Admitted(f, t) = UpTo(t) - UpTo(m)
      BY <3>1 DEF Admitted
    <3>4. Admitted(f, t) = x + y
      BY <2>6, <2>9, <3>2, <3>3
    <3> QED
      BY <3>1, <3>4
  <2>11. x \in Nat /\ x <= o
    <3>1. ll <= m /\ m <= lo
      BY <2>3, <2>5, Rates
    <3>2. UpTo(ll) <= UpTo(m) /\ UpTo(m) <= UpTo(lo) /\ UpTo(ll) \in Nat /\ UpTo(m) \in Nat
          /\ UpTo(lo) \in Nat
      BY <2>1, <3>1, UpToIs
    <3> QED
      BY <2>6, <2>9, <3>2
  <2>12. o <= Limit
    <3>1. CASE b = 0
      <4>1. o = 0
        BY <2>1, <2>2, <2>8, <3>1, OverlapIs
      <4> QED
        BY <4>1, Rates
    <3>2. CASE b > 0
      <4>1. b - 1 \in Bucket /\ o = InBucket(b - 1)
        BY <2>1, <2>2, <2>8, <3>2, OverlapIs
      <4> QED
        BY <4>1 DEF Inv, Full
    <3> QED
      BY <3>1, <3>2
  <2>13. y > 0 => Window * y + k * o <= Window * Limit
    BY <2>1, <2>3, <2>4, <2>7, <2>8 DEF Slides
  <2>14. k * x <= k * o /\ e * x <= e * Limit /\ Window * x <= Window * Limit
    BY <2>11, <2>12, Scaled, Rates
  <2>15. Window * (x + y) = Window * y + k * x + e * x
    <3>1. Window = k + e
      BY <2>4
    <3>2. (k + e) * (x + y) = (k + e) * y + (k + e) * x
      BY <2>11
    <3>3. (k + e) * x = k * x + e * x
      BY <2>11
    <3> QED
      BY <2>11, <3>1, <3>2, <3>3
  <2>16. Limit * (Window + e) = Window * Limit + e * Limit
    BY Rates
  <2>17. Window * (x + y) <= Window * Limit + e * Limit
    <3>1. /\ k * x \in Nat /\ k * o \in Nat /\ e * x \in Nat /\ e * Limit \in Nat
          /\ Window * y \in Nat /\ Window * Limit \in Nat /\ Window * x \in Nat
      BY <2>11, Rates
    <3>2. CASE y > 0
      BY <2>13, <2>14, <2>15, <3>1, <3>2
    <3>3. CASE y = 0
      <4>1. x + y = x
        BY <2>11, <3>3
      <4> QED
        BY <2>14, <3>1, <4>1
    <3> QED
      BY <3>2, <3>3
  <2> QED
    BY <2>3, <2>10, <2>16, <2>17
<1> QED
  BY <1>1, Invariance, PTL

\* As long as scripts run in order and within their buckets, who waits for
\* Retry-After each time, with no other request counted in between, is rejected
\* at most once more.
THEOREM TwoRetriesSuffice == Spec => []SecondRetrySuffices
<1>1. Inv => SecondRetrySuffices
  BY DEF Inv, Patient, SecondRetrySuffices
<1> QED
  BY <1>1, Invariance, PTL
=============================================================================
