-------------------------- MODULE DashboardProofs --------------------------
(***************************************************************************)
(* Theorems about Dashboard, for any visitors, any LIMIT and ttl, and any  *)
(* bound on the query's time.                                              *)
(***************************************************************************)
EXTENDS Dashboard, SequenceTheorems, TLAPS

-----------------------------------------------------------------------------
(* The invariant.                                                          *)

\* One session at a time computes the cached function.
Alone == \A s, t \in Session :
            page[s] \in Computing /\ page[t] \in Computing => s = t

\* A connection in use is not None, and one that an outage broke has not yet
\* cost an error.
Outage == /\ failed <= 1
          /\ idle = "broken" => failed = 0
          /\ \A s \in Session : page[s] = "query" => idle # None

\* The table only grows: the size at each tick is at least that of the ticks
\* before it.
Growing == \A i \in 1 .. Horizon : /\ past[i] <= size
                                   /\ \A j \in 1 .. Horizon : i <= j => past[j] <= past[i]

\* The rows of a query know what the last tick before it saw: slow + 1 ticks
\* ago now; and so do cached rows, whose age their lifetime tells.
Stale(s)  == page[s] = "read" => found[s] >= Visible(past[slow + 1])
Age(left) == MaxQuery + (TTL - left) + 1
Cached    == frame.rows >= 0 /\ pool # None => frame.rows >= Visible(past[Age(frame.left)])
Loaded(s) == page[s] = "load" /\ pool # None => found[s] >= Visible(past[Horizon])

Freshness == /\ Growing /\ Cached
             /\ slow > 0 => Reading
             /\ \A s \in Session : Stale(s) /\ Loaded(s)

Inv == TypeOK /\ Alone /\ Outage /\ Freshness

-----------------------------------------------------------------------------
(* The history of the table's size.                                        *)

\* The constants are numbers, and the history is not empty.
LEMMA HorizonIs == Horizon \in Nat \ {0} /\ TTL \in Nat /\ MaxQuery \in Nat
                   /\ MaxSize \in Nat \ {0} /\ Limit \in Nat
BY DashboardAssumption DEF Horizon

\* A query sees as many rows as LIMIT lets it.
LEMMA VisibleType ==
    ASSUME NEW m \in Nat, NEW n \in Nat, m <= n
    PROVE  Visible(m) \in 0 .. Limit /\ Visible(m) <= Visible(n)
BY HorizonIs DEF Visible

\* A tick puts the current size in front of the history, and drops the oldest.
LEMMA PastStep ==
    ASSUME TypeOK, Tick
    PROVE  /\ past' \in [1 .. Horizon -> 0 .. MaxSize]
           /\ \A i \in 1 .. Horizon : past'[i] = IF i = 1 THEN size ELSE past[i - 1]
<1>0. PICK n \in Nat \ {0} : n = Horizon
  BY HorizonIs
<1>1. PICK S : n = Horizon /\ S = 0 .. MaxSize
  BY <1>0
<1>2. PICK f \in [1 .. n -> S], x \in S : f = past /\ x = size
  BY <1>1 DEF TypeOK
<1>3. f \in Seq(S) /\ Len(f) = n
  BY <1>2
<1>4. Front(f) \in Seq(S) /\ Len(Front(f)) = n - 1 /\ \A i \in 1 .. n - 1 : Front(f)[i] = f[i]
  BY <1>3 DEF Front
<1>5. <<x>> \o Front(f) \in Seq(S) /\ Len(<<x>> \o Front(f)) = n
  BY <1>4
<1>6. \A i \in 1 .. n : (<<x>> \o Front(f))[i] = IF i = 1 THEN x ELSE Front(f)[i - 1]
  BY <1>4
<1>7. \A i \in 1 .. n : (<<x>> \o Front(f))[i] = IF i = 1 THEN x ELSE f[i - 1]
  <2>1. ASSUME NEW i \in 1 .. n, i # 1 PROVE Front(f)[i - 1] = f[i - 1]
    BY <1>4, <2>1
  <2> QED
    BY <1>6, <2>1
<1>8. <<x>> \o Front(f) \in [1 .. n -> S]
  BY <1>5, LenProperties
<1>9. past' = <<x>> \o Front(f)
  BY <1>2 DEF Tick
<1> QED
  BY <1>1, <1>2, <1>7, <1>8, <1>9

-----------------------------------------------------------------------------
(* Types.                                                                  *)

LEMMA TypeInit == Init => TypeOK
<1> SUFFICES ASSUME Init PROVE TypeOK
  OBVIOUS
<1>1. size \in 0 .. MaxSize
  BY HorizonIs DEF Init
<1> QED
  BY <1>1, HorizonIs DEF Init, TypeOK, Empty, None, Computing, Shown

LEMMA TypeStep == TypeOK /\ [Next]_vars => TypeOK'
<1> SUFFICES ASSUME TypeOK, [Next]_vars PROVE TypeOK'
  OBVIOUS
<1> USE HorizonIs DEF TypeOK, Computing, Shown, db, shared, run, Goto, Get
<1>1. Visible(size) \in 0 .. Limit
  BY DEF Visible
<1>2. ASSUME NEW s \in Session,
             \/ Rerun(s) \/ Hit(s) \/ Miss(s) \/ MakePool(s) \/ HavePool(s)
             \/ NoPool(s) \/ GetConn(s) \/ Query(s) \/ Store(s) \/ Load(s)
      PROVE  TypeOK'
  <2>1. Rerun(s) => TypeOK'
    BY DEF Rerun
  <2>2. Hit(s) => TypeOK'
    BY DEF Hit
  <2>3. Miss(s) => TypeOK'
    BY DEF Miss
  <2>4. MakePool(s) => TypeOK'
    BY DEF MakePool
  <2>5. HavePool(s) => TypeOK'
    BY DEF HavePool
  <2>6. NoPool(s) => TypeOK'
    BY DEF NoPool, Fetched
  <2>7. GetConn(s) => TypeOK'
    BY DEF GetConn, Error
  <2>8. Query(s) => TypeOK'
    <3> SUFFICES ASSUME Query(s) PROVE TypeOK'
      OBVIOUS
    <3>1. idle' \in {None, "live", "broken"}
      BY DEF Query, Returned
    <3>2. CASE idle = "live"
      BY <1>1, <3>1, <3>2 DEF Query
    <3>3. CASE idle # "live"
      <4>1. failed' \in Nat /\ page' = [page EXCEPT ![s] = "error"]
        BY <3>3 DEF Query, Error
      <4> QED
        BY <3>1, <3>3, <4>1 DEF Query, Error
    <3> QED
      BY <3>2, <3>3
  <2>9. Store(s) => TypeOK'
    BY DEF Store, Fetched
  <2>10. Load(s) => TypeOK'
    BY DEF Load
  <2> QED
    BY <1>2, <2>1, <2>2, <2>3, <2>4, <2>5, <2>6, <2>7, <2>8, <2>9, <2>10
<1>3. Insert => TypeOK'
  BY DEF Insert
<1>4. GoDown => TypeOK'
  <2> SUFFICES ASSUME GoDown PROVE TypeOK'
    OBVIOUS
  <2>1. idle' \in {None, "live", "broken"}
    BY DEF GoDown
  <2>2. failed' \in Nat /\ up' \in BOOLEAN
    BY DEF GoDown
  <2> QED
    BY <2>1, <2>2 DEF GoDown
<1>5. ComeUp => TypeOK'
  BY DEF ComeUp
<1>6. Restart => TypeOK'
  BY DEF Restart, Empty
<1>7. Lapse => TypeOK'
  BY DEF Lapse, Empty
<1>8. Tick => TypeOK'
  <2> SUFFICES ASSUME Tick PROVE TypeOK'
    OBVIOUS
  <2>1. past' \in [1 .. Horizon -> 0 .. MaxSize]
    BY PastStep
  <2>2. slow' \in 0 .. MaxQuery
    BY DEF Tick
  <2>3. frame' \in [rows : -1 .. Limit, left : 0 .. TTL]
    <3>1. frame.rows \in -1 .. Limit /\ frame.left \in 0 .. TTL
      OBVIOUS
    <3>2. CASE frame.left = 0
      BY <3>2 DEF Tick, Empty
    <3>3. CASE frame.left # 0
      <4>1. frame' = [frame EXCEPT !.left = frame.left - 1]
        BY <3>3 DEF Tick
      <4>2. frame.left - 1 \in 0 .. TTL
        BY <3>1, <3>3
      <4> QED
        BY <4>1, <4>2
    <3> QED
      BY <3>2, <3>3
  <2> QED
    BY <2>1, <2>2, <2>3 DEF Tick
<1>9. UNCHANGED vars => TypeOK'
  BY DEF vars
<1> HIDE DEF TypeOK, Computing, Shown, db, shared, run, Goto, Get
<1> QED
  BY <1>2, <1>3, <1>4, <1>5, <1>6, <1>7, <1>8, <1>9 DEF Next

-----------------------------------------------------------------------------
(* Which session computes.                                                 *)

\* A step that lets nobody start to compute, but s, who may go on.
LEMMA AloneKept ==
    ASSUME TypeOK, Alone, NEW s \in Session, NEW p, page' = [page EXCEPT ![s] = p],
           page[s] \in Computing \/ p \notin Computing
    PROVE  Alone'
BY DEF Alone, TypeOK

\* The lock of st.cache_data is handed from one session to the next.
LEMMA AloneStep == TypeOK /\ Alone /\ [Next]_vars => Alone'
<1> SUFFICES ASSUME TypeOK, Alone, [Next]_vars PROVE Alone'
  OBVIOUS
<1> USE DEF Goto, run
<1>1. UNCHANGED page => Alone'
  BY DEF Alone
<1>2. ASSUME NEW s \in Session, Rerun(s) \/ Hit(s) PROVE Alone'
  BY <1>2, AloneKept DEF Rerun, Hit, Computing
<1>3. ASSUME NEW s \in Session, Miss(s) PROVE Alone'
  BY <1>3 DEF Miss, Alone, TypeOK
<1>4. ASSUME NEW s \in Session, HavePool(s) \/ NoPool(s) PROVE Alone'
  BY <1>4, AloneKept DEF HavePool, NoPool, Computing
<1>5. ASSUME NEW s \in Session, GetConn(s) PROVE Alone'
  BY <1>5, AloneKept DEF GetConn, Error, Computing
<1>6. ASSUME NEW s \in Session, Query(s) PROVE Alone'
  BY <1>6, AloneKept DEF Query, Error, Computing
<1>7. ASSUME NEW s \in Session, Store(s) PROVE Alone'
  BY <1>7, AloneKept DEF Store, Computing
<1>8. ASSUME NEW s \in Session, Load(s) PROVE Alone'
  <2>1. page' = [page EXCEPT ![s] = IF found[s] = 0 THEN "nodata" ELSE "charts"]
    BY <1>8 DEF Load
  <2> QED
    BY <2>1, AloneKept DEF Computing
<1>9. ASSUME NEW s \in Session, MakePool(s) PROVE Alone'
  BY <1>1, <1>9 DEF MakePool
<1>10. Restart => Alone'
  BY DEF Restart, Alone, Computing, None
<1>11. Insert \/ GoDown \/ ComeUp \/ Lapse \/ Tick \/ UNCHANGED vars => Alone'
  BY <1>1 DEF Insert, GoDown, ComeUp, Lapse, Tick, vars
<1> QED
  BY <1>2, <1>3, <1>4, <1>5, <1>6, <1>7, <1>8, <1>9, <1>10, <1>11 DEF Next

-----------------------------------------------------------------------------
(* What an outage costs.                                                   *)

\* A step that touches neither the connection nor the count of errors.
LEMMA OutageKept ==
    ASSUME TypeOK, Outage, UNCHANGED <<idle, failed>>,
           \A s \in Session : page'[s] = "query" => page[s] = "query"
    PROVE  Outage'
BY DEF Outage

\* Only the connection that the outage broke costs an error.
LEMMA OutageStep == TypeOK /\ Alone /\ Outage /\ [Next]_vars => Outage'
<1> SUFFICES ASSUME TypeOK, Alone, Outage, [Next]_vars PROVE Outage'
  OBVIOUS
<1> USE DEF Goto, shared, run
<1>1. ASSUME NEW s \in Session,
             Rerun(s) \/ Hit(s) \/ Miss(s) \/ HavePool(s) \/ NoPool(s) \/ Store(s) \/ Load(s)
      PROVE  Outage'
  <2>1. UNCHANGED <<idle, failed>>
    BY <1>1 DEF Rerun, Hit, Miss, HavePool, NoPool, Store, Load
  <2>2. PICK p : page' = [page EXCEPT ![s] = p] /\ p # "query"
    BY <1>1 DEF Rerun, Hit, Miss, HavePool, NoPool, Store, Load
  <2> QED
    BY <2>1, <2>2, OutageKept DEF TypeOK
<1>2. ASSUME NEW s \in Session, MakePool(s) PROVE Outage'
  <2>1. \A t \in Session : page[t] # "query"
    BY <1>2 DEF MakePool, Alone, Computing
  <2> QED
    BY <1>2, <2>1 DEF MakePool, Outage
<1>3. ASSUME NEW s \in Session, GetConn(s) PROVE Outage'
  <2>1. \A t \in Session : page[t] # "query"
    BY <1>3 DEF GetConn, Alone, Computing
  <2>2. CASE idle = None /\ ~up
    BY <1>3, <2>1, <2>2 DEF GetConn, Error, Outage, TypeOK
  <2>3. CASE ~(idle = None /\ ~up)
    BY <1>3, <2>1, <2>3 DEF GetConn, Outage, TypeOK, None
  <2> QED
    BY <2>2, <2>3
<1>4. ASSUME NEW s \in Session, Query(s) PROVE Outage'
  <2>1. \A t \in Session : page'[t] # "query"
    BY <1>4 DEF Query, Error, Alone, Computing, TypeOK
  <2>2. idle' # "broken"
    BY <1>4 DEF Query, Returned, None
  <2>3. failed' <= 1
    <3>1. CASE idle = "live"
      BY <1>4, <3>1 DEF Query, Outage
    <3>2. CASE idle # "live"
      <4>1. idle = "broken" /\ failed = 0
        BY <1>4, <3>2 DEF Query, Outage, TypeOK
      <4> QED
        BY <1>4, <3>2, <4>1 DEF Query, Error
    <3> QED
      BY <3>1, <3>2
  <2> QED
    BY <2>1, <2>2, <2>3 DEF Outage
<1>5. GoDown => Outage'
  BY DEF GoDown, Outage, None
<1>6. Restart => Outage'
  BY DEF Restart, Outage, None
<1>7. Insert \/ ComeUp \/ Lapse \/ Tick \/ UNCHANGED vars => Outage'
  BY OutageKept DEF Insert, ComeUp, Lapse, Tick, vars
<1> QED
  BY <1>1, <1>2, <1>3, <1>4, <1>5, <1>6, <1>7 DEF Next

-----------------------------------------------------------------------------
(* What the pages know.                                                    *)

\* What was visible longer ago is no more than what was visible later.
LEMMA OlderIsLess ==
    ASSUME TypeOK, Growing, NEW i \in 1 .. Horizon, NEW j \in 1 .. Horizon, i <= j
    PROVE  /\ Visible(past[j]) \in Int /\ Visible(past[i]) \in Int
           /\ Visible(past[j]) <= Visible(past[i])
<1>1. past[i] \in Nat /\ past[j] \in Nat /\ past[j] <= past[i]
  BY DEF TypeOK, Growing
<1> QED
  BY <1>1, VisibleType

\* Cached rows and rows of a query are never older than the history.
LEMMA Ages ==
    ASSUME TypeOK
    PROVE  /\ frame.left \in 0 .. TTL /\ frame.rows \in -1 .. Limit
           /\ Age(frame.left) \in 1 .. Horizon /\ slow + 1 \in 1 .. Horizon
           /\ MaxQuery + 1 \in 1 .. Horizon /\ Horizon \in 1 .. Horizon
           /\ slow \in 0 .. MaxQuery
<1>1. frame.left \in 0 .. TTL /\ frame.rows \in -1 .. Limit /\ slow \in 0 .. MaxQuery
  BY DEF TypeOK
<1> QED
  BY <1>1, HorizonIs DEF Age, Horizon

\* A step of s that neither selects nor stores rows.
LEMMA FreshKept ==
    ASSUME TypeOK, Freshness, NEW s \in Session, NEW p, page' = [page EXCEPT ![s] = p],
           UNCHANGED <<size, pool, frame, slow, past>>,
           page[s] # "read", p # "read",
           \A t \in Session \ {s} : found'[t] = found[t],
           p = "load" /\ pool # None => found'[s] >= Visible(past[Horizon])
    PROVE  Freshness'
<1>1. Growing' /\ Cached'
  BY DEF Freshness, Growing, Cached, Age, Visible, Horizon
<1>2. slow' > 0 => Reading'
  BY DEF Freshness, Reading, TypeOK
<1>3. ASSUME NEW t \in Session PROVE Stale(t)' /\ Loaded(t)'
  <2>1. CASE t = s
    BY <2>1 DEF Stale, Loaded, TypeOK, Visible, Horizon
  <2>2. CASE t # s
    <3>1. page'[t] = page[t] /\ found'[t] = found[t] /\ Stale(t) /\ Loaded(t)
      BY <2>2 DEF TypeOK, Freshness
    <3> QED
      BY <3>1 DEF Stale, Loaded, Visible, Horizon
  <2> QED
    BY <2>1, <2>2
<1> QED
  BY <1>1, <1>2, <1>3 DEF Freshness

\* A step that leaves the pages alone, while no cached rows appear.
LEMMA FreshRemains ==
    ASSUME TypeOK, Freshness, UNCHANGED <<page, found, slow, past>>,
           size' \in Nat, size <= size',
           pool' = pool \/ pool # None, frame' = frame \/ frame' = Empty
    PROVE  Freshness'
<1>1. Growing'
  <2>1. size \in Nat /\ \A i \in 1 .. Horizon : past[i] \in Nat /\ past[i] <= size
    BY DEF TypeOK, Freshness, Growing
  <2>2. \A i \in 1 .. Horizon : past[i] <= size'
    BY <2>1
  <2> QED
    BY <2>2 DEF Freshness, Growing, Horizon
<1>2. Cached'
  <2>1. CASE frame' = frame
    BY <2>1 DEF Freshness, Cached, Age, Visible
  <2>2. CASE frame' = Empty
    BY <2>2 DEF Cached, Empty
  <2> QED
    BY <2>1, <2>2
<1>3. slow' > 0 => Reading'
  BY DEF Freshness, Reading
<1>4. ASSUME NEW t \in Session PROVE Stale(t)' /\ Loaded(t)'
  BY DEF Freshness, Stale, Loaded, Visible, Horizon
<1> QED
  BY <1>1, <1>2, <1>3, <1>4 DEF Freshness

\* A query sees at least what the last tick saw.
LEMMA QueryFresh ==
    ASSUME TypeOK, Alone, Freshness, NEW s \in Session, Query(s)
    PROVE  Freshness'
<1>1. \A t \in Session : page[t] # "read"
  BY DEF Query, Alone, Computing
<1>2. CASE idle # "live"
  <2>1. page' = [page EXCEPT ![s] = "error"] /\ found' = found
        /\ UNCHANGED <<size, pool, frame, slow, past>>
    BY <1>2 DEF Query, Error, Goto, db
  <2> QED
    BY <1>1, <2>1, FreshKept
<1>3. CASE idle = "live"
  <2>1. /\ page' = [page EXCEPT ![s] = "read"] /\ found' = [found EXCEPT ![s] = Visible(size)]
        /\ UNCHANGED <<size, pool, frame, slow, past>>
    BY <1>3 DEF Query, Goto, Get, db
  <2>2. slow = 0 /\ 1 \in 1 .. Horizon
    <3>1. ~(slow > 0)
      BY <1>1 DEF Freshness, Reading
    <3> QED
      BY <3>1, Ages
  <2>3. Growing' /\ Cached'
    BY <2>1 DEF Freshness, Growing, Cached, Age, Visible, Horizon
  <2>4. ASSUME NEW t \in Session PROVE Stale(t)' /\ Loaded(t)'
    <3>1. CASE t = s
      <4>1. page'[s] = "read" /\ found'[s] = Visible(size)
        BY <2>1 DEF TypeOK
      <4>2. Visible(past[1]) <= Visible(size)
        <5>1. past[1] \in Nat /\ size \in Nat /\ past[1] <= size
          BY <2>2 DEF TypeOK, Freshness, Growing
        <5> QED
          BY <5>1, VisibleType
      <4>3. slow + 1 = 1 /\ Visible(past[1]) \in Int /\ Visible(size) \in Int
        <5>1. past[1] \in Nat /\ size \in Nat
          BY <2>2 DEF TypeOK
        <5> QED
          BY <2>2, <5>1, HorizonIs DEF Visible
      <4>4. found'[s] >= Visible(past[slow + 1])
        BY <4>1, <4>2, <4>3
      <4> QED
        BY <2>1, <3>1, <4>1, <4>4 DEF Stale, Loaded, Visible
    <3>2. CASE t # s
      <4>1. page'[t] = page[t] /\ found'[t] = found[t] /\ Stale(t) /\ Loaded(t)
        BY <2>1, <3>2 DEF TypeOK, Freshness
      <4> QED
        BY <2>1, <4>1 DEF Stale, Loaded, Visible, Horizon
    <3> QED
      BY <3>1, <3>2
  <2>5. ~(slow' > 0)
    BY <2>1, <2>2
  <2> QED
    BY <2>3, <2>4, <2>5 DEF Freshness
<1> QED
  BY <1>2, <1>3

\* What is stored is as fresh as the query was.
LEMMA StoreFresh ==
    ASSUME TypeOK, Alone, Freshness, NEW s \in Session, Store(s)
    PROVE  Freshness'
<1>1. /\ page[s] = "read" /\ page' = [page EXCEPT ![s] = "load"] /\ slow' = 0
      /\ frame' = [rows |-> found[s], left |-> TTL]
      /\ UNCHANGED <<size, pool, found, past>>
  BY DEF Store, Goto, db, Fetched
<1>2. \A t \in Session \ {s} : page[t] # "read"
  BY <1>1 DEF Alone, Computing
<1>3. found[s] >= Visible(past[slow + 1]) /\ found[s] \in Int
  BY <1>1 DEF Freshness, Stale, TypeOK
<1>4. /\ Visible(past[slow + 1]) >= Visible(past[MaxQuery + 1])
      /\ Visible(past[slow + 1]) >= Visible(past[Horizon])
      /\ Visible(past[slow + 1]) \in Int /\ Visible(past[MaxQuery + 1]) \in Int
      /\ Visible(past[Horizon]) \in Int
  <2>1. slow + 1 <= MaxQuery + 1 /\ slow + 1 <= Horizon
    BY Ages, HorizonIs
  <2>2. Growing /\ slow + 1 \in 1 .. Horizon /\ MaxQuery + 1 \in 1 .. Horizon /\ Horizon \in 1 .. Horizon
    BY Ages DEF Freshness
  <2>3. /\ Visible(past[MaxQuery + 1]) \in Int /\ Visible(past[slow + 1]) \in Int
        /\ Visible(past[MaxQuery + 1]) <= Visible(past[slow + 1])
    BY <2>1, <2>2, OlderIsLess
  <2>4. Visible(past[Horizon]) \in Int /\ Visible(past[Horizon]) <= Visible(past[slow + 1])
    BY <2>1, <2>2, OlderIsLess
  <2> QED
    BY <2>3, <2>4
<1>5. Cached'
  <2>1. frame'.rows = found[s] /\ frame'.left = TTL /\ MaxQuery + (TTL - TTL) + 1 = MaxQuery + 1
    BY <1>1, HorizonIs
  <2>2. found[s] >= Visible(past[MaxQuery + 1])
    BY <1>3, <1>4
  <2> QED
    BY <1>1, <2>1, <2>2 DEF Cached, Age, Visible
<1>6. ASSUME NEW t \in Session PROVE Stale(t)' /\ Loaded(t)'
  <2>1. page'[t] # "read"
    BY <1>1, <1>2 DEF TypeOK
  <2>2. Stale(t)'
    BY <2>1 DEF Stale
  <2>3. CASE t = s
    <3>1. found[s] >= Visible(past[Horizon])
      BY <1>3, <1>4
    <3> QED
      BY <1>1, <2>2, <2>3, <3>1 DEF Loaded, Visible, Horizon
  <2>4. CASE t # s
    <3>1. page'[t] = page[t] /\ Loaded(t)
      BY <1>1, <2>4 DEF TypeOK, Freshness
    <3> QED
      BY <1>1, <2>2, <3>1 DEF Loaded, Visible, Horizon
  <2> QED
    BY <2>3, <2>4
<1>7. Growing'
  BY <1>1 DEF Freshness, Growing, Horizon
<1>8. ~(slow' > 0)
  BY <1>1
<1> QED
  BY <1>5, <1>6, <1>7, <1>8 DEF Freshness

\* A tick makes all one tick older.
LEMMA TickFresh ==
    ASSUME TypeOK, Freshness, Tick
    PROVE  Freshness'
<1>1. /\ \A s \in Session : page[s] # "load"
      /\ UNCHANGED <<size, pool, page, found>>
      /\ Reading => slow < MaxQuery
      /\ slow'  = IF Reading THEN slow + 1 ELSE 0
      /\ frame' = IF frame.left = 0 THEN Empty ELSE [frame EXCEPT !.left = @ - 1]
  BY DEF Tick, db, run
<1>2. \A i \in 1 .. Horizon : past'[i] = IF i = 1 THEN size ELSE past[i - 1]
  BY PastStep
<1>3. \A i \in 1 .. Horizon : i < Horizon => i + 1 \in 1 .. Horizon /\ past'[i + 1] = past[i]
  <2> SUFFICES ASSUME NEW i \in 1 .. Horizon, i < Horizon
               PROVE  i + 1 \in 1 .. Horizon /\ past'[i + 1] = past[i]
    OBVIOUS
  <2>1. i + 1 \in 1 .. Horizon /\ i + 1 # 1 /\ i + 1 - 1 = i
    BY HorizonIs
  <2> QED
    BY <1>2, <2>1
<1>4. Growing'
  <2>1. size \in Nat /\ \A i \in 1 .. Horizon : past[i] \in Nat
    BY DEF TypeOK
  <2>2. ASSUME NEW i \in 1 .. Horizon PROVE past'[i] <= size
    BY <1>2, <2>1, <2>2, HorizonIs DEF Freshness, Growing
  <2>3. ASSUME NEW i \in 1 .. Horizon, NEW j \in 1 .. Horizon, i <= j PROVE past'[j] <= past'[i]
    <3>1. CASE i = 1
      <4>1. past'[i] = size
        BY <1>2, <3>1
      <4> QED
        BY <2>2, <4>1
    <3>2. CASE i # 1
      <4>1. /\ i - 1 \in 1 .. Horizon /\ j - 1 \in 1 .. Horizon /\ i - 1 <= j - 1 /\ j # 1
        BY <2>3, <3>2, HorizonIs
      <4>2. past'[i] = past[i - 1] /\ past'[j] = past[j - 1]
        BY <1>2, <3>2, <4>1
      <4> QED
        BY <4>1, <4>2 DEF Freshness, Growing
    <3> QED
      BY <3>1, <3>2
  <2> QED
    BY <1>1, <2>2, <2>3 DEF Growing, Horizon
<1>5. Cached'
  <2>1. CASE frame.left = 0
    BY <1>1, <2>1 DEF Cached, Empty
  <2>2. CASE frame.left # 0
    <3>1. frame'.rows = frame.rows /\ frame'.left = frame.left - 1
      BY <1>1, <2>2 DEF TypeOK
    <3>2. /\ Age(frame.left) \in 1 .. Horizon /\ Age(frame.left) < Horizon
          /\ Age(frame.left - 1) = Age(frame.left) + 1
      BY <2>2, Ages, HorizonIs DEF Age, Horizon
    <3>3. past'[Age(frame.left - 1)] = past[Age(frame.left)]
      BY <1>3, <3>2
    <3>4. Cached
      BY DEF Freshness
    <3>5. Age(frame'.left) = Age(frame.left - 1)
      BY <3>1
    <3> QED
      BY <1>1, <3>1, <3>3, <3>4, <3>5 DEF Cached, Age, Visible
  <2> QED
    BY <2>1, <2>2
<1>6. slow' > 0 => Reading'
  BY <1>1 DEF Reading
<1>7. ASSUME NEW t \in Session PROVE Stale(t)' /\ Loaded(t)'
  <2>1. Loaded(t)'
    BY <1>1 DEF Loaded
  <2>2. ASSUME page[t] = "read" PROVE found[t] >= Visible(past'[slow' + 1])
    <3>1. Reading /\ slow' = slow + 1 /\ slow \in Nat /\ slow < MaxQuery
      BY <1>1, <2>2, Ages DEF Reading
    <3>2. slow + 1 \in 1 .. Horizon /\ slow + 1 < Horizon
      BY <3>1, Ages, HorizonIs DEF Horizon
    <3>3. past'[slow' + 1] = past[slow + 1]
      BY <1>3, <3>1, <3>2
    <3> QED
      BY <2>2, <3>3 DEF Freshness, Stale
  <2> QED
    BY <1>1, <2>1, <2>2 DEF Stale, Visible
<1> QED
  BY <1>4, <1>5, <1>6, <1>7 DEF Freshness

LEMMA FreshInit == Init => Freshness
<1> SUFFICES ASSUME Init PROVE Freshness
  OBVIOUS
<1>1. size \in Nat /\ \A i \in 1 .. Horizon : past[i] = size
  BY DEF Init
<1>2. Growing
  BY <1>1 DEF Growing
<1>3. Cached /\ ~(slow > 0) /\ \A s \in Session : Stale(s) /\ Loaded(s)
  BY DEF Init, Cached, Empty, Stale, Loaded, None
<1> QED
  BY <1>2, <1>3 DEF Freshness

\* One step keeps pages fresh.
LEMMA FreshStep == TypeOK /\ TypeOK' /\ Alone /\ Freshness /\ [Next]_vars => Freshness'
<1> SUFFICES ASSUME TypeOK, TypeOK', Alone, Freshness, [Next]_vars PROVE Freshness'
  OBVIOUS
<1>0. size \in Nat /\ \A t \in Session : found[t] \in Int
  BY DEF TypeOK
<1>1. ASSUME NEW s \in Session, Rerun(s) \/ Miss(s) \/ HavePool(s) PROVE Freshness'
  <2>1. /\ UNCHANGED <<size, pool, frame, slow, past>> /\ page[s] # "read"
        /\ \A t \in Session \ {s} : found'[t] = found[t]
    BY <1>1 DEF Rerun, Miss, HavePool, Get, db, shared, Shown, None, TypeOK
  <2>2. PICK p : page' = [page EXCEPT ![s] = p] /\ p # "read" /\ p # "load"
    BY <1>1 DEF Rerun, Miss, HavePool, Goto
  <2> QED
    BY <2>1, <2>2, FreshKept
<1>2. ASSUME NEW s \in Session, Hit(s) PROVE Freshness'
  <2>1. /\ UNCHANGED <<size, pool, frame, slow, past>> /\ page[s] = "fetch"
        /\ page' = [page EXCEPT ![s] = "load"] /\ found' = [found EXCEPT ![s] = frame.rows]
        /\ frame.rows >= 0
    BY <1>2 DEF Hit, Goto, Get, db, shared
  <2>2. found'[s] = frame.rows /\ \A t \in Session \ {s} : found'[t] = found[t]
    BY <2>1 DEF TypeOK
  <2>3. ASSUME pool # None PROVE found'[s] >= Visible(past[Horizon])
    <3>1. /\ Age(frame.left) \in 1 .. Horizon /\ Horizon \in 1 .. Horizon /\ Age(frame.left) <= Horizon
          /\ Growing /\ frame.rows \in Int
      BY Ages DEF Freshness
    <3>2. /\ Visible(past[Horizon]) \in Int /\ Visible(past[Age(frame.left)]) \in Int
          /\ Visible(past[Horizon]) <= Visible(past[Age(frame.left)])
      BY <3>1, OlderIsLess
    <3>3. frame.rows >= Visible(past[Age(frame.left)])
      BY <2>1, <2>3 DEF Freshness, Cached
    <3> QED
      BY <2>2, <3>1, <3>2, <3>3
  <2> QED
    BY <2>1, <2>2, <2>3, FreshKept
<1>3. ASSUME NEW s \in Session, MakePool(s) PROVE Freshness'
  <2>1. pool # None /\ UNCHANGED <<page, found, slow, past, size, frame>>
    BY <1>3 DEF MakePool, None, db, run
  <2> QED
    BY <1>0, <2>1, FreshRemains
<1>4. ASSUME NEW s \in Session, NoPool(s) PROVE Freshness'
  <2>1. /\ pool = None /\ UNCHANGED <<size, pool, slow, past>> /\ page[s] = "pool"
        /\ page' = [page EXCEPT ![s] = "load"]
    BY <1>4 DEF NoPool, Goto, db
  <2>2. Growing' /\ Cached'
    BY <2>1 DEF Freshness, Growing, Cached, Horizon
  <2>3. slow' > 0 => Reading'
    BY <2>1 DEF Freshness, Reading, TypeOK
  <2>4. ASSUME NEW t \in Session PROVE Stale(t)' /\ Loaded(t)'
    <3>1. Loaded(t)'
      BY <2>1 DEF Loaded
    <3>2. page'[t] = "read" => t # s /\ page[t] = "read"
      BY <2>1 DEF TypeOK
    <3>3. t # s => found'[t] = found[t]
      BY <1>4 DEF NoPool, Get, TypeOK
    <3> QED
      BY <2>1, <3>1, <3>2, <3>3 DEF Freshness, Stale, Visible
  <2> QED
    BY <2>2, <2>3, <2>4 DEF Freshness
<1>5. ASSUME NEW s \in Session, GetConn(s) PROVE Freshness'
  <2>1. /\ UNCHANGED <<size, pool, frame, slow, past, found>> /\ page[s] # "read"
    BY <1>5 DEF GetConn, Error, db
  <2>2. PICK p : page' = [page EXCEPT ![s] = p] /\ p # "read" /\ p # "load"
    BY <1>5 DEF GetConn, Error, Goto
  <2> QED
    BY <2>1, <2>2, FreshKept
<1>6. ASSUME NEW s \in Session, Query(s) PROVE Freshness'
  BY <1>6, QueryFresh
<1>7. ASSUME NEW s \in Session, Store(s) PROVE Freshness'
  BY <1>7, StoreFresh
<1>8. ASSUME NEW s \in Session, Load(s) PROVE Freshness'
  <2>1. /\ UNCHANGED <<size, pool, frame, slow, past, found>> /\ page[s] # "read"
        /\ page' = [page EXCEPT ![s] = IF found[s] = 0 THEN "nodata" ELSE "charts"]
    BY <1>8 DEF Load, Goto, db, shared
  <2>2. PICK p : p = IF found[s] = 0 THEN "nodata" ELSE "charts"
    OBVIOUS
  <2>3. page' = [page EXCEPT ![s] = p] /\ p # "read" /\ p # "load"
    BY <2>1, <2>2
  <2> QED
    BY <2>1, <2>3, FreshKept
<1>9. Insert \/ GoDown \/ ComeUp \/ Lapse \/ UNCHANGED vars => Freshness'
  <2> SUFFICES ASSUME Insert \/ GoDown \/ ComeUp \/ Lapse \/ UNCHANGED vars PROVE Freshness'
    OBVIOUS
  <2>1. UNCHANGED <<page, found, slow, past, pool>> /\ (size' = size \/ size' = size + 1)
    BY DEF Insert, GoDown, ComeUp, Lapse, vars, db, shared, run
  <2>2. frame' = frame \/ frame' = Empty
    BY DEF Insert, GoDown, ComeUp, Lapse, vars, shared
  <2> QED
    BY <1>0, <2>1, <2>2, FreshRemains
<1>10. Restart => Freshness'
  <2> SUFFICES ASSUME Restart PROVE Freshness'
    OBVIOUS
  <2>1. Growing'
    BY DEF Restart, db, Freshness, Growing, Horizon
  <2>2. Cached' /\ ~(slow' > 0) /\ \A t \in Session : page'[t] = None
    BY DEF Restart, Cached, Empty
  <2>3. \A t \in Session : Stale(t)' /\ Loaded(t)'
    BY <2>2 DEF Stale, Loaded, None
  <2> QED
    BY <2>1, <2>2, <2>3 DEF Freshness
<1>11. Tick => Freshness'
  BY TickFresh
<1> QED
  BY <1>1, <1>2, <1>3, <1>4, <1>5, <1>6, <1>7, <1>8, <1>9, <1>10, <1>11 DEF Next

-----------------------------------------------------------------------------
(* The theorems.                                                           *)

LEMMA Invariance == Spec => []Inv
<1>1. Init => Inv
  <2> SUFFICES ASSUME Init PROVE Inv
    OBVIOUS
  <2>1. Alone /\ Outage
    BY DEF Init, Alone, Outage, Computing, None
  <2> QED
    BY <2>1, TypeInit, FreshInit DEF Inv
<1>2. Inv /\ [Next]_vars => Inv'
  BY TypeStep, AloneStep, OutageStep, FreshStep DEF Inv
<1> QED
  BY <1>1, <1>2, PTL DEF Spec

\* Every variable keeps its type.
THEOREM Typing == Spec => []TypeOK
<1>1. Inv => TypeOK
  BY DEF Inv
<1> QED
  BY <1>1, Invariance, PTL

\* Whatever outages, slow queries, restarts and other visitors a run of the page
\* meets, its charts know every row (of the newest Limit) that was stored a TTL
\* and a query before, unless the process has no pool.
THEOREM PagesAreFresh == Spec => []Fresh
<1>1. Inv => Fresh
  BY DEF Inv, Freshness, Loaded, Fresh
<1> QED
  BY <1>1, Invariance, PTL

\* However many visitors there are, an outage costs them one page once it is over.
THEOREM OutageCostsOnePage == Spec => []OneErrorPerOutage
<1>1. Inv => OneErrorPerOutage
  BY DEF Inv, Outage, OneErrorPerOutage
<1> QED
  BY <1>1, Invariance, PTL
=============================================================================
