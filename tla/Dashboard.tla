----------------------------- MODULE Dashboard -----------------------------
(***************************************************************************)
(* What a visitor of the dashboard (dashboard/app.py) gets to see of       *)
(* inference_logs.  Every visit and every click runs the page once; the    *)
(* runs are threads of one Streamlit process and share                     *)
(*   - the connection pool (st.cache_resource): made once, for ever, and   *)
(*     None for ever if the database was not there that first time;        *)
(*   - the last query's rows (st.cache_data) for five seconds, after which *)
(*     the first run that misses them queries while the others wait.       *)
(* Streamlit and psycopg2 are modelled from how the page uses them.  The   *)
(* rows are a number: how many of them the page knows.                     *)
(***************************************************************************)
EXTENDS Integers, Sequences, SequencesExt

CONSTANTS
    Session,  \* visitors
    Limit,    \* the LIMIT of the query (15000)
    TTL,      \* ttl of fetch_inference_logs, in ticks
    MaxQuery, \* bound: ticks from the rows' selection to their caching
    MaxSize   \* bound: rows in the table

None == "none"

ASSUME DashboardAssumption ==
    /\ None \notin Session
    /\ {Limit, TTL, MaxQuery} \subseteq Nat /\ MaxSize \in Nat \ {0}

VARIABLES
    up,     \* the database answers
    size,   \* rows of inference_logs
    pool,   \* the cached pool: not made yet, open, or None
    idle,   \* the pool's idle connection: none, live, or broken by an outage
    frame,  \* the cached rows: number, ticks left; -1 rows where nothing is cached
    page,   \* where each session's run of the page is
    found,  \* the rows it has: from the cache, from its query
    slow,   \* ticks since the query in flight selected its rows
    past,   \* history: size at the last ticks, the latest first
    failed  \* history: runs that failed with the database up, since it was last down

db      == <<up, size>>
shared  == <<pool, idle, frame>>
run     == <<page, found>>
vars    == <<db, shared, run, slow, past, failed>>

\* At most one session is in any of these: it computes the cached function.
Computing == {"pool", "getconn", "query", "read"}
Shown     == {"charts", "nodata", "error"}
Empty     == [rows |-> -1, left |-> 0]

\* How far back in time the rows of a page may be from.
Horizon == TTL + MaxQuery + 1

Unlimited(n) == n
Visible(n)   == IF n > Limit THEN Limit ELSE n

Init ==
    /\ up \in BOOLEAN /\ size \in 0 .. 1
    /\ pool   = "unset"
    /\ idle   = None
    /\ frame  = Empty
    /\ page   = [s \in Session |-> None]
    /\ found  = [s \in Session |-> 0]
    /\ slow   = 0
    /\ past   = [i \in 1 .. Horizon |-> size]
    /\ failed = 0

-----------------------------------------------------------------------------
(* One run of the page.                                                    *)

Goto(s, p) == page' = [page EXCEPT ![s] = p]
Get(s, n)  == found' = [found EXCEPT ![s] = n]

\* A visit, or a click on a page that is shown.
Rerun(s) ==
    /\ page[s] \in Shown \cup {None}
    /\ Goto(s, "fetch")
    /\ Get(s, 0)
    /\ UNCHANGED <<db, shared, slow, past, failed>>

Hit(s) ==
    /\ page[s] = "fetch" /\ frame.rows >= 0
    /\ Goto(s, "load") /\ Get(s, frame.rows)
    /\ UNCHANGED <<db, shared, slow, past, failed>>

Miss(s) ==
    /\ page[s] = "fetch" /\ frame.rows < 0
    /\ \A t \in Session : page[t] \notin Computing
    /\ Goto(s, "pool")
    /\ UNCHANGED <<db, shared, found, slow, past, failed>>

\* The first caller makes the pool and its one connection, and keeps what it got.
MakePool(s) ==
    /\ page[s] = "pool" /\ pool = "unset"
    /\ IF up THEN pool' = "open" /\ idle' = "live"
             ELSE pool' = None /\ UNCHANGED idle
    /\ UNCHANGED <<db, frame, run, slow, past, failed>>

HavePool(s) ==
    /\ page[s] = "pool" /\ pool = "open"
    /\ Goto(s, "getconn")
    /\ UNCHANGED <<db, shared, found, slow, past, failed>>

FetchedLonger(rows) == [rows |-> rows, left |-> TTL + 1]
Fetched(rows)       == [rows |-> rows, left |-> TTL]

\* Without a pool there are no rows, and that is cached as well.
NoPool(s) ==
    /\ page[s] = "pool" /\ pool = None
    /\ Goto(s, "load") /\ Get(s, 0)
    /\ frame' = Fetched(0)
    /\ UNCHANGED <<db, pool, idle, slow, past, failed>>

\* An exception ends the run; nothing is cached.
Error(s) ==
    /\ Goto(s, "error")
    /\ failed' = IF up THEN failed + 1 ELSE failed
    /\ UNCHANGED found

\* The idle connection, whatever became of it, or a new one.
GetConn(s) ==
    /\ page[s] = "getconn"
    /\ IF idle = None /\ ~up
       THEN Error(s) /\ UNCHANGED idle
       ELSE /\ Goto(s, "query")
            /\ idle' = IF idle = None THEN "live" ELSE idle
            /\ UNCHANGED <<found, failed>>
    /\ UNCHANGED <<db, pool, frame, slow, past>>

\* putconn keeps a connection that works and closes one that does not.
Kept(state)     == state
Returned(state) == IF state = "live" THEN "live" ELSE None

Query(s) ==
    /\ page[s] = "query"
    /\ idle' = Returned(idle)
    /\ IF idle = "live" THEN Goto(s, "read") /\ Get(s, Visible(size)) /\ UNCHANGED failed
                        ELSE Error(s)
    /\ UNCHANGED <<db, pool, frame, slow, past>>

Store(s) ==
    /\ page[s] = "read"
    /\ Goto(s, "load")
    /\ frame' = Fetched(found[s])
    /\ slow'  = 0
    /\ UNCHANGED <<db, pool, idle, found, past, failed>>

\* df.empty: a warning, and the run stops; otherwise the charts.
Load(s) ==
    /\ page[s] = "load"
    /\ Goto(s, IF found[s] = 0 THEN "nodata" ELSE "charts")
    /\ UNCHANGED <<db, shared, found, slow, past, failed>>

-----------------------------------------------------------------------------
(* The world around it.                                                    *)

Insert ==
    /\ up /\ size < MaxSize
    /\ size' = size + 1
    /\ UNCHANGED <<up, shared, run, slow, past, failed>>

GoDown ==
    /\ up /\ up' = FALSE
    /\ idle'   = IF idle = "live" THEN "broken" ELSE idle
    /\ failed' = 0
    /\ UNCHANGED <<size, pool, frame, run, slow, past>>

ComeUp ==
    /\ ~up /\ up' = TRUE
    /\ UNCHANGED <<size, shared, run, slow, past, failed>>

\* The Streamlit process starts anew.
Restart ==
    /\ pool' = "unset" /\ idle' = None /\ frame' = Empty
    /\ page' = [s \in Session |-> None] /\ found' = [s \in Session |-> 0]
    /\ slow' = 0
    /\ UNCHANGED <<db, past, failed>>

Lapse ==
    /\ frame.rows >= 0 /\ frame.left = 0
    /\ frame' = Empty
    /\ UNCHANGED <<db, pool, idle, run, slow, past, failed>>

Reading == \E s \in Session : page[s] = "read"

\* Time passes: cached rows lapse TTL ticks after they were cached, or within
\* the tick that follows.  A page is put together within a tick.
Tick ==
    /\ \A s \in Session : page[s] # "load"
    /\ Reading => slow < MaxQuery
    /\ slow'  = IF Reading THEN slow + 1 ELSE 0
    /\ past'  = <<size>> \o Front(past)
    /\ frame' = IF frame.left = 0 THEN Empty ELSE [frame EXCEPT !.left = @ - 1]
    /\ UNCHANGED <<db, pool, idle, run, failed>>

Next ==
    \/ \E s \in Session : \/ Rerun(s) \/ Hit(s) \/ Miss(s)
                          \/ MakePool(s) \/ HavePool(s) \/ NoPool(s)
                          \/ GetConn(s) \/ Query(s) \/ Store(s) \/ Load(s)
    \/ Insert \/ GoDown \/ ComeUp \/ Restart \/ Lapse \/ Tick

Spec == Init /\ [][Next]_vars

-----------------------------------------------------------------------------
(* Properties.                                                             *)

\* Every variable keeps its type.
TypeOK ==
    /\ up     \in BOOLEAN
    /\ size   \in 0 .. MaxSize
    /\ pool   \in {"unset", "open", None}
    /\ idle   \in {None, "live", "broken"}
    /\ frame  \in [rows : -1 .. Limit, left : 0 .. TTL]
    /\ page   \in [Session -> Computing \cup Shown \cup {None, "fetch", "load"}]
    /\ found  \in [Session -> 0 .. Limit]
    /\ slow   \in 0 .. MaxQuery
    /\ past   \in [1 .. Horizon -> 0 .. MaxSize]
    /\ failed \in Nat

\* Whatever outages, slow queries and other visitors a run of the page meets,
\* when it gets to its charts they know every row (of the newest Limit) that was
\* stored a TTL and a query before; and its warning that there is no data tells
\* the truth about that time.  The exception is a process without a pool.
Fresh ==
    \A s \in Session :
        page[s] = "load" /\ pool # None => found[s] >= Visible(past[Horizon])

\* An outage costs the visitors one page once it is over: the pool throws the
\* broken connection away, and makes a new one.
OneErrorPerOutage == failed <= 1
=============================================================================
