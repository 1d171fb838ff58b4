--------------------------- MODULE CircuitBreaker ---------------------------
(***************************************************************************)
(* Provider selection (api/mab/router.py) and the per-provider circuit     *)
(* breaker it reads (api/circuit_breaker.py), one action per Redis         *)
(* command: both are coroutines that yield at every `await redis...`, in   *)
(* several API worker processes over one Redis.                            *)
(*                                                                         *)
(* A flow is one request of POST /infer from provider selection to the     *)
(* end of the fire-and-forget coroutine (record_failure or record_success) *)
(* that it schedules with asyncio.ensure_future.  What comes before the    *)
(* selection, and the Celery tasks, are in other modules.                  *)
(***************************************************************************)
EXTENDS Integers, FiniteSets, Functions

CONSTANTS
    Primary,     \* PROVIDERS without the fallback
    Fallback,    \* _FALLBACK_PROVIDER
    Flow,        \* requests (with their recorder) that may be outstanding
    Threshold,   \* FAILURE_THRESHOLD
    MaxFails,    \* bound: failed calls in a behaviour
    MaxMishaps,  \* bound: flows that die and keys that are evicted
    MayForce     \* the dev-only provider override is usable

ASSUME BreakerAssumption ==
    /\ Fallback \notin Primary
    /\ IsFiniteSet(Flow)
    /\ Threshold \in Nat \ {0}
    /\ MaxFails \in Nat /\ MaxMishaps \in Nat
    /\ MayForce \in BOOLEAN

Provider == Primary \cup {Fallback}

VARIABLES
    circuit,    \* circuit:{p}:state, "ABSENT" when the key does not exist
    failures,   \* circuit:{p}:failures, 0 when the key does not exist
    expiring,   \* does the failures key have a TTL?
    pc,         \* the await each flow is at
    unread,     \* circuits select_provider has still to read
    avail,      \* select_provider's `available`
    prov,       \* the provider called (Fallback when there is none yet)
    count,      \* record_failure's `count`
    mishaps,    \* bound counter
    failed,     \* history: failed calls so far
    orphaned,   \* history: counters whose recorder died at its EXPIRE
    undone,     \* history: breaches that a later event has undone
    wasOpen,    \* history: primaries OPEN at some instant of the selection
    wasShut     \* history: primaries not OPEN at some instant of it

redis   == <<circuit, failures, expiring>>
locals  == <<unread, avail, prov, count>>
history == <<failed, orphaned, undone, wasOpen, wasShut>>
vars    == <<redis, pc, locals, mishaps, history>>

FailPC == {"rf_incr", "rf_expire", "rf_read", "rf_trip", "rf_init"}
PC     == {"idle", "select", "call", "rs_del", "rs_close"} \cup FailPC

Init ==
    /\ circuit  = [p \in Provider |-> "ABSENT"]
    /\ failures = [p \in Provider |-> 0]
    /\ expiring = [p \in Provider |-> FALSE]
    /\ pc       = [r \in Flow |-> "idle"]
    /\ unread   = [r \in Flow |-> {}]
    /\ avail    = [r \in Flow |-> {}]
    /\ prov     = [r \in Flow |-> Fallback]
    /\ count    = [r \in Flow |-> 0]
    /\ failed   = [p \in Provider |-> 0]
    /\ mishaps  = 0
    /\ orphaned = {} /\ undone = {}
    /\ wasOpen  = [r \in Flow |-> {}]
    /\ wasShut  = [r \in Flow |-> {}]

-----------------------------------------------------------------------------
(* The tests of the code, and mistakes that could be made in them.         *)

AdmitsAll(s) == TRUE
Admits(s)    == s # "OPEN"

PoolWithFallback(a) == a \cup {Fallback}
Choices(a)          == IF a = {} THEN {Fallback} ELSE a

ExpiresSecond(n) == n = 2
StartsWindow(n)  == n = 1

TripsEarly(n) == n + 1 >= Threshold
TripsLate(n)  == n > Threshold
Trips(n)      == n >= Threshold

-----------------------------------------------------------------------------
(* select_provider: one GET per primary, then a choice among the           *)
(* available.  The sampling gives every available provider a positive      *)
(* probability, so the model lets it be any.                               *)

\* A new request; the histories start with what the circuits are now.
Start(r) ==
    /\ pc[r] = "idle"
    /\ pc'      = [pc EXCEPT ![r] = "select"]
    /\ unread'  = [unread EXCEPT ![r] = Primary]
    /\ avail'   = [avail EXCEPT ![r] = {}]
    /\ wasOpen' = [wasOpen EXCEPT ![r] = {p \in Primary : circuit[p] = "OPEN"}]
    /\ wasShut' = [wasShut EXCEPT ![r] = {p \in Primary : circuit[p] # "OPEN"}]
    /\ UNCHANGED <<redis, prov, count, failed, orphaned, undone, mishaps>>

\* The override skips selection: the histories excuse any choice.
StartForced(r, p) ==
    /\ MayForce
    /\ pc[r] = "idle"
    /\ pc'      = [pc EXCEPT ![r] = "call"]
    /\ prov'    = [prov EXCEPT ![r] = p]
    /\ wasOpen' = [wasOpen EXCEPT ![r] = Primary]
    /\ wasShut' = [wasShut EXCEPT ![r] = Primary]
    /\ UNCHANGED <<redis, unread, avail, count, failed, orphaned, undone, mishaps>>

ReadCircuit(r, p) ==
    /\ pc[r] = "select"
    /\ p \in unread[r]
    /\ unread' = [unread EXCEPT ![r] = @ \ {p}]
    /\ avail'  = [avail EXCEPT ![r] = IF Admits(circuit[p]) THEN @ \cup {p} ELSE @]
    /\ UNCHANGED <<redis, pc, prov, count, mishaps, history>>

Route(r) ==
    /\ pc[r] = "select"
    /\ unread[r] = {}
    /\ \E p \in Choices(avail[r]) : prov' = [prov EXCEPT ![r] = p]
    /\ pc'    = [pc EXCEPT ![r] = "call"]
    /\ avail' = [avail EXCEPT ![r] = {}]
    /\ UNCHANGED <<redis, unread, count, mishaps, history>>

-----------------------------------------------------------------------------
(* The outcome of the provider call, and the recorder it schedules.        *)

Forget(r) ==
    /\ wasOpen' = [wasOpen EXCEPT ![r] = {}]
    /\ wasShut' = [wasShut EXCEPT ![r] = {}]

CallFails(r) ==
    /\ pc[r] = "call"
    /\ SumFunction(failed) < MaxFails
    /\ pc'     = [pc EXCEPT ![r] = "rf_incr"]
    /\ failed' = [failed EXCEPT ![prov[r]] = @ + 1]
    /\ Forget(r)
    /\ UNCHANGED <<redis, locals, orphaned, undone, mishaps>>

CallSucceeds(r) ==
    /\ pc[r] = "call"
    /\ pc' = [pc EXCEPT ![r] = "rs_del"]
    /\ Forget(r)
    /\ UNCHANGED <<redis, locals, failed, orphaned, undone, mishaps>>

\* The end of a flow: its locals are gone.
Finish(r) ==
    /\ pc'     = [pc EXCEPT ![r] = "idle"]
    /\ unread' = [unread EXCEPT ![r] = {}]
    /\ avail'  = [avail EXCEPT ![r] = {}]
    /\ prov'   = [prov EXCEPT ![r] = Fallback]
    /\ count'  = [count EXCEPT ![r] = 0]

\* The circuit is left shut although the counter is at the threshold.
Undone(p) == IF failures[p] >= Threshold THEN undone \cup {p} ELSE undone

\* SET circuit:{p}:state; every selection under way sees an instant with it.
SetCircuit(p, s) ==
    /\ circuit' = [circuit EXCEPT ![p] = s]
    /\ undone'  = IF s = "OPEN" THEN undone \ {p} ELSE Undone(p)
    /\ wasOpen' = [r \in Flow |-> IF pc[r] = "select" /\ p \in Primary /\ s = "OPEN"
                                  THEN wasOpen[r] \cup {p} ELSE wasOpen[r]]
    /\ wasShut' = [r \in Flow |-> IF pc[r] = "select" /\ p \in Primary /\ s # "OPEN"
                                  THEN wasShut[r] \cup {p} ELSE wasShut[r]]

-----------------------------------------------------------------------------
(* record_failure: INCR, EXPIRE on the first of a window, GET state, SET.  *)

FailureIncr(r) ==
    /\ pc[r] = "rf_incr"
    /\ LET n == failures[prov[r]] + 1
       IN  /\ failures' = [failures EXCEPT ![prov[r]] = n]
           /\ count'    = [count EXCEPT ![r] = n]
           /\ pc'       = [pc EXCEPT ![r] = IF StartsWindow(n) THEN "rf_expire"
                                                               ELSE "rf_read"]
    /\ UNCHANGED <<circuit, expiring, unread, avail, prov, mishaps, history>>

\* EXPIRE of a key that no longer exists does nothing.
FailureExpire(r) ==
    /\ pc[r] = "rf_expire"
    /\ expiring' = [expiring EXCEPT ![prov[r]] = failures[prov[r]] > 0]
    /\ orphaned' = orphaned \ {prov[r]}
    /\ pc'       = [pc EXCEPT ![r] = "rf_read"]
    /\ UNCHANGED <<circuit, failures, locals, mishaps, failed, undone, wasOpen, wasShut>>

\* Reads the state and, without another await, decides what to write.
FailureRead(r) ==
    /\ pc[r] = "rf_read"
    /\ \/ /\ Trips(count[r]) \/ circuit[prov[r]] = "HALF_OPEN"
          /\ pc' = [pc EXCEPT ![r] = "rf_trip"]
          /\ UNCHANGED locals
       \/ /\ ~Trips(count[r]) /\ circuit[prov[r]] = "ABSENT"
          /\ pc' = [pc EXCEPT ![r] = "rf_init"]
          /\ UNCHANGED locals
       \/ /\ ~Trips(count[r]) /\ circuit[prov[r]] \notin {"ABSENT", "HALF_OPEN"}
          /\ Finish(r)
    /\ UNCHANGED <<redis, mishaps, history>>

FailureTrip(r) ==
    /\ pc[r] = "rf_trip"
    /\ SetCircuit(prov[r], "OPEN")
    /\ Finish(r)
    /\ UNCHANGED <<failures, expiring, failed, orphaned, mishaps>>

InitHalfOpen(r) ==
    /\ pc[r] = "rf_init"
    /\ SetCircuit(prov[r], "HALF_OPEN")
    /\ Finish(r)
    /\ UNCHANGED <<failures, expiring, failed, orphaned, mishaps>>

FailureInit(r) ==
    /\ pc[r] = "rf_init"
    /\ SetCircuit(prov[r], "CLOSED")
    /\ Finish(r)
    /\ UNCHANGED <<failures, expiring, failed, orphaned, mishaps>>

-----------------------------------------------------------------------------
(* record_success: DEL failures, then SET state CLOSED.                    *)

DropCounter(p) ==
    /\ failures' = [failures EXCEPT ![p] = 0]
    /\ expiring' = [expiring EXCEPT ![p] = FALSE]
    /\ orphaned' = orphaned \ {p}
    /\ undone'   = undone \ {p}

SuccessKeeps(r) ==
    /\ pc[r] = "rs_del"
    /\ pc' = [pc EXCEPT ![r] = "rs_close"]
    /\ UNCHANGED <<redis, locals, mishaps, history>>

SuccessDelete(r) ==
    /\ pc[r] = "rs_del"
    /\ DropCounter(prov[r])
    /\ pc' = [pc EXCEPT ![r] = "rs_close"]
    /\ UNCHANGED <<circuit, locals, mishaps, failed, wasOpen, wasShut>>

SuccessClose(r) ==
    /\ pc[r] = "rs_close"
    /\ SetCircuit(prov[r], "CLOSED")
    /\ Finish(r)
    /\ UNCHANGED <<failures, expiring, failed, orphaned, mishaps>>

-----------------------------------------------------------------------------
(* What Redis and the processes do by themselves.                          *)

WindowExpires(p) ==
    /\ expiring[p]
    /\ DropCounter(p)
    /\ UNCHANGED <<circuit, pc, locals, mishaps, failed, wasOpen, wasShut>>

Mishap ==
    /\ mishaps < MaxMishaps
    /\ mishaps' = mishaps + 1

\* allkeys-lru drops any key.
EvictCounter(p) ==
    /\ Mishap
    /\ failures[p] > 0
    /\ DropCounter(p)
    /\ UNCHANGED <<circuit, pc, locals, failed, wasOpen, wasShut>>

EvictState(p) ==
    /\ Mishap
    /\ circuit[p] # "ABSENT"
    /\ SetCircuit(p, "ABSENT")
    /\ UNCHANGED <<failures, expiring, pc, locals, failed, orphaned>>

\* A recorder that will find, or has found, its count at the threshold.
Tripping(r) == count[r] >= Threshold /\ pc[r] \in {"rf_expire", "rf_read", "rf_trip"}

\* A flow dies at an await: its process exits, or Redis gives it an error.
Abort(r) ==
    /\ Mishap
    /\ pc[r] # "idle"
    /\ Finish(r)
    /\ Forget(r)
    /\ orphaned' = IF pc[r] = "rf_expire" THEN orphaned \cup {prov[r]} ELSE orphaned
    /\ undone'   = IF Tripping(r) THEN Undone(prov[r]) ELSE undone
    /\ UNCHANGED <<redis, failed>>

\* The steps a live process takes by itself once a request has arrived.
Progress(r) ==
    \/ \E p \in Primary : ReadCircuit(r, p)
    \/ Route(r)
    \/ CallFails(r)   \/ CallSucceeds(r)
    \/ FailureIncr(r) \/ FailureExpire(r) \/ FailureRead(r)
    \/ FailureTrip(r) \/ FailureInit(r)
    \/ SuccessDelete(r) \/ SuccessClose(r)

Next ==
    \/ \E r \in Flow : \/ Start(r)
                       \/ \E p \in Provider : StartForced(r, p)
                       \/ Progress(r)
                       \/ Abort(r)
    \/ \E p \in Provider : WindowExpires(p) \/ EvictCounter(p) \/ EvictState(p)

Spec == Init /\ [][Next]_vars

\* Redis expires keys, and an arrived request runs on: every await of it
\* has a timeout (llm_timeout_seconds for the call).
Fairness ==
    /\ \A r \in Flow : WF_vars(Progress(r))
    /\ \A p \in Provider : WF_vars(WindowExpires(p))

FairSpec == Spec /\ Fairness

-----------------------------------------------------------------------------
(* Properties.                                                             *)

\* Every variable keeps its type; in particular nothing the program does
\* ever stores HALF_OPEN, the state the recovery of a circuit depends on.
TypeOK ==
    /\ circuit  \in [Provider -> {"ABSENT", "CLOSED", "OPEN"}]
    /\ failures \in [Provider -> Nat]
    /\ expiring \in [Provider -> BOOLEAN]
    /\ pc       \in [Flow -> PC]
    /\ unread   \in [Flow -> SUBSET Primary]
    /\ avail    \in [Flow -> SUBSET Primary]
    /\ prov     \in [Flow -> Provider]
    /\ count    \in [Flow -> Nat]
    /\ failed   \in [Provider -> Nat]
    /\ mishaps \in 0 .. MaxMishaps
    /\ orphaned \subseteq Provider /\ undone \subseteq Provider
    /\ wasOpen  \in [Flow -> SUBSET Primary]
    /\ wasShut  \in [Flow -> SUBSET Primary]

\* No circuit opens on hearsay: an OPEN circuit (or one a recorder is about
\* to open) stands for at least Threshold calls to that provider that failed,
\* however recorders of other calls and window expiries interleave.
OpenIsEarned ==
    \A p \in Provider : circuit[p] = "OPEN" => failed[p] >= Threshold

\* A failure counter has no TTL only while a recorder that found it new is at
\* its EXPIRE, or because one died exactly there: no interleaving with other
\* recorders, expiry or eviction loses the TTL.
CounterWillExpire ==
    \A p \in Provider : failures[p] > 0 /\ ~expiring[p] =>
        p \in orphaned \/ \E r \in Flow : pc[r] = "rf_expire" /\ prov[r] = p

\* Selection is right about some instant: a primary it routes to was not
\* OPEN throughout the selection, and the fallback is only used when each
\* primary was OPEN at some instant of the selection.
RoutingJustified ==
    \A r \in Flow : pc[r] = "call" =>
        /\ prov[r] \in Primary => prov[r] \in wasShut[r]
        /\ prov[r] = Fallback  => Primary \subseteq wasOpen[r]

\* A provider nobody will hear of again: OPEN, and no flow calls it, records
\* an outcome for it or has already read its circuit as available.
Abandoned(p) ==
    /\ circuit[p] = "OPEN"
    /\ \A r \in Flow : prov[r] # p /\ p \notin avail[r]

\* An abandoned primary stays abandoned: no selection routes a request to it and
\* no step closes its circuit; only the dev override, or the eviction of the
\* state key, gives it another chance.
StaysAbandoned ==
    [][\A p \in Primary :
         Abandoned(p) => \/ Abandoned(p)' \/ circuit'[p] = "ABSENT"
                         \/ \E r \in Flow : StartForced(r, p)]_vars

\* What record_failure promises: once nobody is at work on a provider, a
\* counter at the threshold means an OPEN circuit, however the recorders of the
\* failures interleave.  Only a recorder of another outcome that began before
\* the breach and writes CLOSED after it, the eviction of the state, or the
\* death of the recorder that would have tripped, undoes a breach.
BreachTrips ==
    \A p \in Provider :
        failures[p] >= Threshold /\ (\A r \in Flow : prov[r] # p)
            => circuit[p] = "OPEN" \/ p \in undone

\* What the module header promises of a tripped circuit: it does not stay
\* OPEN for ever.
Recovers == \A p \in Primary : circuit[p] = "OPEN" ~> circuit[p] # "OPEN"

-----------------------------------------------------------------------------
(* For a provider whose recorders take turns the breaker is the atomic one *)
(* of module Breaker, whatever happens to other providers: record_failure  *)
(* takes effect at its INCR and record_success at its DEL, the later SET   *)
(* being due.                                                              *)

RecorderOf(p) == {r \in Flow : /\ prov[r] = p
                               /\ pc[r] \in (FailPC \ {"rf_incr"}) \cup {"rs_close"}}

Contended == {p \in Provider : \E r, s \in RecorderOf(p) : r # s}

\* The state the recorder r of provider p is about to leave.
Due(r, p) ==
    CASE pc[r] \in {"rs_close", "rf_init"}                         -> "CLOSED"
      [] pc[r] = "rf_trip"                                         -> "OPEN"
      [] pc[r] \in {"rf_expire", "rf_read"} /\ count[r] >= Threshold -> "OPEN"
      [] OTHER -> IF circuit[p] = "ABSENT" THEN "CLOSED" ELSE circuit[p]

Settled(p) == IF p \in Contended \/ RecorderOf(p) = {} THEN circuit[p]
              ELSE Due(CHOOSE r \in RecorderOf(p) : TRUE, p)

Atomic == INSTANCE Breaker WITH state <- [p \in Provider |-> Settled(p)],
                                contended <- Contended

\* The step-by-step breaker implements the atomic one.
ImplementsAtomic == Atomic!Spec
=============================================================================
