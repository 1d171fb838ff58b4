# A TLA+ verification of TINAI

TINAI is a gateway in front of LLM providers. `POST /v1/infer` passes a load
shedder, a rate limiter and a budget guard, looks the prompt up in a cache,
lets a multi-armed bandit choose a provider whose circuit is not open, calls
it, answers, and leaves messages for Celery workers that log the call, judge
its quality, teach the bandit, fill the cache and charge the client. All state
that matters is shared: Redis (database 0 the control plane, database 1 the messages) and
PostgreSQL (logs). A dashboard reads the logs. Every `await` in the API and every Redis command of a worker
is a place where somebody else runs. That is what the modules are about.

## 1. Inventory

| component | code | state | operations | what makes it correct |
|---|---|---|---|---|
| circuit breaker | `api/circuit_breaker.py` | `circuit:{p}:state`, `circuit:{p}:failures` + TTL | `record_failure`, `record_success` | opens only on enough failures, opens on a breach, lets the provider back in, counter lapses |
| provider selection | `api/mab/router.py` | reads the above and `mab:weights:*` | `select_provider` | routes by circuits that were really so at some instant |
| budget guard | `api/budget_guard.py`, `workers/tasks/budget.py` | `budget:daily:{c}` + TTL, `budget:blocked:{c}` + TTL | `check_budget`, `deduct_budget` (task) | a paid call is charged once, a limit reached stays final, a charge counts for its own day |
| rate limiter | `api/rate_limiter.py` | one counter per client and bucket + TTL | Lua script, 429 with Retry-After | bounds the requests of a window; Retry-After is worth waiting for |
| inference route | `api/routers/infer.py`, `api/load_shedder.py` | one coroutine per request | `infer`, its messages, its recorders | charge last, log and learn from every call, whatever the broker refuses |
| provider clients | `api/providers/*`, `api/chaos.py` | `chaos:{p}:mode` | `call_*`, `provider_retry` | never raise, at most two attempts |
| prompt cache | `api/cache.py`, `workers/tasks/cache.py` | `cache:prompt:{hash}` + TTL | lookup, `populate_cache` | replays only what a provider said for that prompt |
| log and scoring | `workers/tasks/telemetry.py` (log), `quality.py` | `inference_logs` | INSERT, UPDATE of the score, chain to the bandit | one row per request, the judge's score is on it |
| bandit learning | `workers/tasks/telemetry.py`, `api/mab/reward.py` | `mab:stats:*`, `mab:weights:*`, `provider_stats` | `update_mab_weights` | each observation counts once; backup = Redis |
| task queue | `workers/celery_app.py` | messages, acknowledgements, retries | late ack, redelivery, prefork pool, beat | every task is run, at least once unless its process is killed |
| Pareto front | `dashboard/pareto.py` | none | `compute_pareto_front` | exactly the configurations undominated on the axes it compares |
| safety task | `workers/tasks/safety.py` | `inference_logs.safety_flagged` | ask the model, UPDATE, retry | ends, disturbs no other task, its verdict is on the right row |
| price feed | `workers/tasks/price_feed.py` | `pricing:multiplier:{p}` + TTL | `simulate_price_update` | a call is priced by one price of its own provider |
| policy weights | `api/mab/router.py`, `reward.py` | none | `compute_reward`, multipliers | of two equal providers the policy favours the one it names |
| dashboard page | `dashboard/app.py` | the pool and the rows, cached by Streamlit | `get_connection_pool`, `fetch_inference_logs`, page runs | what it shows is recent; an outage heals |
| the rest | auth, admin routes, main, config, redis_keys, models, migrations, drift, tracing, scripts | | | see section 7 |

Interactions: the route calls limiter, guard, cache, selection and client in that
order; the client's answer starts a breaker recorder (`ensure_future`) and up
to seven Celery messages; the judging task publishes the bandit's message in
its turn; the price feed of the beat schedule writes what the route reads next; the bandit's weights and the breaker's states feed the next selection;
the charging task's keys feed the next budget check.

Hard behaviours: commands of concurrent recorders and tasks interleave;
a task may fail after its effect and be retried, be redelivered from its
beginning when the worker host dies (`task_acks_late`), or be lost when only its
pool process is killed; the broker may refuse any message, or evict one it has, or take one and fail to say so; a process may die at
any await; keys lapse late and one by one, and Redis runs with `allkeys-lru`, so any key may vanish;
midnight falls between two commands. `PROJECT.json` lists each as a hazard, at its
line, with the property that watches it.

## 2. Modules

| module | models | one action is |
|---|---|---|
| `CircuitBreaker` | selection and breaker, any number of providers and requests | one Redis command of a coroutine |
| `Breaker` | the breaker as its docstrings promise it: atomic wherever one outcome at a time is recorded for a provider; `CircuitBreaker` implements it | one outcome recorded |
| `BudgetGuard` | one client's budget: check and charging task | one Redis command |
| `RateLimiter` | one client's limiter | the timestamp; the Lua script; one tick |
| `Messages` | what the route publishes for an answer, and in which order | (operators only) |
| `Inference` | a request from admission to its messages, the price feed, the cache and its task | one await of the route, one command of a task |
| `InferenceLog` | the tasks that write `inference_logs`: log, judge, safety | one statement or HTTP call of a task |
| `MabUpdate` | the learning task of one provider in a worker pool | one Redis command or SQL statement |
| `Policy` | rewards, multipliers, adjusted weights | one learned reward |
| `Dashboard` | the page, its cached pool and cached rows, its visitors | one call of Streamlit or psycopg2 |
| `ParetoFront` | the loop of `compute_pareto_front` | one iteration |

`MC*` modules only give constants values. `*Proofs` modules hold theorems.
Variables carry the names of keys and locals where TLA+ allows; a variable marked
*history* or *bound* is not in the code. `PROJECT.json` `map` gives the lines of each definition.

**CircuitBreaker.** A flow is a request together with the recorder it starts.
`ReadCircuit` is one turn of the loop of `select_provider`; the order of reading
is left open, and `Route` may choose any available provider, since softmax gives each a positive
probability. `FailureIncr` .. `FailureTrip`/`FailureInit` are the commands of
`record_failure`, `SuccessDelete` and `SuccessClose` those of `record_success`.
A state key is `ABSENT`, `CLOSED` or `OPEN`. The end of the 60 s window is an action
that is always enabled. A mishap is bounded in number: `Abort`, a process exit or Redis error at an await, and the
eviction of a key. `undone` (history) holds the providers whose breach a later event has undone: a CLOSED written by a recorder that
was already at work, the eviction of the state key, the death of the recorder that was to trip. `Breaker` says nothing of a
provider while recorders of it overlap (`contended`) nor across a mishap, and is bound again as soon as both are over.

**BudgetGuard.** Clients share no key, so there is one. Time is the UTC day, and a TTL is the day at whose end the key's
time is over. `Midnight` may fall between any two commands, and a key whose time is over goes later, in a step of its own
(`DropDaily`, `DropFlag`): the code rounds its seconds up and sends them one command after it has computed them, so neither the instant nor
the order of the two keys is fixed. A TTL that a task has read before midnight and sends after it ends the old day (`Deadlines`); `Moment` is the one
second that the code makes of a TTL of -1 or -2. `ReadFlag`, `ReadSpend` are
`check_budget`; `Charge`, `ReadTTL`, `SetTTL`, `ReadLeft`, `Block`, `Ack` are
`deduct_budget`; `Fail`, `Redeliver`, `Lose` are what Celery and its broker do to it. `cut` (history) says at which commands midnight, or the end of the
counter, has caught a task. A task is cut off by `task_time_limit` and a key lapses within seconds, so neither sees two midnights.

**RateLimiter.** Time is in ticks, `Second` of them to a second, for any resolution of `time.time()`: the weight takes the
fraction in, Retry-After drops it (`Whole`). `Stamp` is `time.time()` in the API process, `Evaluate` the
script, up to `MaxLag` ticks later and in any order. The weighted count is kept
times `Window`, so that it is an integer; the code's floor and comparison are the same test.
`late` (history) says that a script has run after one with a later timestamp, or after its bucket. `alone` and `snubs` (history) follow a
client that does what Retry-After says while nobody else is counted. The eviction of a counter is not modelled: it forgets requests, so nothing bounds what is admitted after it.

**Messages.** The publication order inside the single `try` of `_fire_post_response_tasks`: a broker
failure at the n-th message loses it and all after it, so the workers get a prefix. A quality message whose `delay()` raises becomes an update of the bandit;
when the broker had taken it all the same (`unsure`, one of the bounded faults), both are published. An answer is an
error, a text, or blank (a success without text). `Inference` and `InferenceLog` share it: the
first says what the route has published when, the second what the tasks make of it.

**Inference.** `Select` picks any provider, and `CallGroq`, `CallOpenrouter`, `CallFallback`
are one HTTP attempt each. Only an answer of a priced provider may cost anything. Limiter, guard and
shedder are a gate that may refuse, because their own modules say when; what decides the provider is
in `CircuitBreaker`. `FeedPrices` is the transaction of the price feed and may come at any moment, `DropPrice` the end of
a multiplier's hour. The route's cache and the task `populate_cache` meet in `cache`.

**InferenceLog.** Every task is a message, its effects and an acknowledgement. `Insert`,
`WriteScore`, `Flag` are the SQL statements, `Judge`, `Ask` the HTTP calls, `Chain` the message to the bandit; `Fail` starts a
task over (at most `max_retries` times), `Crash` redelivers or loses it. `main.py:178` lets a
client choose the request id, so `Ids` holds the ways in which requests may get theirs (shared, different, malformed),
and neither the migrations nor `models.py` make the table that the statements name, so
`Schemas` holds the tables a deployment may have. A statement that names a missing column, or a malformed UUID, fails whenever it is tried.

**MabUpdate.** A moving average is the sequence of observations folded into it, so
"lost" and "counted twice" are visible; the value, z-scores and reward are a
function of it. The new variance also depends on the new mean, which folds in the same observation.

**Policy.** z-scores are whole, rewards are doubled and multipliers are in tenths, so all is integer. Softmax is
monotone: the provider with the higher adjusted weight is the likelier one. `CircuitBreaker!Route` therefore lets
any available provider be chosen, and only `Policy` says anything about which is preferred.

**Dashboard.** Every visit or click runs the page once, in a thread of one process. `MakePool` is
`st.cache_resource`, made once for ever and `None` for ever if the database was away; `Hit`, `Miss`, `Store` are
`st.cache_data`, whose misses are computed one at a time; `GetConn`, `Query` are psycopg2's pool, which closes a broken
connection on its return. Streamlit and psycopg2 are modelled from how the page uses them. Rows are counted.

**ParetoFront.** The averages are the input, any values; a step is a loop iteration. The error rates are input too, because the code
averages them; it never compares them, so the front of `FrontIsExact` is the one of cost and latency.

## 3. Runs

| run | question | bounds, and why they are enough |
|---|---|---|
| `cb_core` | types, `OpenIsEarned`, `CounterWillExpire`, `RoutingJustified`, `BreachTrips`, `StaysAbandoned`, `ImplementsAtomic` | 2 primaries + fallback, override on, 2 concurrent flows whose recorders overlap as they like, threshold 2, 4 failed calls, 1 mishap: two circuits trip, a trip is undone by a late CLOSED, a late recorder meets a lapsed counter, one dies at any await; every hazard here involves two flows on one provider |
| `cb_no_recovery` | `Recovers` is violated | one primary, requests for ever |
| `bg_day` | types, `CarriedByCaughtTask`, `FlagMeansSpent`, `SpentIsSpent`, `CounterWillLapse`, `ChargedPerAttempt`, `ChargeEnds` | 2 requests, limit 2 in units of their cost, one midnight between any two commands, late expiry, eviction, 2 faults, lost tasks, 1 retry: the limit is reached by the second charge, or by a charge repeated, and a task of yesterday goes on or is retried today |
| `bg_reset` | `ResetsAtMidnight` is violated | the same without faults, lost tasks or eviction |
| `rl_window` | types, `BucketBound`, `SlidingExcess`, `CountersLiveOn`, `SecondRetrySuffices` | a window of 2 s in half seconds, limit 2, 3 buckets, 2 requests in flight delayed up to a whole window, 5 scripts: each bucket can be overrun, three requests are admitted within one window's length, a bucket is needed and expires, and a client is rejected, waits, is rejected again and waits again |
| `inf_effects` | types, `CacheIsFaithful`, `ChargedLast`, `FairPrice` | 2 requests and 2 prompts (same or different), 2 multipliers, 1 fault, 1 retry: one request's answer is another's hit, a price changes between any two awaits, and a quality message is taken whose reply is lost |
| `log_rows` | types, `SameScore`, `OncePerAttempt`, `GivenUpForAReason`, `ScoreIsKept`, `TasksEnd` | 2 requests, 3 kinds of ids, 3 tables, 1 retry of each task, 1 fault, at most 2 of the 3 messages of a request at a time: INSERT twice, UPDATE before, between or after, and of the other request's row; the fault may be a lost reply to the route |
| `mab_pool` | types, `LostOnlyToOverlap`, `CountedPerAttempt`, `LoneUpdateRepairs` | 3 tasks on 2 processes, 2 faults, 1 retry, eviction, one metric (metrics share no key; the loop over them repeats the same commands) |
| `mab_policy` | `PolicyDecides` is violated | z-scores from -1 to 3 |
| `dash_page` | types, `Fresh`, `OneErrorPerOutage` | 3 visitors (one computes, two wait), TTL 2 ticks, a query of up to 1 tick, a table of 3 rows and a LIMIT of 2, any number of outages and restarts |
| `pf_front` | types, `FrontIsExact`, `PrefixSettled` | 4 configurations, 3 costs, 3 latencies, 2 error rates: all ties and chains of dominance |
| `pf_reliable` | `FrontKeepsReliable` is violated | 3 configurations, 2 values on each axis |

Symmetry is used where flows, requests or tasks are interchangeable and no liveness
is checked. `CHECK_DEADLOCK FALSE` is set where the bounds let the system stop:
all requests answered and all tasks ended.

### What the violations show

* **A tripped circuit never recovers.** `circuit_breaker.py:5-11` describes a
  half-open probe. No code writes `HALF_OPEN`, `OPEN` has no TTL, and selection
  routes nothing to an `OPEN` provider.
* **A policy's multiplier inverts on a negative reward.** `router.py:125` multiplies a reward by the
  policy's factor. The first observation of a provider gives a reward of about -0.67 (z-scores
  `(1-l)x / sqrt((1-l) + l((1-l)x)^2)` with `l` = 0.1: 0.9 for quality 1.0, 3.2 for a latency in
  milliseconds). Two such providers under `cost-first` get -0.2 (groq) and -2 (openrouter), and softmax prefers the one
  the policy means to avoid.

* **The daily budget does not reset at midnight.** `budget.py:44` adds a charge to the counter, and only then (`:46-54`) asks for
  its TTL and computes the seconds to midnight. When midnight falls between, the counter, with yesterday's charge in it, gets a TTL to the end of the
  new day and counts against its limit, with no failure at all. The 402 (`budget_guard.py:75`, `:100`) and
  `redis_keys.py:133` promise midnight UTC. `CarriedByCaughtTask` says that, as long as no task fails, only such a task carries a charge over.
* **The front forgets reliability.** `tradeoffs-info.md:41` defines dominance over cost, latency and reliability, and `TODO.md:290-291` lists
  `reliability_index` as an objective. `pareto.py:18` computes the error rate; `:27-28` and `:34-37` compare the other two, so a configuration that only its
  reliability keeps on the front is filtered out.

### Met while modelling, without a run of their own

* A trip can be overwritten by a concurrent recorder: `record_failure` writes `CLOSED`
  over a key it read as missing (`circuit_breaker.py:102`), `record_success` deletes the
  counter and then writes `CLOSED` (`:116`). `BreachTrips` counts such a breach as undone, and says that nothing but these overlaps, an eviction and a death undoes one.
* The failure counter can lose its TTL if its recorder dies at `circuit_breaker.py:89`; `CounterWillExpire` says that this is the only way.
* A retry of `deduct_budget` charges again (`budget.py:66`), one of `update_mab_weights`
  folds the observation in again (`telemetry.py:187`): `ChargedPerAttempt`, `CountedPerAttempt` bound it.
* README.md:65 of the repository calls the limiter "mathematically precise"; `SlidingExcess` is the precise bound on its error.
* The daily counter can lose its TTL: `redis_keys.py:133` and the 429 of `budget_guard.py:100` promise midnight UTC,
  but a pool process killed between INCRBYFLOAT and EXPIRE leaves a key without a TTL, and a client at its limit is never charged
  again, so no task repairs it. `CounterWillLapse` names the ways: a task given up, or killed, after its charge.
* A charge in the second that `math.ceil` adds to the old counter's life (`budget.py:53`) is dropped with it: the client is not charged for it on either day.
* The block flag can outlive the budget it stands for: a task that midnight catches between its first and its last TTL, or that finds the counter lapsed
  or evicted, sets it for a counter that is gone or is the new day's (`FlagMeansSpent` excepts exactly these, by `cut` and `evicted`).
  `budget_guard.py:29-31` says that the counter may have been reset while the flag is live; what the code promises is that the flag's own time is then over.
* A quality message whose `delay()` raises although the broker took it (`infer.py:280-288`) teaches the bandit twice: 1.0 from the route, and the judge's score.
* One wait for Retry-After may not do (`rate_limiter.py:77-79`): it ends at the start of the next bucket, where the previous
  one has its full weight, rejected requests included. `SecondRetrySuffices` is what holds, for a limit of at least 2; with 1 a client that retries may never get in.
* `models.py:88-89` calls `provider_stats` a durable backup and the source of truth for recovery. Two overlapping updates upsert their own
  copies in any order, and the row may then differ from Redis with no task running; `LoneUpdateRepairs` says when it is right.
* A score whose UPDATE comes before the INSERT is lost, and one whose UPDATE fails for good is still sent to the bandit; `SameScore` excludes both.
* Two requests with one `X-Request-ID` score each other's rows.
* The INSERT of `telemetry.py:58` names `quality_score`, which no migration creates, and `model`, which `models.py` lacks: after
  `alembic upgrade head` alone (README.md:41 of the repository) every INSERT fails and is given up. `safety_flagged` (`safety.py:82`)
  is in neither, so every verdict is asked for `max_retries + 1` times and lost. `drift.py:64` reads `output_text`, which nothing inserts.
* A dashboard that starts before its database shows "no data" until it is restarted (`Fresh` makes that exception).
* `docker-compose.yml:7-8` and `celery_app.py:7-9` say that database 1 isolates the queue from eviction; `allkeys-lru`
  and `maxmemory` are of the whole server, so messages may be evicted too.
* `/health` answers 200 when degraded (`main.py:220`); a publisher that dies between a retry's message and its own acknowledgement may leave two messages of one task (not modelled).
* A failed call teaches the bandit quality 1.0 and cost 0 (`infer.py:291`).

## 4. Fairness

Three runs have fairness, and two of them pass. `FairSpec` of `BudgetGuard` (`bg_day`) assumes weak fairness of the
charging task's own steps (a process that has a task runs it, the broker hands a waiting message to some
worker), of midnight, and of Redis dropping a key whose time is over. Nothing is assumed of
requests, eviction, or faults, which are bounded. Strong fairness is not needed: no other actor
disables a task's step. `FairSpec` of `InferenceLog` (`log_rows`) assumes weak fairness of each task's steps: the workers never
stop taking messages, HTTP calls have timeouts, and `task_time_limit` ends what hangs. `DemandSpec` of `CircuitBreaker` (`cb_no_recovery`) assumes weak fairness of the flows
and of the window's expiry, and moreover that requests keep arriving and that a provider that is called again and
again does answer: it grants the code more than it can ask for, so the counterexample
cannot be blamed on a system that stopped.

## 5. Proofs

TLAPS proves, for every value of the constants (under the named `ASSUME` of each module), every invariant and
every action property that a passing run checks, and the refinement of the atomic breaker. Each
inductive invariant was checked by TLC on the run's instance before it was proved.
One theorem has a hypothesis, given in the second column; the others hold of `Spec` as it stands, with all its faults.

| theorem | statement | argument |
|---|---|---|
| `CircuitBreakerProofs!Typing` | `[]TypeOK` | inductive as it stands |
| `OpenEarned` | `[]OpenIsEarned` | `OpenIsEarned` says nothing of recorders under way. `EarnedInv` adds: counter + recorders that have not yet incremented <= failed calls, and the count a recorder carries <= failed calls, and is at least the threshold where it trips. `UnrecordedFinite` and `CounterBelow` are the cardinality facts |
| `CounterExpires` | `[]CounterWillExpire` | by the counter's life, action by action |
| `AbandonedForEver` | `StaysAbandoned` | action property, from typing alone |
| `Routing` | `[]RoutingJustified` | `SelectInv`: what is read as available was shut, what is read and dropped was open |
| `BreachesTrip` | `[]BreachTrips` | `TripInv`: a counter at the threshold is of an open circuit, of a breach undone, or of a provider with a recorder that is about to trip it (`Tripping`). The last is what makes it inductive: `TripKept` carries that recorder through everybody else's steps |
| `AtomicWhenAlone` | `ImplementsAtomic` | the refinement, step by step: `IncrRecords` (INCR is `RecordFailure`), `DeleteRecords` (DEL is `RecordSuccess`), `CounterEnds`; a GET or SET of a recorder that is alone stutters, because it does what was `Due`, and one that overlaps is `Contend` (`ReadContends`, `SetContends`); `DeathIsMishap`, `EvictionIsMishap`; other providers' states stay (`OthersStay`) |
| `BudgetGuardProofs!Typing` | `[]TypeOK` | inductive |
| `CounterLapses` | `[]CounterWillLapse` | `HasCharged`: a task past its first command has charged, so whatever ends it leaves a trace in `charges` |
| `LimitHolds` | `[]SpentIsSpent` | `BarredInv`: until Redis drops the counter it is at the limit, and a request that has seen it so is refused or still to read it |
| `FlagIsHonest` | `[]FlagMeansSpent` | `FlagInv`: while no task was caught and nothing evicted, what each task knows of the counter and its TTL is true (`TaskInv`), and the two keys lapse at the end of one day (`KeyInv`) |
| `ChargesCounted` | `[]ChargedPerAttempt` | `Paired`: before a task's charge every earlier one was paid for by a fault |
| `CarriedOnlyIfCaught` | `[]CarriedByCaughtTask` | `CarryInv`: while no task has failed or been caught, a counter without a TTL has a task at work on it, and a TTL read or set is of the day the counter was created |
| `RateLimiterProofs!Typing` | `[]TypeOK` | inductive |
| `LimitPerBucket` | `BucketBound` always, if no script can be delayed by more than a window, and without that as long as scripts run in order and within their buckets | `Key`: a counter lives until its bucket and the next have passed; `Full`: it misses none of the requests its bucket has admitted |
| `CountersOutlive` | `[]CountersLiveOn` | `Key` |
| `ExcessIsBounded` | `[]SlidingExcess` | `Slides`: while no script is late, the last request admitted in a bucket was weighed against all before it. The rest is arithmetic on whole buckets and their rests (`Divided`, `Later`, `Scaled`), the same for any resolution of the clock |
| `TwoRetriesSuffice` | `[]SecondRetrySuffices` | `Patient`: who waits finds the next bucket empty, and after a second time at most its own request in the one before; `Floored`: the seconds Retry-After drops do not move it out of that bucket |
| `InferenceProofs!Typing` | `[]TypeOK` | with `Underway`: attempts per await |
| `FaithfulCache` | `[]CacheIsFaithful` | `Filled`, `Replayed`: only a request on record has its answer put up for caching, only such an answer is in the cache. `Delivered` is what a prefix of `Messages` contains |
| `ChargeComesLast` | `[]ChargedLast` | `Charged`, from `Delivered` |
| `PriceIsFair` | `[]FairPrice` | `Watched`: the current price of the chosen provider is always among those seen |
| `InferenceLogProofs!Typing` | `[]TypeOK` | inductive |
| `EffectsPerAttempt` | `[]OncePerAttempt` | `Paid`: effects plus the attempt still due are at most faults (and retries of a refused statement) plus one; `Did`: what a task has done by the time it is where it is; `ToldOnce`: messages to the bandit plus the one still due are at most faults plus one; `LearnsOnce`: the bandit is told or the answer judged, not both, unless a reply was lost |
| `OnlyForAReason` | `[]GivenUpForAReason` | inductive with types; `Abandoned` says which steps give up |
| `ScoresAgree` | `[]SameScore` | `OwnRow`, and `Scored`: rows settled before an UPDATE in time stay settled, `ToldLast`: the bandit was told the last judgement last |
| `NothingForgotten` | `ScoreIsKept` | action property, from typing: `RowsInserted`, `RowsScored`, `RowsFlagged` |
| `MabUpdateProofs!Typing` | `[]TypeOK` | inductive |
| `CountedOncePerAttempt` | `[]CountedPerAttempt` | `Within`: in every copy of an average, stored or held by a process, an observation occurs at most once per attempt, less one while the attempt has its fold still to do |
| `LoneUpdateLasts`, `LoneUpdateAgrees` | `[]LostOnlyToOverlap`, `[]LoneUpdateRepairs` | `Follows`: what an undisturbed attempt has stored so far; `Carries`: what a later task read contains it; `Repaired` |
| `DashboardProofs!Typing` | `[]TypeOK` | inductive |
| `PagesAreFresh` | `[]Fresh` | `Freshness`: the table grows, and cached rows, the rows of a query in flight, and those a page has loaded know what the tick of their age saw |
| `OutageCostsOnePage` | `[]OneErrorPerOutage` | `Outage`, with `Alone`: one session computes at a time |
| `ParetoFrontProofs!Typing`, `OnePass`, `ExactFront` | `[]TypeOK`, `[]PrefixSettled`, `[]FrontIsExact` | `PrefixSettled` is inductive with types; `FrontIsUndominated` turns the textbook definition into the code's dominance |

What the hypothesis means: `MaxLag <= Window` says that no script runs more than a window after its timestamp, 1 s by default
(`api/config.py:158`). The code sets no Redis timeout that would ensure it (`api/main.py:66-71`), and a script delayed by more can
find its bucket's counter gone and start a new one: so the theorem holds without it only while scripts have run in order and within their buckets (`~late`). Conditions of a property itself
(`~late`, `cut = {} /\ ~evicted`, `p \in undone`) are recorded as they happen in one behaviour of the full specification: none of them removes a step. Finite sets are assumed only where cardinalities occur (flows of the breaker); `MabAssumption` has the
metrics distinct, as the list in `telemetry.py` is, because two entries of one name would fold twice;
`DashboardAssumption` lets the table hold a row. For the proofs the limiter keeps its
history as a running total (`admitted`), whose differences (`Admitted`) are the sums the properties are about, and the columns of a row are updated by a function (`Updated`).

Only model-checked: `ChargeEnds` and `TasksEnd`, which are liveness under fairness and out of the prover's
reach. `Recovers` and `PolicyDecides` are refuted by their runs.

## 6. Plan

Done, in this order: breaker and selection; budget; limiter; learning task; route, price feed and cache; Pareto front; the tasks that
write the log, under client-chosen ids and the real schemas; the dashboard page; policy weights; then the proofs of
every safety property of those modules, and the refinement of the atomic breaker with overlapping recorders, midnight and late expiry, and a clock with fractions.

Next, the proofs: which overlaps of two recorders of one provider still end in a state of the atomic breaker.

Next, the model, in what is left of it: the administrator's flags with their TTL, and a
composition of limiter, guard and route in which a rejected request leaves no trace but its own count.

## 7. Not modelled

* Floating-point arithmetic (the fold of an average, the division of a z-score, softmax, rounding of costs): TLC has no reals, and no
  property here depends on more than which observations are in an average, the sign of a reward, and that probabilities are positive.
* `auth.py`: one comparison with one shared secret, in front of all the modelled gates.
* `routers/admin.py`: sets and deletes two flags; the modules let them have any value whenever they are read.
* `config.py`, `main.py`, `dependencies.py`: settings, pools, headers and wiring. Of `main.py` only the request id decides anything modelled.
  The pool of 50 Redis connections is not: a request that finds it empty gets an error at its await, which is `Die`.
* `redis_keys.py`, `models.py`, `migrations`: names and tables, which the modules stand for; the columns on which they disagree are in `InferenceLog`.
* `drift.py` (its query is always empty), `observability.py` (one HTTP post whose errors are swallowed).
* The charts of `dashboard/app.py` other than the front, `calibrate_mab.py`, `tests/` (clients of the API).
* Functions that nothing calls: `is_open`, the async `deduct_budget`, `set_cached_response`, `get_ema_stats`.
* Celery's result store and the order in which a broker hands out messages: any order is allowed.
