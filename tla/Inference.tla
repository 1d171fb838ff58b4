------------------------------ MODULE Inference ------------------------------
(***************************************************************************)
(* POST /v1/infer from its arrival to the last message it publishes: the   *)
(* route (api/routers/infer.py), the provider call behind it               *)
(* (api/providers), the price feed it reads, and the task that fills the   *)
(* prompt cache it reads.                                                  *)
(*                                                                         *)
(* Modelled elsewhere: the rate limiter, the budget and its charging task, *)
(* what decides the choice of a provider, the tasks that log, judge and    *)
(* learn; here they are a gate that may refuse, any provider, and          *)
(* messages.  The administrator's flags (load shedding, chaos) have any    *)
(* value whenever they are read.  The publishing of a request's messages   *)
(* has no await in it: workers may run between two of them, but no task    *)
(* can tell, so it is one step.                                            *)
(***************************************************************************)
EXTENDS Integers, Sequences, SequencesExt, Messages

CONSTANTS
    Req,        \* requests
    Prompt,     \* prompts, standing for their hashes
    Multiplier, \* what the price feed may write
    Standard,   \* the multiplier where the key is missing (1.0)
    MaxRetries, \* max_retries of populate_cache
    MaxFaults   \* bound: failed attempts and worker deaths

Provider == {"groq", "openrouter", "fallback"}
Priced   == Provider \ {"openrouter"}    \* those with a price above zero
None == "none"

ASSUME InferenceAssumption ==
    /\ None \notin Req /\ None \notin Prompt
    /\ Standard \in Multiplier /\ None \notin Multiplier
    /\ MaxRetries \in Nat /\ MaxFaults \in Nat

VARIABLES
    cache,   \* cache:prompt:{hash}: the request whose answer it holds
    price,   \* pricing:multiplier:{provider}, Standard without it
    pc,      \* the await each request is at, or how it ended
    prompt,  \* body.prompt
    prov,    \* provider_name, until the response
    mult,    \* price_multiplier, until the response
    tries,   \* HTTP attempts
    answer,  \* provider_response
    task,    \* the request's populate_cache message
    retries, \* self.request.retries of it
    faults,  \* bound counter
    sent,    \* history: the messages the route has published
    seen     \* history: multipliers of prov in force since it was selected

call    == <<prov, mult, tries, answer>>
route   == <<pc, prompt, call>>
work    == <<task, retries>>
history == <<sent, seen>>
vars    == <<cache, price, route, work, faults, history>>

Awaits == {"new", "cache", "select", "price", "chaos", "http", "respond"}
PC     == Awaits \cup {"hit", "replied", "failed", "ended"}
Busy   == {"queued", "ran"}

Init ==
    /\ cache   = [p \in Prompt |-> None]
    /\ price   = [p \in Provider |-> Standard]
    /\ pc      = [r \in Req |-> "new"]
    /\ prompt \in [Req -> Prompt]
    /\ prov    = [r \in Req |-> None]
    /\ mult    = [r \in Req |-> None]
    /\ tries   = [r \in Req |-> 0]
    /\ answer  = [r \in Req |-> None]
    /\ task    = [r \in Req |-> None]
    /\ retries = [r \in Req |-> 0]
    /\ faults  = 0
    /\ sent    = [r \in Req |-> {}]
    /\ seen    = [r \in Req |-> {}]

-----------------------------------------------------------------------------
(* The route up to the provider.                                           *)

Goto(r, l) == pc' = [pc EXCEPT ![r] = l]

\* Load shedding, the rate limiter and the budget refuse or let pass.
Admit(r) ==
    /\ pc[r] = "new"
    /\ Goto(r, "ended") \/ Goto(r, "cache")
    /\ UNCHANGED <<cache, price, prompt, call, work, faults, history>>

\* What the lookup may find: an unreadable cache is a miss.
Lookup(p) == {cache[p], None}

\* A hit is answered and logged at once, if the broker takes the message.
ReadCache(r) ==
    /\ pc[r] = "cache"
    /\ \E found \in Lookup(prompt[r]) :
          \/ /\ found # None
             /\ Goto(r, "hit")
             /\ \E ms \in Prefixes(<<"log">>) : sent' = [sent EXCEPT ![r] = ToSet(ms)]
          \/ /\ found = None
             /\ Goto(r, "select")
             /\ UNCHANGED sent
    /\ UNCHANGED <<cache, price, prompt, call, work, faults, seen>>

\* The bandit's choice, or the override of a dev deployment.
Select(r) ==
    /\ pc[r] = "select"
    /\ \E p \in Provider : /\ prov' = [prov EXCEPT ![r] = p]
                           /\ seen' = [seen EXCEPT ![r] = {price[p]}]
    /\ Goto(r, "price")
    /\ UNCHANGED <<cache, price, prompt, mult, tries, answer, work, faults, sent>>

PriceOfFallback(r) == price["fallback"]
PriceOf(r)         == price[prov[r]]

ReadPrice(r) ==
    /\ pc[r] = "price"
    /\ mult' = [mult EXCEPT ![r] = PriceOf(r)]
    /\ Goto(r, "chaos")
    /\ UNCHANGED <<cache, price, prompt, prov, tries, answer, work, faults, history>>

-----------------------------------------------------------------------------
(* The provider call: it never raises, every error becomes an answer.      *)

\* The chaos mode may fail the call (slow it down, which takes only time).
ReadChaos(r) ==
    /\ pc[r] = "chaos"
    /\ \/ Goto(r, "http") /\ UNCHANGED answer
       \/ Goto(r, "respond") /\ answer' = [answer EXCEPT ![r] = "error"]
    /\ UNCHANGED <<cache, price, prompt, prov, mult, tries, work, faults, history>>

TwiceMore(n) == n < 2
OnceMore(n)  == n < 1

\* One HTTP attempt; only a transport error is tried again, once.
Attempt(r) ==
    /\ pc[r] = "http"
    /\ tries' = [tries EXCEPT ![r] = @ + 1]
    /\ \/ /\ OnceMore(tries[r])
          /\ UNCHANGED <<pc, answer>>
       \/ /\ Goto(r, "respond")
          /\ \E a \in Answer : answer' = [answer EXCEPT ![r] = a]
    /\ UNCHANGED <<cache, price, prompt, prov, mult, work, faults, history>>

CallGroq(r)       == prov[r] = "groq" /\ Attempt(r)
CallOpenrouter(r) == prov[r] = "openrouter" /\ Attempt(r)
CallFallback(r)   == prov[r] = "fallback" /\ Attempt(r)

\* calculate_cost_cents: whether the answer can cost anything (it costs
\* nothing without tokens, or if so little that it is rounded away).
MayCost(r) == answer[r] # "error" /\ prov[r] \in Priced

\* The call is over and its locals are gone.
Forget(r) ==
    /\ prov'  = [prov EXCEPT ![r] = None]
    /\ mult'  = [mult EXCEPT ![r] = None]
    /\ tries' = [tries EXCEPT ![r] = 0]
    /\ seen'  = [seen EXCEPT ![r] = {}]

Respond(r) ==
    /\ pc[r] = "respond"
    /\ Goto(r, IF answer[r] = "error" THEN "failed" ELSE "replied")
    /\ \E sampled, checked \in {FALSE, HasText(answer[r])}, paid \in {FALSE, MayCost(r)} :
       \E unsure \in {FALSE, sampled /\ faults < MaxFaults} :
       \E ms \in Prefixes(Messages(answer[r], sampled, unsure, paid, checked)) :
          /\ sent'   = [sent EXCEPT ![r] = ToSet(ms)]
          /\ task'   = [task EXCEPT ![r] = IF Contains(ms, "cache") THEN "queued" ELSE @]
          /\ faults' = IF unsure THEN faults + 1 ELSE faults
    /\ Forget(r)
    /\ UNCHANGED <<cache, price, prompt, answer, retries>>

\* The API process dies at an await, or Redis fails there and nothing catches it.
Die(r) ==
    /\ pc[r] \in Awaits
    /\ Goto(r, "ended")
    /\ answer' = [answer EXCEPT ![r] = None]
    /\ Forget(r)
    /\ UNCHANGED <<cache, price, prompt, work, faults, sent>>

-----------------------------------------------------------------------------
(* populate_cache.                                                         *)

Populate(r) ==
    /\ task[r] = "queued"
    /\ cache' = [cache EXCEPT ![prompt[r]] = r]
    /\ task'  = [task EXCEPT ![r] = "ran"]
    /\ UNCHANGED <<price, route, retries, faults, history>>

Ack(r) ==
    /\ task[r] = "ran"
    /\ task' = [task EXCEPT ![r] = "done"]
    /\ UNCHANGED <<cache, price, route, retries, faults, history>>

\* An exception, before or after the task's effect: it starts over.
Fail(r) ==
    /\ task[r] \in Busy
    /\ faults < MaxFaults
    /\ faults' = faults + 1
    /\ \/ /\ retries[r] < MaxRetries
          /\ retries' = [retries EXCEPT ![r] = @ + 1]
          /\ task'    = [task EXCEPT ![r] = "queued"]
       \/ /\ retries[r] = MaxRetries
          /\ task' = [task EXCEPT ![r] = "gone"]
          /\ UNCHANGED retries
    /\ UNCHANGED <<cache, price, route, history>>

\* The worker host dies and the broker redelivers; or only the pool process
\* dies and its parent acknowledges the task as failed, or the broker (a
\* Redis that evicts) drops the message.
Crash(r) ==
    /\ task[r] \in Busy
    /\ faults < MaxFaults
    /\ faults' = faults + 1
    /\ \E s \in {"queued", "gone"} : task' = [task EXCEPT ![r] = s]
    /\ UNCHANGED <<cache, price, route, retries, history>>

-----------------------------------------------------------------------------
(* Redis and its other writers.                                            *)

\* The end of the 24 hours, or an eviction.
DropCached(p) ==
    /\ cache[p] # None
    /\ cache' = [cache EXCEPT ![p] = None]
    /\ UNCHANGED <<price, route, work, faults, history>>

Charging == {r \in Req : prov[r] # None}

Reprice(new) ==
    /\ price' = new
    /\ seen'  = [r \in Req |-> IF r \in Charging THEN seen[r] \cup {new[prov[r]]}
                                                 ELSE seen[r]]
    /\ UNCHANGED <<cache, route, work, faults, sent>>

\* simulate_price_update writes every multiplier in one transaction.
FeedPrices == \E new \in [Provider -> Multiplier] : Reprice(new)

\* A multiplier lapses after an hour, or is evicted.
DropPrice(p) == price[p] # Standard /\ Reprice([price EXCEPT ![p] = Standard])

Handle(r) == \/ Admit(r) \/ ReadCache(r) \/ Select(r) \/ ReadPrice(r) \/ ReadChaos(r)
             \/ CallGroq(r) \/ CallOpenrouter(r) \/ CallFallback(r) \/ Respond(r)

Next ==
    \/ \E r \in Req : \/ Handle(r) \/ Die(r)
                      \/ Populate(r) \/ Ack(r) \/ Fail(r) \/ Crash(r)
    \/ \E p \in Prompt : DropCached(p)
    \/ FeedPrices
    \/ \E p \in Provider : DropPrice(p)

Spec == Init /\ [][Next]_vars

-----------------------------------------------------------------------------
(* Properties.                                                             *)

\* Every variable keeps its type; no call makes more than two attempts.
TypeOK ==
    /\ cache   \in [Prompt -> Req \cup {None}]
    /\ price   \in [Provider -> Multiplier]
    /\ pc      \in [Req -> PC]
    /\ prompt  \in [Req -> Prompt]
    /\ prov    \in [Req -> Provider \cup {None}]
    /\ mult    \in [Req -> Multiplier \cup {None}]
    /\ tries   \in [Req -> 0 .. 2]
    /\ answer  \in [Req -> Answer \cup {None}]
    /\ task    \in [Req -> Busy \cup {None, "done", "gone"}]
    /\ retries \in [Req -> 0 .. MaxRetries]
    /\ faults  \in 0 .. MaxFaults
    /\ sent    \in [Req -> SUBSET {"log", "quality", "mab", "cache", "budget",
                                   "safety", "trace"}]
    /\ seen    \in [Req -> SUBSET Multiplier]

\* What the cache replays is a text a provider gave for that very prompt, and
\* a request whose answer is replayed has gone on record itself: it is logged
\* and the bandit hears of it, whatever the broker refused and the workers
\* repeated.
CacheIsFaithful ==
    \A p \in Prompt : cache[p] # None =>
        LET q == cache[p] IN /\ prompt[q] = p /\ answer[q] = "text"
                             /\ "log" \in sent[q]
                             /\ sent[q] \cap {"quality", "mab"} # {}

\* The broker may fail at any message, and then the client's favour comes
\* first: nobody is charged for an answer that is not logged, learnt from and,
\* if it has a text, put up for caching, nor for an error or a cache hit.
ChargedLast ==
    \A r \in Req : "budget" \in sent[r] =>
        /\ pc[r] = "replied" /\ "log" \in sent[r]
        /\ sent[r] \cap {"quality", "mab"} # {}
        /\ answer[r] = "text" => "cache" \in sent[r]

\* However often prices change or lapse during a call, the multiplier an
\* answer is priced with was that of its own provider at some moment since the
\* provider was chosen.
FairPrice ==
    \A r \in Req : pc[r] \in {"chaos", "http", "respond"} => mult[r] \in seen[r]
=============================================================================
