--------------------------- MODULE MabUpdateProofs ---------------------------
(***************************************************************************)
(* Theorems about MabUpdate, for any number of messages, processes,        *)
(* metrics, retries and faults, with and without eviction.                 *)
(***************************************************************************)
EXTENDS MabUpdate, FiniteSetTheorems, TLAPS

-----------------------------------------------------------------------------
(* Types.                                                                  *)

\* The metric at an index of the loop.
LEMMA Loop ==
    /\ DOMAIN Metrics = 1 .. Len(Metrics) /\ Len(Metrics) \in Nat \ {0}
    /\ \A k \in DOMAIN Metrics : Metrics[k] \in Metric
    /\ \A m \in Metric : \E k \in DOMAIN Metrics : m = Metrics[k]
    /\ Empty \in Observed
BY MabAssumption DEF Metric, Empty, Observed

\* Writing one metric of an average, and what a task knows of one.
LEMMA Written ==
    ASSUME NEW f \in Observed, NEW m \in Metric, NEW s \in Seq(Task)
    PROVE  [f EXCEPT ![m] = s] \in Observed
BY DEF Observed

\* A fold adds one observation at the end.
LEMMA Folded ==
    ASSUME NEW s \in Seq(Task), NEW t \in Task
    PROVE  /\ Fold(s, t) \in Seq(Task) /\ Len(Fold(s, t)) = Len(s) + 1
           /\ \A k \in 1 .. Len(s) : Fold(s, t)[k] = s[k]
           /\ Fold(s, t)[Len(s) + 1] = t
BY DEF Fold

LEMMA TypeInit == Init => TypeOK
<1> SUFFICES ASSUME Init PROVE TypeOK
  OBVIOUS
<1>1. 1 \in DOMAIN Metrics /\ Empty \in Observed
  BY Loop
<1> QED
  BY <1>1, MabAssumption DEF Init, TypeOK, PC, Running

LEMMA TypeStep == TypeOK /\ [Next]_vars => TypeOK'
<1> SUFFICES ASSUME TypeOK, [Next]_vars PROVE TypeOK'
  OBVIOUS
<1>1. 1 \in DOMAIN Metrics /\ Empty \in Observed
  BY Loop
<1>2. ASSUME NEW t \in Task, Start(t) PROVE TypeOK'
  BY <1>1, <1>2 DEF Start, TypeOK, PC, Running, Busy, redis
<1>3. ASSUME NEW t \in Task, Step(t) PROVE TypeOK'
  <2>1. Here(t) \in Metric
    BY Loop DEF Here, TypeOK
  <2>2. ASSUME GetMu(t) PROVE TypeOK'
    BY <2>1, <2>2 DEF GetMu, TypeOK, Observed, PC, Running, redis, history
  <2>3. ASSUME GetVar(t) PROVE TypeOK'
    <3> DEFINE newMu  == [myMu[t] EXCEPT ![Here(t)] = Fold(@, t)]
               newVar == [myVar[t] EXCEPT ![Here(t)] = Fold(var[Here(t)], t)]
    <3>1. newMu \in Observed /\ newVar \in Observed
      <4>1. /\ myMu[t] \in Observed /\ myVar[t] \in Observed
            /\ myMu[t][Here(t)] \in Seq(Task) /\ var[Here(t)] \in Seq(Task)
        BY <2>1 DEF TypeOK, Observed
      <4>2. Fold(myMu[t][Here(t)], t) \in Seq(Task) /\ Fold(var[Here(t)], t) \in Seq(Task)
        BY <4>1, Folded
      <4> QED
        BY <2>1, <4>1, <4>2, Written
    <3>2. /\ myMu' = [myMu EXCEPT ![t] = newMu] /\ myVar' = [myVar EXCEPT ![t] = newVar]
          /\ pc' = [pc EXCEPT ![t] = "setmu"]
          /\ UNCHANGED <<redis, row, at, retries, faults, history>>
      BY <2>3 DEF GetVar
    <3> HIDE DEF newMu, newVar
    <3> QED
      BY <3>1, <3>2 DEF TypeOK, PC, Running, redis, history
  <2>4. ASSUME SetMu(t) PROVE TypeOK'
    BY <2>1, <2>4 DEF SetMu, TypeOK, Observed, PC, Running, locals, history
  <2>5. ASSUME SetVar(t) PROVE TypeOK'
    <3>1. at' \in [Task -> DOMAIN Metrics]
      <4>1. CASE More(t)
        <5>1. at[t] + 1 \in DOMAIN Metrics
          BY Loop, <4>1 DEF More, TypeOK
        <5> QED
          BY <2>5, <4>1, <5>1 DEF SetVar, TypeOK
      <4>2. CASE ~More(t)
        BY <2>5, <4>2 DEF SetVar, TypeOK
      <4> QED
        BY <4>1, <4>2
    <3>2. var' \in Observed
      BY <2>1, <2>5 DEF SetVar, TypeOK, Observed
    <3>3. pc' \in [Task -> PC]
      BY <2>5 DEF SetVar, TypeOK, PC, Running
    <3> QED
      BY <2>5, <3>1, <3>2, <3>3 DEF SetVar, TypeOK, history
  <2>6. ASSUME SetWeight(t) PROVE TypeOK'
    BY <2>6 DEF SetWeight, TypeOK, PC, Running, locals, history
  <2>7. ASSUME Persist(t) PROVE TypeOK'
    BY <2>7 DEF Persist, NewRow, TypeOK, PC, Running, redis, locals, history
  <2>8. ASSUME Ack(t) PROVE TypeOK'
    BY <1>1, <2>8 DEF Ack, Finish, TypeOK, PC, Running, redis
  <2> QED
    BY <1>3, <2>2, <2>3, <2>4, <2>5, <2>6, <2>7, <2>8 DEF Step
<1>4. ASSUME NEW t \in Task, Fail(t) \/ Redeliver(t) \/ Lose(t) PROVE TypeOK'
  <2>1. \E s \in {"queued", "gone"} : Finish(t, s)
    BY <1>4 DEF Fail, Redeliver, Lose
  <2>2. /\ pc' \in [Task -> PC] /\ at' \in [Task -> DOMAIN Metrics]
        /\ myMu' \in [Task -> Observed] /\ myVar' \in [Task -> Observed]
    BY <1>1, <2>1 DEF Finish, TypeOK, PC
  <2>3. retries' \in [Task -> 0 .. MaxRetries] /\ faults' \in 0 .. MaxFaults
    BY <1>4, MabAssumption DEF Fail, Redeliver, Lose, TypeOK
  <2>4. UNCHANGED <<redis, row, history>>
    BY <1>4 DEF Fail, Redeliver, Lose
  <2> QED
    BY <2>2, <2>3, <2>4 DEF TypeOK, redis, history
<1>5. CASE Evict
  <2>1. <<>> \in Seq(Task)
    OBVIOUS
  <2>2. mu' \in Observed
    <3>1. ASSUME NEW m \in Metric, mu' = [mu EXCEPT ![m] = <<>>] PROVE mu' \in Observed
      BY <2>1, <3>1, Written DEF TypeOK
    <3> QED
      BY <1>5, <3>1 DEF Evict, TypeOK
  <2>3. var' \in Observed
    <3>1. ASSUME NEW m \in Metric, var' = [var EXCEPT ![m] = <<>>] PROVE var' \in Observed
      BY <2>1, <3>1, Written DEF TypeOK
    <3> QED
      BY <1>5, <3>1 DEF Evict, TypeOK
  <2>4. weight' \in Observed
    BY <1>1, <1>5 DEF Evict, TypeOK
  <2> QED
    BY <1>5, <2>2, <2>3, <2>4, MabAssumption DEF Evict, TypeOK, locals
<1>6. CASE UNCHANGED vars
  BY <1>6 DEF TypeOK, vars, redis, locals, history
<1> QED
  BY <1>2, <1>3, <1>4, <1>5, <1>6 DEF Next

\* Every variable keeps its type.
THEOREM Typing == Spec => []TypeOK
BY TypeInit, TypeStep, PTL DEF Spec

-----------------------------------------------------------------------------
(* How often an observation counts.                                        *)

\* The averages of metric m, in the stores and in the processes.
Copies(m) == {mu[m], var[m], weight[m], row.mu[m], row.var[m]}
                \cup {myMu[u][m] : u \in Task} \cup {myVar[u][m] : u \in Task}

\* The current attempt of t has not folded its observation into m yet, ...
Pending(t, m) ==
    \E k \in DOMAIN Metrics :
        /\ Metrics[k] = m
        /\ \/ pc[t] \in {"mu", "var"} /\ k >= at[t]
           \/ pc[t] \in {"setmu", "setvar"} /\ k > at[t]

\* ... and then only its earlier attempts count.
Allowed(t, m) == IF Pending(t, m) THEN tries[t] - 1 ELSE tries[t]

Within(t, m) == \A s \in Copies(m) : Occurrences(s, t) <= Allowed(t, m)
Begun(t)     == pc[t] \in Running => tries[t] >= 1

CountInv == \A t \in Task : Begun(t) /\ \A m \in Metric : Within(t, m)

\* How often an observation is in an average: never in an empty one, ...
LEMMA OccursInNothing ==
    ASSUME NEW t
    PROVE  Occurrences(<<>>, t) = 0
<1>1. {k \in DOMAIN <<>> : <<>>[k] = t} = {}
  OBVIOUS
<1> QED
  BY <1>1, FS_EmptySet DEF Occurrences

\* ... once more after its fold.
LEMMA OccursInFold ==
    ASSUME NEW s \in Seq(Task), NEW u \in Task, NEW t \in Task
    PROVE  /\ Occurrences(s, t) \in Nat
           /\ Occurrences(Fold(s, u), t) = Occurrences(s, t) + (IF u = t THEN 1 ELSE 0)
<1> DEFINE before == {k \in DOMAIN s : s[k] = t}
           after  == {k \in DOMAIN Fold(s, u) : Fold(s, u)[k] = t}
<1>1. /\ Fold(s, u) \in Seq(Task) /\ Len(Fold(s, u)) = Len(s) + 1
      /\ \A k \in 1 .. Len(s) : Fold(s, u)[k] = s[k]
      /\ Fold(s, u)[Len(s) + 1] = u
  BY Folded
<1>0. Len(s) \in Nat /\ DOMAIN s = 1 .. Len(s)
  OBVIOUS
<1>2. IsFiniteSet(before)
  <2>1. IsFiniteSet(1 .. Len(s))
    BY FS_Interval, <1>0
  <2>2. before \subseteq 1 .. Len(s)
    BY <1>0
  <2> QED
    BY <2>1, <2>2, FS_Subset
<1>3. Len(s) + 1 \notin before
  BY <1>0
<1>4. after = IF u = t THEN before \cup {Len(s) + 1} ELSE before
  <2>1. DOMAIN Fold(s, u) = 1 .. Len(s) + 1 /\ DOMAIN s = 1 .. Len(s)
    BY <1>1, <1>0
  <2>2. ASSUME NEW k PROVE k \in after <=> k \in before \/ (u = t /\ k = Len(s) + 1)
    BY <1>1, <1>0, <2>1
  <2> QED
    BY <2>2
<1>5. Cardinality(before) \in Nat
  BY <1>2, FS_CardinalityType
<1>6. Cardinality(before \cup {Len(s) + 1}) = Cardinality(before) + 1
  BY <1>2, <1>3, FS_AddElement
<1>7. Occurrences(s, t) = Cardinality(before) /\ Occurrences(Fold(s, u), t) = Cardinality(after)
  BY DEF Occurrences
<1> HIDE DEF before, after
<1> QED
  BY <1>4, <1>5, <1>6, <1>7

\* A step of t leaves the other tasks alone.
Rests(u) ==
    /\ pc'[u] = pc[u] /\ at'[u] = at[u] /\ tries'[u] = tries[u]
    /\ myMu'[u] = myMu[u] /\ myVar'[u] = myVar[u]

\* The metrics are distinct: an index past one says nothing of it.
LEMMA Others ==
    ASSUME TypeOK, NEW t \in Task, NEW u \in Task \ {t},
           Start(t) \/ Step(t) \/ Fail(t) \/ Redeliver(t) \/ Lose(t)
    PROVE  Rests(u)
<1>1. CASE Start(t)
  BY <1>1 DEF Start, TypeOK, Rests
<1>2. CASE Step(t)
  BY <1>2 DEF Step, GetMu, GetVar, SetMu, SetVar, SetWeight, Persist, Ack, Finish,
        locals, history, TypeOK, Rests
<1>3. CASE Fail(t) \/ Redeliver(t) \/ Lose(t)
  BY <1>3 DEF Fail, Redeliver, Lose, Finish, history, TypeOK, Rests
<1> QED
  BY <1>1, <1>2, <1>3

\* All copies are averages.
LEMMA CopiesType ==
    ASSUME TypeOK, NEW m \in Metric
    PROVE  Copies(m) \subseteq Seq(Task)
BY DEF TypeOK, Observed, Copies

\* What is only copied or dropped counts no more often than before.
LEMMA Copied ==
    ASSUME TypeOK, NEW t \in Task, NEW m \in Metric, Within(t, m),
           Copies(m)' \subseteq Copies(m) \cup {<<>>},
           Allowed(t, m) \in Int, Allowed(t, m)' \in Nat, Allowed(t, m) <= Allowed(t, m)'
    PROVE  Within(t, m)'
<1> SUFFICES ASSUME NEW s \in Copies(m)' PROVE Occurrences(s, t) <= Allowed(t, m)'
  BY DEF Within
<1>1. CASE s = <<>>
  BY <1>1, OccursInNothing
<1>2. CASE s \in Copies(m)
  <2>1. Occurrences(s, t) <= Allowed(t, m)
    BY <1>2 DEF Within
  <2>2. Occurrences(s, t) \in Nat
    BY <1>2, CopiesType, OccursInFold
  <2> QED
    BY <2>1, <2>2
<1> QED
  BY <1>1, <1>2

\* A task that leaves nothing more to fold than before allows no fewer counts.
LEMMA Allowance ==
    ASSUME TypeOK, TypeOK', NEW t \in Task, NEW m \in Metric, Begun(t),
           tries'[t] = tries[t], Pending(t, m)' => Pending(t, m)
    PROVE  /\ Allowed(t, m) \in Int /\ Allowed(t, m)' \in Nat
           /\ Allowed(t, m) <= Allowed(t, m)'
<1>1. tries[t] \in Nat /\ tries'[t] \in Nat
  BY DEF TypeOK
<1>2. Pending(t, m) => pc[t] \in Running
  BY DEF Pending, Running
<1> QED
  BY <1>1, <1>2 DEF Allowed, Begun

\* The task and the metrics that a step does not concern.
LEMMA NotConcerned ==
    ASSUME NEW u \in Task, Rests(u)
    PROVE  /\ Begun(u) => Begun(u)'
           /\ \A m \in Metric : Pending(u, m)' <=> Pending(u, m)
BY DEF Rests, Begun, Pending

\* A new attempt may count once more.
LEMMA CountStart ==
    ASSUME TypeOK, TypeOK', CountInv, NEW t \in Task, Start(t)
    PROVE  CountInv'
<1>1. ASSUME NEW m \in Metric PROVE Copies(m)' = Copies(m)
  BY DEF Start, Copies, redis
<1>2. ASSUME NEW u \in Task, u # t PROVE Begun(u)' /\ \A m \in Metric : Within(u, m)'
  <2>1. Rests(u)
    BY <1>2, Others
  <2>2. Begun(u)' /\ tries'[u] = tries[u] /\ \A m \in Metric : Pending(u, m)' => Pending(u, m)
    BY <2>1, NotConcerned DEF CountInv, Rests
  <2>3. ASSUME NEW m \in Metric PROVE Within(u, m)'
    BY <1>1, <2>2, Allowance, Copied DEF CountInv
  <2> QED
    BY <2>2, <2>3
<1>3. tries[t] \in Nat /\ tries'[t] = tries[t] + 1
  BY DEF Start, TypeOK
<1>4. ASSUME NEW m \in Metric PROVE Within(t, m)'
  <2>1. Allowed(t, m) = tries[t]
    BY DEF Start, Allowed, Pending
  <2>2. Allowed(t, m)' \in {tries[t], tries[t] + 1}
    BY <1>3 DEF Allowed
  <2> QED
    BY <1>1, <1>3, <2>1, <2>2, Copied DEF CountInv
<1>5. Begun(t)'
  BY <1>3 DEF Begun
<1> QED
  BY <1>2, <1>4, <1>5 DEF CountInv

\* A step that folds nothing: it copies averages within their metric.
LEMMA CountCopy ==
    ASSUME TypeOK, TypeOK', CountInv, NEW t \in Task,
           \A u \in Task \ {t} : Rests(u), tries' = tries,
           pc'[t] \in Running => pc[t] \in Running,
           \A m \in Metric : Pending(t, m)' => Pending(t, m),
           \A m \in Metric : Copies(m)' \subseteq Copies(m) \cup {<<>>}
    PROVE  CountInv'
<1> SUFFICES ASSUME NEW u \in Task PROVE Begun(u)' /\ \A m \in Metric : Within(u, m)'
  BY DEF CountInv
<1>1. Begun(u)' /\ \A m \in Metric : Pending(u, m)' => Pending(u, m)
  <2>1. CASE u = t
    BY <2>1 DEF CountInv, Begun
  <2>2. CASE u # t
    BY <2>2, NotConcerned DEF CountInv
  <2> QED
    BY <2>1, <2>2
<1>2. ASSUME NEW m \in Metric PROVE Within(u, m)'
  BY <1>1, Allowance, Copied DEF CountInv
<1> QED
  BY <1>1, <1>2

\* A fold uses up what its attempt may count.
LEMMA CountFold ==
    ASSUME TypeOK, TypeOK', CountInv, NEW t \in Task, GetVar(t)
    PROVE  CountInv'
<1>1. PICK h \in Metric : h = Here(t) /\ at[t] \in DOMAIN Metrics /\ h = Metrics[at[t]]
  BY Loop DEF Here, TypeOK
<1>2. /\ pc[t] = "var" /\ pc' = [pc EXCEPT ![t] = "setmu"]
      /\ myMu'  = [myMu  EXCEPT ![t][h] = Fold(@, t)]
      /\ myVar' = [myVar EXCEPT ![t][h] = Fold(var[h], t)]
      /\ UNCHANGED <<mu, var, weight, row, at, tries>>
  BY <1>1 DEF GetVar, redis, history
<1>3. ASSUME NEW m \in Metric, NEW s \in Copies(m)'
      PROVE  s \in Copies(m) \/ (m = h /\ \E x \in Copies(m) : s = Fold(x, t))
  <2>1. CASE s \in {mu[m], var[m], weight[m], row.mu[m], row.var[m]}
    BY <2>1 DEF Copies
  <2>2. ASSUME NEW u \in Task, s = myMu'[u][m] 
             PROVE  s \in Copies(m) \/ (m = h /\ \E x \in Copies(m) : s = Fold(x, t))
    <3>1. myMu'[u][m] = IF u = t /\ m = h THEN Fold(myMu[t][h], t) ELSE myMu[u][m]
      BY <1>1, <1>2 DEF TypeOK, Observed
    <3>2. myMu[t][h] \in Copies(h) /\ myMu[u][m] \in Copies(m)
      BY DEF Copies
    <3> QED
      BY <2>2, <3>1, <3>2
  <2>3. ASSUME NEW u \in Task, s = myVar'[u][m] 
             PROVE  s \in Copies(m) \/ (m = h /\ \E x \in Copies(m) : s = Fold(x, t))
    <3>1. myVar'[u][m] = IF u = t /\ m = h THEN Fold(var[h], t) ELSE myVar[u][m]
      BY <1>1, <1>2 DEF TypeOK, Observed
    <3>2. var[h] \in Copies(h) /\ myVar[u][m] \in Copies(m)
      BY DEF Copies
    <3> QED
      BY <2>3, <3>1, <3>2
  <2> QED
    BY <1>2, <2>1, <2>2, <2>3 DEF Copies
<1>4. ASSUME NEW u \in Task, NEW m \in Metric PROVE Pending(u, m)' => Pending(u, m)
  <2>1. at[u] \in Int /\ \A k \in DOMAIN Metrics : k \in Int
    BY Loop DEF TypeOK
  <2>2. at'[u] = at[u] /\ pc'[u] = IF u = t THEN "setmu" ELSE pc[u]
    BY <1>2 DEF TypeOK
  <2> QED
    BY <1>2, <2>1, <2>2 DEF Pending
<1>5. ~Pending(t, h)' /\ Pending(t, h)
  <2>1. at[t] \in Int
    BY <1>1, Loop
  <2>2. \A k \in DOMAIN Metrics : Metrics[k] = h => k = at[t]
    BY <1>1, MabAssumption
  <2>3. pc'[t] = "setmu" /\ at'[t] = at[t]
    BY <1>2 DEF TypeOK
  <2>4. ~Pending(t, h)'
    BY <2>1, <2>2, <2>3 DEF Pending
  <2>5. Pending(t, h)
    BY <1>1, <1>2, <2>1 DEF Pending
  <2> QED
    BY <2>4, <2>5
<1>6. ASSUME NEW u \in Task PROVE Begun(u)'
  BY <1>2 DEF CountInv, Begun, Running, TypeOK
<1>7. ASSUME NEW u \in Task, NEW m \in Metric PROVE Within(u, m)'
  <2> SUFFICES ASSUME NEW s \in Copies(m)' PROVE Occurrences(s, u) <= Allowed(u, m)'
    BY DEF Within
  <2>1. /\ Allowed(u, m) \in Int /\ Allowed(u, m)' \in Nat
        /\ Allowed(u, m) <= Allowed(u, m)'
    BY <1>2, <1>4, Allowance DEF CountInv
  <2>2. ASSUME NEW x \in Copies(m)
        PROVE  x \in Seq(Task) /\ Occurrences(x, u) \in Nat /\ Occurrences(x, u) <= Allowed(u, m)
    <3>1. x \in Seq(Task)
      BY CopiesType
    <3> QED
      BY <3>1, OccursInFold DEF CountInv, Within
  <2>3. CASE s \in Copies(m)
    BY <2>1, <2>2, <2>3
  <2>4. CASE m = h /\ \E x \in Copies(m) : s = Fold(x, t)
    <3>1. PICK x \in Copies(m) : s = Fold(x, t)
      BY <2>4
    <3>2. x \in Seq(Task) /\ Occurrences(x, u) \in Nat /\ Occurrences(x, u) <= Allowed(u, m)
      BY <2>2
    <3>3. Occurrences(s, u) = Occurrences(x, u) + (IF t = u THEN 1 ELSE 0)
      BY <3>1, <3>2, OccursInFold
    <3>4. u = t => Allowed(u, m)' = Allowed(u, m) + 1
      <4>1. tries[u] \in Nat /\ tries' = tries
        BY <1>2 DEF TypeOK
      <4> QED
        BY <1>5, <2>4, <4>1 DEF Allowed
    <3> QED
      BY <2>1, <3>2, <3>3, <3>4
  <2> QED
    BY <1>3, <2>3, <2>4
<1> QED
  BY <1>6, <1>7 DEF CountInv

\* One step keeps every count.
LEMMA CountStep ==
    ASSUME TypeOK, TypeOK', CountInv, [Next]_vars
    PROVE  CountInv'
<1>1. ASSUME NEW t \in Task, GetMu(t) \/ SetMu(t) \/ SetVar(t) \/ SetWeight(t) \/ Persist(t)
      PROVE  CountInv'
  <2>1. Here(t) \in Metric /\ Metrics[at[t]] = Here(t) /\ at[t] \in DOMAIN Metrics
    BY Loop DEF Here, TypeOK
  <2>2. \A u \in Task \ {t} : Rests(u)
    BY <1>1, Others DEF Step
  <2>3. tries' = tries /\ pc[t] \in Running
    BY <1>1 DEF GetMu, SetMu, SetVar, SetWeight, Persist, Running, history
  <2>4. ASSUME NEW m \in Metric PROVE Pending(t, m)' => Pending(t, m)
    <3>1. CASE SetVar(t)
      <4>1. \A k \in DOMAIN Metrics : k \in Int
        BY Loop
      <4>2. CASE More(t)
        <5>1. pc'[t] = "mu" /\ at'[t] = at[t] + 1 /\ pc[t] = "setvar"
          BY <3>1, <4>2 DEF SetVar, TypeOK
        <5> QED
          BY <2>1, <4>1, <5>1 DEF Pending
      <4>3. CASE ~More(t)
        <5>1. pc'[t] = "weight"
          BY <3>1, <4>3 DEF SetVar, TypeOK
        <5> QED
          BY <5>1 DEF Pending
      <4> QED
        BY <4>2, <4>3
    <3>2. CASE ~SetVar(t)
      <4>1. /\ at'[t] = at[t]
            /\ \/ pc[t] = "mu" /\ pc'[t] = "var"
               \/ pc[t] = "setmu" /\ pc'[t] = "setvar"
               \/ pc'[t] \in {"persist", "ack"}
        BY <1>1, <3>2 DEF GetMu, SetMu, SetWeight, Persist, locals, TypeOK
      <4> QED
        BY <4>1 DEF Pending
    <3> QED
      BY <3>1, <3>2
  <2>5. ASSUME NEW m \in Metric PROVE Copies(m)' \subseteq Copies(m) \cup {<<>>}
    <3>1. CASE GetMu(t)
      BY <2>1, <3>1 DEF GetMu, Copies, TypeOK, Observed, redis
    <3>2. CASE SetMu(t)
      BY <2>1, <3>2 DEF SetMu, Copies, TypeOK, Observed, locals
    <3>3. CASE SetVar(t)
      BY <2>1, <3>3 DEF SetVar, Copies, TypeOK, Observed
    <3>4. CASE SetWeight(t)
      BY <3>4 DEF SetWeight, Copies, locals
    <3>5. CASE Persist(t)
      BY <3>5 DEF Persist, NewRow, Copies, redis, locals
    <3> QED
      BY <1>1, <3>1, <3>2, <3>3, <3>4, <3>5
  <2> QED
    BY <2>2, <2>3, <2>4, <2>5, CountCopy
<1>2. ASSUME NEW t \in Task, NEW state \in {"done", "queued", "gone"}, Finish(t, state),
             UNCHANGED <<redis, row, tries>>,
             Step(t) \/ Fail(t) \/ Redeliver(t) \/ Lose(t)
      PROVE  CountInv'
  <2>1. \A u \in Task \ {t} : Rests(u)
    BY <1>2, Others
  <2>2. pc'[t] = state
    BY <1>2 DEF Finish, TypeOK
  <2>3. pc'[t] \notin Running
    BY <2>2 DEF Running
  <2>4. \A m \in Metric : ~Pending(t, m)'
    BY <2>2 DEF Pending
  <2>5. ASSUME NEW m \in Metric PROVE Copies(m)' \subseteq Copies(m) \cup {<<>>}
    <3>1. \A u \in Task : /\ myMu'[u][m] \in {myMu[u][m], <<>>}
                          /\ myVar'[u][m] \in {myVar[u][m], <<>>}
      BY <1>2 DEF Finish, TypeOK, Empty
    <3> QED
      BY <1>2, <3>1 DEF Copies, redis
  <2> QED
    BY <1>2, <2>1, <2>3, <2>4, <2>5, CountCopy
<1>3. ASSUME NEW t \in Task, Ack(t) \/ Fail(t) \/ Redeliver(t) \/ Lose(t) PROVE CountInv'
  <2>1. /\ \E state \in {"done", "queued", "gone"} : Finish(t, state)
        /\ UNCHANGED <<redis, row, tries>>
    BY <1>3 DEF Ack, Fail, Redeliver, Lose, history
  <2> QED
    BY <1>2, <1>3, <2>1 DEF Step
<1>4. CASE Evict
  <2>1. UNCHANGED <<row, pc, at, myMu, myVar, tries>>
    BY <1>4 DEF Evict, locals
  <2>2. ASSUME NEW m \in Metric PROVE Copies(m)' \subseteq Copies(m) \cup {<<>>}
    <3>1. /\ mu'[m] \in {mu[m], <<>>} /\ var'[m] \in {var[m], <<>>}
          /\ weight'[m] \in {weight[m], <<>>}
      BY <1>4 DEF Evict, TypeOK, Observed, Empty
    <3> QED
      BY <2>1, <3>1 DEF Copies
  <2>3. ASSUME NEW u \in Task PROVE Begun(u)' /\ \A m \in Metric : Within(u, m)'
    <3>1. Begun(u)' /\ \A m \in Metric : Pending(u, m)' <=> Pending(u, m)
      BY <2>1 DEF CountInv, Begun, Pending
    <3> QED
      BY <2>1, <2>2, <3>1, Allowance, Copied DEF CountInv
  <2> QED
    BY <2>3 DEF CountInv
<1>5. CASE UNCHANGED vars
  BY <1>5 DEF CountInv, Begun, Within, Copies, Allowed, Pending, vars, redis, locals, history
<1> QED
  BY <1>1, <1>3, <1>4, <1>5, CountStart, CountFold DEF Next, Step

\* However tasks overlap and fail, in every average, the weight and the backup
\* an observation counts at most once per attempt of its task: for any number
\* of messages, processes and metrics.
THEOREM CountedOncePerAttempt == Spec => []CountedPerAttempt
<1>1. Init => CountInv
  <2> SUFFICES ASSUME Init, NEW t \in Task
               PROVE  Begun(t) /\ \A m \in Metric : Within(t, m)
    BY DEF CountInv
  <2>1. Begun(t)
    BY DEF Init, Begun, Running
  <2>2. ASSUME NEW m \in Metric PROVE Within(t, m)
    <3>1. Copies(m) \subseteq {<<>>}
      BY DEF Init, Copies, Empty
    <3>2. Allowed(t, m) = 0
      BY DEF Init, Allowed, Pending
    <3> QED
      BY <3>1, <3>2, OccursInNothing DEF Within
  <2> QED
    BY <2>1, <2>2
<1>2. TypeOK /\ CountInv => CountedPerAttempt
  <2> SUFFICES ASSUME TypeOK, CountInv, NEW t \in Task, NEW m \in Metric,
                      NEW s \in {mu[m], var[m], weight[m], row.mu[m], row.var[m]}
               PROVE  Occurrences(s, t) <= tries[t]
    BY DEF CountedPerAttempt
  <2>1. s \in Copies(m) /\ s \in Seq(Task)
    BY CopiesType DEF Copies
  <2>2. Occurrences(s, t) \in Nat /\ Occurrences(s, t) <= Allowed(t, m)
    BY <2>1, OccursInFold DEF CountInv, Within
  <2> QED
    BY <2>2 DEF Allowed, TypeOK
<1> QED
  BY <1>1, <1>2, Typing, CountStep, PTL DEF Spec

-----------------------------------------------------------------------------
(* What lasts of an attempt that ran alone.                                *)

\* What an undisturbed attempt of t has done so far.
Lone(t) == pc[t] \in Running /\ t \notin disturbed

Past(t, k) == k < at[t] \/ pc[t] \in {"weight", "persist", "ack"}

Stored(t, m) == /\ mu[m] = myMu[t][m] /\ Occurs(mu[m], t)
                /\ var[m] = myVar[t][m] /\ Occurs(var[m], t)

Follows(t) ==
    /\ \A k \in DOMAIN Metrics : Past(t, k) => Stored(t, Metrics[k])
    /\ pc[t] \in {"setmu", "setvar"} => /\ Occurs(myMu[t][Here(t)], t)
                                       /\ Occurs(myVar[t][Here(t)], t)
    /\ pc[t] = "setvar" => mu[Here(t)] = myMu[t][Here(t)]
    /\ pc[t] \in {"persist", "ack"} => weight = myMu[t]
    /\ pc[t] = "ack" => row = [mu |-> myMu[t], var |-> myVar[t]]

Undisturbed(t) == Lone(t) => Follows(t) /\ \A u \in Task \ {t} : pc[u] \notin Running

\* What t observed stays in the averages, whatever a later task u does.
Carries(u, t) ==
    /\ pc[u] \in {"var", "setmu", "setvar"} => Occurs(myMu[u][Here(u)], t)
    /\ pc[u] \in {"setmu", "setvar"} => Occurs(myVar[u][Here(u)], t)

Lasting(t) ==
    pc[t] = "done" /\ t \notin disturbed =>
        /\ \A m \in Metric : Occurs(mu[m], t) /\ Occurs(var[m], t)
        /\ \A u \in Task : Carries(u, t)

Repaired == latest # None => /\ \A u \in Task : pc[u] \notin Running
                             /\ row = [mu |-> mu, var |-> var]
                             /\ weight = mu

LastInv == Repaired /\ \A t \in Task : Undisturbed(t) /\ Lasting(t)

\* A fold keeps what was in the average, and adds its own.
LEMMA OccursAfterFold ==
    ASSUME NEW s \in Seq(Task), NEW u \in Task
    PROVE  /\ Occurs(Fold(s, u), u)
           /\ \A t : Occurs(s, t) => Occurs(Fold(s, u), t)
<1>1. /\ Fold(s, u) \in Seq(Task) /\ Len(Fold(s, u)) = Len(s) + 1
      /\ \A k \in 1 .. Len(s) : Fold(s, u)[k] = s[k]
      /\ Fold(s, u)[Len(s) + 1] = u
  BY Folded
<1>0. Len(s) \in Nat /\ DOMAIN s = 1 .. Len(s) /\ DOMAIN Fold(s, u) = 1 .. Len(s) + 1
  BY <1>1
<1>2. \A k \in 1 .. Len(s) : k \in 1 .. Len(s) + 1
  BY <1>0
<1>3. Len(s) + 1 \in 1 .. Len(s) + 1
  BY <1>0
<1> QED
  BY <1>0, <1>1, <1>2, <1>3 DEF Occurs

\* While t runs, the others do as the invariant says if t does.
LEMMA LastOf ==
    ASSUME TypeOK, TypeOK', LastInv, NEW t \in Task, Step(t), ~Ack(t),
           Lone(t) => Follows(t)',
           \A v \in Task : pc[v] = "done" /\ v \notin disturbed =>
               /\ \A m \in Metric : Occurs(mu'[m], v) /\ Occurs(var'[m], v)
               /\ Carries(t, v)'
    PROVE  LastInv'
<1>1. pc[t] \in Running /\ pc'[t] \in Running /\ disturbed' = disturbed /\ latest' = latest
  BY DEF Step, GetMu, GetVar, SetMu, SetVar, SetWeight, Persist, Running, history, TypeOK
<1>2. \A u \in Task \ {t} : Rests(u)
  BY Others
<1>3. Repaired'
  BY <1>1 DEF LastInv, Repaired
<1>4. ASSUME NEW u \in Task PROVE Undisturbed(u)'
  BY <1>1, <1>2 DEF LastInv, Undisturbed, Lone, Rests
<1>5. ASSUME NEW v \in Task PROVE Lasting(v)'
  <2> SUFFICES ASSUME pc'[v] = "done", v \notin disturbed
               PROVE  /\ \A m \in Metric : Occurs(mu'[m], v) /\ Occurs(var'[m], v)
                      /\ \A u \in Task : Carries(u, v)'
    BY <1>1 DEF Lasting
  <2>1. pc[v] = "done"
    BY <1>1, <1>2 DEF Rests, Running
  <2>2. ASSUME NEW u \in Task \ {t} PROVE Carries(u, v)'
    BY <1>2, <2>1 DEF LastInv, Lasting, Carries, Rests, Here
  <2> QED
    BY <2>1, <2>2
<1> QED
  BY <1>3, <1>4, <1>5 DEF LastInv

\* An attempt starts: whoever ran is disturbed.
LEMMA LastStart ==
    ASSUME TypeOK, LastInv, NEW t \in Task, Start(t)
    PROVE  LastInv'
<1>1. \A u \in Task \ {t} : Rests(u)
  BY Others
<1>2. /\ pc[t] = "queued" /\ pc'[t] = "mu" /\ at'[t] = 1 /\ latest' = None
      /\ UNCHANGED <<mu, var, weight, row>>
      /\ disturbed' = IF Busy = {} THEN disturbed \ {t} ELSE disturbed \cup Busy \cup {t}
  BY DEF Start, TypeOK, redis
<1>3. Repaired'
  BY <1>2 DEF Repaired
<1>4. ASSUME NEW u \in Task PROVE Undisturbed(u)'
  <2>1. CASE u = t
    <3> SUFFICES ASSUME Lone(t)' PROVE Follows(t)' /\ \A v \in Task \ {t} : pc'[v] \notin Running
      BY <2>1 DEF Undisturbed
    <3>1. Busy = {}
      BY <1>2 DEF Lone
    <3>2. \A v \in Task \ {t} : pc'[v] \notin Running
      BY <1>1, <3>1 DEF Busy, Rests
    <3>3. \A k \in DOMAIN Metrics : ~(k < 1)
      BY Loop
    <3> QED
      BY <1>2, <3>2, <3>3 DEF Follows, Past
  <2>2. CASE u # t
    <3>1. Lone(u)' => u \in Busy
      BY <1>1, <2>2 DEF Lone, Busy, Rests
    <3> QED
      BY <1>2, <3>1 DEF Undisturbed, Lone
  <2> QED
    BY <2>1, <2>2
<1>5. ASSUME NEW v \in Task PROVE Lasting(v)'
  <2> SUFFICES ASSUME pc'[v] = "done", v \notin disturbed'
               PROVE  /\ \A m \in Metric : Occurs(mu'[m], v) /\ Occurs(var'[m], v)
                      /\ \A u \in Task : Carries(u, v)'
    BY DEF Lasting
  <2>1. pc[v] = "done" /\ v \notin disturbed
    BY <1>1, <1>2 DEF Rests
  <2>2. Carries(t, v)'
    BY <1>2 DEF Carries
  <2>3. ASSUME NEW u \in Task \ {t} PROVE Carries(u, v)'
    BY <1>1, <2>1 DEF LastInv, Lasting, Carries, Rests, Here
  <2> QED
    BY <1>2, <2>1, <2>2, <2>3 DEF LastInv, Lasting
<1> QED
  BY <1>3, <1>4, <1>5 DEF LastInv

\* A task ends: what it did last stays.
LEMMA LastFinish ==
    ASSUME TypeOK, LastInv, NEW t \in Task, Fail(t) \/ Redeliver(t) \/ Lose(t)
    PROVE  LastInv'
<1>1. \A u \in Task \ {t} : Rests(u)
  BY Others
<1>2. /\ pc'[t] \in {"queued", "gone"}
      /\ UNCHANGED <<mu, var, weight, row, disturbed, latest>>
  BY DEF Fail, Redeliver, Lose, Finish, TypeOK, redis, history
<1>3. pc'[t] \notin Running /\ pc'[t] # "done"
  BY <1>2 DEF Running
<1>4. Repaired'
  BY <1>1, <1>2, <1>3 DEF LastInv, Repaired, Rests
<1>5. ASSUME NEW u \in Task PROVE Undisturbed(u)'
  <2> SUFFICES ASSUME Lone(u)'
               PROVE  Follows(u)' /\ \A v \in Task \ {u} : pc'[v] \notin Running
    BY DEF Undisturbed
  <2>1. u # t /\ Rests(u) /\ Lone(u)
    BY <1>1, <1>2, <1>3 DEF Lone, Rests
  <2>2. Follows(u) /\ \A v \in Task \ {u} : pc[v] \notin Running
    BY <2>1 DEF LastInv, Undisturbed
  <2>3. \A v \in Task \ {u} : pc'[v] \notin Running
    BY <1>1, <1>3, <2>2 DEF Rests
  <2>4. Follows(u)'
    BY <1>2, <2>1, <2>2 DEF Follows, Past, Stored, Rests, Here
  <2> QED
    BY <2>3, <2>4
<1>6. ASSUME NEW v \in Task PROVE Lasting(v)'
  <2> SUFFICES ASSUME pc'[v] = "done", v \notin disturbed'
               PROVE  /\ \A m \in Metric : Occurs(mu'[m], v) /\ Occurs(var'[m], v)
                      /\ \A u \in Task : Carries(u, v)'
    BY DEF Lasting
  <2>1. pc[v] = "done" /\ v \notin disturbed
    BY <1>1, <1>2, <1>3 DEF Rests
  <2>2. Carries(t, v)'
    BY <1>2 DEF Carries
  <2>3. ASSUME NEW u \in Task \ {t} PROVE Carries(u, v)'
    BY <1>1, <2>1 DEF LastInv, Lasting, Carries, Rests, Here
  <2> QED
    BY <1>2, <2>1, <2>2, <2>3 DEF LastInv, Lasting
<1> QED
  BY <1>4, <1>5, <1>6 DEF LastInv

\* An undisturbed attempt leaves the stores in agreement.
LEMMA LastAck ==
    ASSUME TypeOK, LastInv, NEW t \in Task, Ack(t)
    PROVE  LastInv'
<1>1. \A u \in Task \ {t} : Rests(u)
  BY Others DEF Step
<1>2. /\ pc[t] = "ack" /\ pc'[t] = "done" /\ pc[t] \in Running /\ pc'[t] \notin Running
      /\ UNCHANGED <<mu, var, weight, row, disturbed>>
      /\ latest' = IF t \in disturbed THEN None ELSE t
  BY DEF Ack, Finish, TypeOK, redis, Running
<1>3. ASSUME t \notin disturbed
      PROVE  /\ \A u \in Task : pc'[u] \notin Running
             /\ \A m \in Metric : Stored(t, m)
             /\ row = [mu |-> mu, var |-> var] /\ weight = mu
  <2>1. Follows(t) /\ \A u \in Task \ {t} : pc[u] \notin Running
    BY <1>2, <1>3 DEF LastInv, Undisturbed, Lone
  <2>2. ASSUME NEW m \in Metric PROVE Stored(t, m)
    <3>1. PICK k \in DOMAIN Metrics : m = Metrics[k]
      BY Loop
    <3>2. Past(t, k)
      BY <1>2 DEF Past
    <3> QED
      BY <2>1, <3>1, <3>2 DEF Follows
  <2>3. mu = myMu[t] /\ var = myVar[t]
    BY <2>2 DEF Stored, TypeOK, Observed
  <2>4. row = [mu |-> myMu[t], var |-> myVar[t]] /\ weight = myMu[t]
    BY <1>2, <2>1 DEF Follows
  <2>5. \A u \in Task : pc'[u] \notin Running
    BY <1>1, <1>2, <2>1 DEF Rests
  <2> QED
    BY <2>2, <2>3, <2>4, <2>5
<1>4. Repaired'
  BY <1>2, <1>3 DEF Repaired
<1>5. ASSUME NEW u \in Task PROVE Undisturbed(u)'
  BY <1>1, <1>2 DEF LastInv, Undisturbed, Lone, Rests
<1>6. ASSUME NEW v \in Task PROVE Lasting(v)'
  <2> SUFFICES ASSUME pc'[v] = "done", v \notin disturbed
               PROVE  /\ \A m \in Metric : Occurs(mu'[m], v) /\ Occurs(var'[m], v)
                      /\ \A u \in Task : Carries(u, v)'
    BY <1>2 DEF Lasting
  <2>1. CASE v = t
    <3>1. \A u \in Task : Carries(u, v)'
      BY <1>3, <2>1 DEF Carries, Running
    <3> QED
      BY <1>2, <1>3, <2>1, <3>1 DEF Stored
  <2>2. CASE v # t
    <3>1. pc[v] = "done"
      BY <1>1, <2>2 DEF Rests
    <3>2. Carries(t, v)'
      BY <1>2 DEF Carries
    <3>3. ASSUME NEW u \in Task \ {t} PROVE Carries(u, v)'
      BY <1>1, <3>1 DEF LastInv, Lasting, Carries, Rests, Here
    <3> QED
      BY <1>2, <3>1, <3>2, <3>3 DEF LastInv, Lasting
  <2> QED
    BY <2>1, <2>2
<1> QED
  BY <1>4, <1>5, <1>6 DEF LastInv

\* The steps of the loop over the metrics and the two writes after it.
LEMMA LastStep ==
    ASSUME TypeOK, TypeOK', LastInv, NEW t \in Task, Step(t), ~Ack(t)
    PROVE  LastInv'
<1>1. PICK h \in Metric : h = Here(t) /\ at[t] \in DOMAIN Metrics /\ h = Metrics[at[t]]
  BY Loop DEF Here, TypeOK
<1>2. /\ at[t] \in Int /\ \A k \in DOMAIN Metrics : k \in 1 .. Len(Metrics)
      /\ \A k \in DOMAIN Metrics : k # at[t] => Metrics[k] # h
      /\ \A k \in DOMAIN Metrics : Metrics[k] \in Metric
  BY <1>1, Loop, MabAssumption
<1>3. ASSUME NEW v \in Task, pc[v] = "done", v \notin disturbed
      PROVE  Carries(t, v) /\ \A m \in Metric : Occurs(mu[m], v) /\ Occurs(var[m], v)
  BY <1>3 DEF LastInv, Lasting
<1>4. Lone(t) => Follows(t)
  BY DEF LastInv, Undisturbed
<1>5. /\ mu \in Observed /\ var \in Observed
      /\ myMu[t] \in Observed /\ myVar[t] \in Observed
  BY DEF TypeOK
<1> DEFINE Goal == /\ Lone(t) => Follows(t)'
                   /\ \A v \in Task : pc[v] = "done" /\ v \notin disturbed =>
                         /\ \A m \in Metric : Occurs(mu'[m], v) /\ Occurs(var'[m], v)
                         /\ Carries(t, v)'
<1>6. ASSUME GetMu(t) PROVE Goal
  <2>1. /\ pc[t] = "mu" /\ pc'[t] = "var" /\ at'[t] = at[t]
        /\ UNCHANGED <<mu, var, weight, row>> /\ myVar'[t] = myVar[t]
        /\ myMu'[t] = [myMu[t] EXCEPT ![h] = mu[h]]
    BY <1>1, <1>6 DEF GetMu, TypeOK, redis
  <2>2. \A m \in Metric : m # h => myMu'[t][m] = myMu[t][m]
    BY <1>5, <2>1 DEF Observed
  <2>3. myMu'[t][h] = mu[h] /\ Here(t)' = h
    BY <1>1, <1>5, <2>1 DEF Observed, Here
  <2>4. Lone(t) => Follows(t)'
    <3>1. ASSUME Lone(t), NEW k \in DOMAIN Metrics, k < at[t] PROVE Stored(t, Metrics[k])'
      <4>1. Stored(t, Metrics[k])
        BY <1>4, <3>1 DEF Follows, Past
      <4> QED
        BY <1>2, <2>1, <2>2, <3>1, <4>1 DEF Stored
    <3> QED
      BY <2>1, <3>1 DEF Follows, Past
  <2>5. ASSUME NEW v \in Task, pc[v] = "done", v \notin disturbed PROVE Carries(t, v)'
    BY <1>3, <2>1, <2>3, <2>5 DEF Carries
  <2> QED
    BY <1>3, <2>1, <2>4, <2>5
<1>7. ASSUME GetVar(t) PROVE Goal
  <2>1. /\ pc[t] = "var" /\ pc'[t] = "setmu" /\ at'[t] = at[t]
        /\ UNCHANGED <<mu, var, weight, row>>
        /\ myMu'[t] = [myMu[t] EXCEPT ![h] = Fold(@, t)]
        /\ myVar'[t] = [myVar[t] EXCEPT ![h] = Fold(var[h], t)]
    BY <1>1, <1>7 DEF GetVar, TypeOK, redis
  <2>2. \A m \in Metric : m # h => myMu'[t][m] = myMu[t][m] /\ myVar'[t][m] = myVar[t][m]
    BY <1>5, <2>1 DEF Observed
  <2>3. /\ myMu'[t][h] = Fold(myMu[t][h], t) /\ myVar'[t][h] = Fold(var[h], t)
        /\ Here(t)' = h
    BY <1>1, <1>5, <2>1 DEF Observed, Here
  <2>4. myMu[t][h] \in Seq(Task) /\ var[h] \in Seq(Task)
    BY <1>5 DEF Observed
  <2>5. Occurs(myMu'[t][h], t) /\ Occurs(myVar'[t][h], t)
    BY <2>3, <2>4, OccursAfterFold
  <2>6. Lone(t) => Follows(t)'
    <3>1. ASSUME Lone(t), NEW k \in DOMAIN Metrics, k < at[t] PROVE Stored(t, Metrics[k])'
      <4>1. Stored(t, Metrics[k])
        BY <1>4, <3>1 DEF Follows, Past
      <4> QED
        BY <1>2, <2>1, <2>2, <3>1, <4>1 DEF Stored
    <3> QED
      BY <2>1, <2>3, <2>5, <3>1 DEF Follows, Past
  <2>7. ASSUME NEW v \in Task, pc[v] = "done", v \notin disturbed PROVE Carries(t, v)'
    <3>1. Occurs(myMu[t][h], v) /\ Occurs(var[h], v)
      BY <1>1, <1>3, <2>1, <2>7 DEF Carries
    <3> QED
      BY <2>1, <2>3, <2>4, <3>1, OccursAfterFold DEF Carries
  <2> QED
    BY <1>3, <2>1, <2>6, <2>7
<1>8. ASSUME SetMu(t) PROVE Goal
  <2>1. /\ pc[t] = "setmu" /\ pc'[t] = "setvar" /\ UNCHANGED <<var, weight, row, myMu, myVar, at>>
        /\ mu' = [mu EXCEPT ![h] = myMu[t][h]]
    BY <1>1, <1>8 DEF SetMu, TypeOK, locals
  <2>2. /\ \A m \in Metric : m # h => mu'[m] = mu[m]
        /\ mu'[h] = myMu[t][h] /\ Here(t)' = h
    BY <1>1, <1>5, <2>1 DEF Observed, Here
  <2>3. Lone(t) => Follows(t)'
    <3>1. ASSUME Lone(t), NEW k \in DOMAIN Metrics, k < at[t] PROVE Stored(t, Metrics[k])'
      <4>1. Stored(t, Metrics[k])
        BY <1>4, <3>1 DEF Follows, Past
      <4> QED
        BY <1>2, <2>1, <2>2, <3>1, <4>1 DEF Stored
    <3>2. Lone(t) => Occurs(myMu[t][h], t) /\ Occurs(myVar[t][h], t)
      BY <1>1, <1>4, <2>1 DEF Follows
    <3> QED
      BY <2>1, <2>2, <3>1, <3>2 DEF Follows, Past
  <2>4. ASSUME NEW v \in Task, pc[v] = "done", v \notin disturbed
        PROVE  Carries(t, v)' /\ \A m \in Metric : Occurs(mu'[m], v)
    BY <1>1, <1>3, <2>1, <2>2, <2>4 DEF Carries
  <2> QED
    BY <1>3, <2>1, <2>3, <2>4
<1>9. ASSUME SetVar(t) PROVE Goal
  <2>1. /\ pc[t] = "setvar" /\ UNCHANGED <<mu, weight, row, myMu, myVar>>
        /\ var' = [var EXCEPT ![h] = myVar[t][h]]
        /\ IF More(t) THEN at'[t] = at[t] + 1 /\ pc'[t] = "mu"
                      ELSE at'[t] = at[t] /\ pc'[t] = "weight"
    BY <1>1, <1>9 DEF SetVar, TypeOK
  <2>2. /\ \A m \in Metric : m # h => var'[m] = var[m]
        /\ var'[h] = myVar[t][h]
    BY <1>1, <1>5, <2>1 DEF Observed
  <2>3. Lone(t) => Follows(t)'
    <3>1. ASSUME Lone(t), NEW k \in DOMAIN Metrics, Past(t, k)' PROVE Stored(t, Metrics[k])'
      <4>1. k <= at[t]
        <5>1. CASE More(t)
          BY <1>2, <2>1, <3>1, <5>1 DEF Past
        <5>2. CASE ~More(t)
          BY <1>2, <5>2, Loop DEF More
        <5> QED
          BY <5>1, <5>2
      <4>2. CASE k < at[t]
        <5>1. Stored(t, Metrics[k])
          BY <1>4, <3>1, <4>2 DEF Follows, Past
        <5> QED
          BY <1>2, <2>1, <2>2, <4>2, <5>1 DEF Stored
      <4>3. CASE k = at[t]
        <5>1. Metrics[k] = h /\ Follows(t)
          BY <1>1, <1>4, <3>1, <4>3
        <5>2. mu[h] = myMu[t][h] /\ Occurs(myMu[t][h], t) /\ Occurs(myVar[t][h], t)
          BY <1>1, <2>1, <5>1 DEF Follows
        <5> QED
          BY <2>1, <2>2, <5>1, <5>2 DEF Stored
      <4> QED
        BY <1>2, <4>1, <4>2, <4>3
    <3>2. pc'[t] \in {"mu", "weight"}
      BY <2>1
    <3> QED
      BY <3>1, <3>2 DEF Follows
  <2>4. ASSUME NEW v \in Task, pc[v] = "done", v \notin disturbed
        PROVE  Carries(t, v)' /\ \A m \in Metric : Occurs(var'[m], v)
    <3>1. pc'[t] \in {"mu", "weight"} /\ Occurs(myVar[t][h], v)
      BY <1>1, <1>3, <2>1, <2>4 DEF Carries
    <3> QED
      BY <1>3, <2>2, <2>4, <3>1 DEF Carries
  <2> QED
    BY <1>3, <2>1, <2>3, <2>4
<1>10. ASSUME SetWeight(t) \/ Persist(t) PROVE Goal
  <2>1. /\ pc[t] \in {"weight", "persist"} /\ UNCHANGED <<mu, var, myMu, myVar, at>>
        /\ \/ pc'[t] = "persist" /\ weight' = myMu[t]
           \/ pc'[t] = "ack" /\ weight' = weight /\ pc[t] = "persist"
              /\ row' = [mu |-> myMu[t], var |-> myVar[t]]
    BY <1>10 DEF SetWeight, Persist, NewRow, TypeOK, redis, locals
  <2>2. Lone(t) => Follows(t)'
    <3>1. ASSUME Lone(t), NEW k \in DOMAIN Metrics PROVE Stored(t, Metrics[k])'
      <4>1. Stored(t, Metrics[k])
        BY <1>4, <2>1, <3>1 DEF Follows, Past
      <4> QED
        BY <2>1, <4>1 DEF Stored
    <3>2. Lone(t) => (pc[t] = "persist" => weight = myMu[t])
      BY <1>4 DEF Follows
    <3> QED
      BY <2>1, <3>1, <3>2 DEF Follows
  <2>3. \A v \in Task : Carries(t, v)'
    BY <2>1 DEF Carries
  <2> QED
    BY <1>3, <2>1, <2>2, <2>3
<1>11. Goal
  BY <1>6, <1>7, <1>8, <1>9, <1>10 DEF Step
<1> QED
  BY <1>11, LastOf

\* One step keeps what lasts.
LEMMA LastNext ==
    ASSUME TypeOK, TypeOK', LastInv, [Next]_vars
    PROVE  LastInv'
<1>1. ASSUME Evict PROVE LastInv'
  BY <1>1 DEF Evict, LastInv, Repaired, Undisturbed, Lone, Lasting
<1>2. CASE UNCHANGED vars
  BY <1>2 DEF LastInv, Repaired, Undisturbed, Lone, Follows, Past, Stored, Here, Lasting,
        Carries, vars, redis, locals, history
<1> QED
  BY <1>1, <1>2, LastStart, LastFinish, LastAck, LastStep DEF Next

LEMMA LastAlways == Spec => [](TypeOK /\ LastInv)
<1>1. Init => LastInv
  <2> SUFFICES ASSUME Init PROVE LastInv
    OBVIOUS
  <2>1. Repaired
    BY DEF Init, Repaired
  <2>2. \A t \in Task : Undisturbed(t) /\ Lasting(t)
    BY DEF Init, Undisturbed, Lone, Lasting, Running
  <2> QED
    BY <2>1, <2>2 DEF LastInv
<1> QED
  BY <1>1, Typing, LastNext, PTL DEF Spec

\* A task whose last attempt ran alone and to its end, with no eviction since,
\* counts in every average for good, whatever the tasks after it do.
THEOREM LoneUpdateLasts == Spec => []LostOnlyToOverlap
<1>1. LastInv => LostOnlyToOverlap
  BY DEF LastInv, Lasting, LostOnlyToOverlap
<1> QED
  BY <1>1, LastAlways, PTL

\* After it, and until the next task starts or a key is evicted, the backup and
\* the weight agree with the averages, whatever they were before.
THEOREM LoneUpdateAgrees == Spec => []LoneUpdateRepairs
<1>1. LastInv => LoneUpdateRepairs
  BY DEF LastInv, Repaired, LoneUpdateRepairs
<1> QED
  BY <1>1, LastAlways, PTL
=============================================================================
