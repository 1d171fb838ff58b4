------------------------- MODULE InferenceLogProofs -------------------------
(***************************************************************************)
(* Theorems about InferenceLog, for any requests and ids, any columns of   *)
(* the table, and any number of retries and faults.                        *)
(***************************************************************************)
EXTENDS InferenceLog, SequenceTheorems, TLAPS

-----------------------------------------------------------------------------
(* The invariant.                                                          *)

\* An attempt still to come.
Due(k, r) == IF task[k][r] \in {None, "queued"} THEN 1 ELSE 0

\* A request publishes once, and its tasks begin with that.
Published(r) == ~out[r] => \A k \in Kind : task[k][r] = None

\* Effects are paid for by attempts: each after the first is due to a fault, or
\* to a retry of the statement that names a missing column.
Paid(r) ==
    /\ Len(rows[r]) + Due("log", r) <= 1 + faults
    /\ judged[r] + Due("quality", r) <= 1 + faults
    /\ asked[r] + Due("safety", r) <= 1 + retries["safety"][r] + faults

\* What a task has done by the time it is where it is.
Did(r) ==
    /\ task["log"][r] \in {"ran", "done"} => Len(rows[r]) >= 1
    /\ task["quality"][r] \in {"ran", "done"} => Len(told[r]) >= 1
    /\ task["safety"][r] \in {"asked", "ran", "done"} => asked[r] >= 1

\* A message to the bandit that the judging task is on its way to.
ToTell(r) == IF task["quality"][r] \in {"queued", "judged", "scored"} THEN 1 ELSE 0

\* The bandit hears once, and once more for each fault at most.
ToldOnce(r) == Len(told[r]) + ToTell(r) <= 1 + faults

\* Whose score and verdict a row has.
OwnRow(r) ==
    \A i \in 1 .. Len(rows[r]) :
        /\ rows[r][i].scorer # None => id[rows[r][i].scorer] = id[r]
        /\ rows[r][i].flagger # None => id[rows[r][i].flagger] = id[r]

\* An UPDATE that came in time leaves no row with another score, and none is
\* inserted after it.
Scored(r) ==
    task["quality"][r] \in {"scored", "ran", "done"} /\ ~early["quality"][r] /\ Matches(r) = {r} =>
        /\ out[r] /\ task["log"][r] \in Finished \cup {None}
        /\ \A i \in 1 .. Len(rows[r]) : rows[r][i].scorer = r /\ rows[r][i].score = judged[r]

ToldLast(r) ==
    task["quality"][r] \in {"ran", "done"} =>
        Len(told[r]) >= 1 /\ told[r][Len(told[r])] = judged[r]

Counted(r) == Published(r) /\ Paid(r) /\ Did(r) /\ ToldOnce(r) /\ ToldLast(r)

Inv == /\ TypeOK /\ GivenUpForAReason
       /\ \A r \in Req : Counted(r) /\ OwnRow(r) /\ Scored(r)

-----------------------------------------------------------------------------
(* Rows, and the places of tasks.                                          *)

\* The bounds are numbers.
LEMMA Counts == MaxFaults \in Nat /\ \A k \in Kind : MaxRetries[k] \in Nat
BY InferenceLogAssumption

\* A sequence is a function with a length.
LEMMA IsSequence ==
    ASSUME NEW S, NEW n \in Nat, NEW t \in [1 .. n -> S]
    PROVE  t \in Seq(S) /\ Len(t) = n
OBVIOUS

\* A flag changes no other column.
LEMMA RowFlagged ==
    ASSUME NEW v \in Row, NEW r \in Req, NEW w, w = [v EXCEPT !.flagger = r]
    PROVE  w \in Row /\ w.scorer = v.scorer /\ w.score = v.score /\ w.flagger = r
BY DEF Row

\* The rows after the UPDATE of a score, and of a verdict.
LEMMA RowsScored ==
    ASSUME TypeOK, NEW r \in Req, WriteScore(r), NEW q \in Req
    PROVE  /\ rows'[q] \in Seq(Row) /\ Len(rows'[q]) = Len(rows[q])
           /\ \A i \in 1 .. Len(rows[q]) :
                 /\ rows'[q][i] \in Row
                 /\ rows'[q][i].flagger = rows[q][i].flagger
                 /\ q \in Matches(r) => rows'[q][i].scorer = r /\ rows'[q][i].score = judged[r]
                 /\ q \notin Matches(r) => rows'[q][i] = rows[q][i]
<1>1. rows[q] \in Seq(Row) /\ judged[r] \in Nat
  BY DEF TypeOK
<1>2. PICK n \in Nat : n = Len(rows[q]) /\ DOMAIN rows[q] = 1 .. n /\ rows[q] \in [1 .. n -> Row]
  BY <1>1, LenProperties
<1>3. CASE q \in Matches(r)
  <2>1. rows'[q] = [i \in 1 .. n |-> [rows[q][i] EXCEPT !.scorer = r, !.score = judged[r]]]
    BY <1>2, <1>3 DEF WriteScore, Updated
  <2>2. ASSUME NEW i \in 1 .. n
       PROVE  /\ rows'[q][i] \in Row
              /\ rows'[q][i].flagger = rows[q][i].flagger
              /\ rows'[q][i].scorer = r /\ rows'[q][i].score = judged[r]
    <3>1. rows[q][i] \in Row /\ rows'[q][i] = [rows[q][i] EXCEPT !.scorer = r, !.score = judged[r]]
      BY <1>2, <2>1
    <3>2. PICK m \in Nat : m = judged[r]
      BY <1>1
    <3>3. PICK v \in Row : v = rows[q][i]
      BY <3>1
    <3>4. PICK w : w = rows'[q][i]
      OBVIOUS
    <3>5. w = [v EXCEPT !.scorer = r, !.score = m]
      BY <3>1, <3>2, <3>3, <3>4
    <3>6. w \in Row /\ w.flagger = v.flagger /\ w.scorer = r /\ w.score = m
      BY <3>5 DEF Row
    <3> QED
      BY <3>2, <3>3, <3>4, <3>6
  <2>3. rows'[q] \in [1 .. n -> Row]
    BY <2>1, <2>2
  <2>4. rows'[q] \in Seq(Row) /\ Len(rows'[q]) = n
    BY <2>3, IsSequence
  <2> QED
    BY <1>2, <1>3, <2>2, <2>4
<1>4. CASE q \notin Matches(r)
  <2>1. rows'[q] = rows[q]
    BY <1>4 DEF WriteScore, Updated
  <2> QED
    BY <1>1, <1>2, <1>4, <2>1
<1> QED
  BY <1>3, <1>4

LEMMA RowsFlagged ==
    ASSUME TypeOK, NEW r \in Req, rows' = Updated(r, [row \in Row |-> [row EXCEPT !.flagger = r]]),
           NEW q \in Req
    PROVE  /\ rows'[q] \in Seq(Row) /\ Len(rows'[q]) = Len(rows[q])
           /\ \A i \in 1 .. Len(rows[q]) :
                 /\ rows'[q][i] \in Row
                 /\ rows'[q][i].scorer = rows[q][i].scorer
                 /\ rows'[q][i].score = rows[q][i].score
                 /\ q \in Matches(r) => rows'[q][i].flagger = r
                 /\ q \notin Matches(r) => rows'[q][i] = rows[q][i]
<1>1. rows[q] \in Seq(Row)
  BY DEF TypeOK
<1>2. PICK n \in Nat : n = Len(rows[q]) /\ DOMAIN rows[q] = 1 .. n /\ rows[q] \in [1 .. n -> Row]
  BY <1>1, LenProperties
<1>3. CASE q \in Matches(r)
  <2>1. rows'[q] = [i \in 1 .. n |-> [rows[q][i] EXCEPT !.flagger = r]]
    BY <1>2, <1>3 DEF Updated
  <2>2. ASSUME NEW i \in 1 .. n
       PROVE  /\ rows'[q][i] \in Row
              /\ rows'[q][i].scorer = rows[q][i].scorer
              /\ rows'[q][i].score = rows[q][i].score
              /\ rows'[q][i].flagger = r
    <3>1. rows[q][i] \in Row /\ rows'[q][i] = [rows[q][i] EXCEPT !.flagger = r]
      BY <1>2, <2>1
    <3> QED
      BY <1>1, <3>1, RowFlagged
  <2>3. rows'[q] \in [1 .. n -> Row]
    BY <2>1, <2>2
  <2>4. rows'[q] \in Seq(Row) /\ Len(rows'[q]) = n
    BY <2>3, IsSequence
  <2> QED
    BY <1>2, <1>3, <2>2, <2>4
<1>4. CASE q \notin Matches(r)
  <2>1. rows'[q] = rows[q]
    BY <1>4 DEF Updated
  <2> QED
    BY <1>1, <1>2, <1>4, <2>1
<1> QED
  BY <1>3, <1>4

\* A task goes elsewhere, the others stay.
LEMMA Placed ==
    ASSUME TypeOK, NEW k \in Kind, NEW r \in Req, NEW s \in Busy \cup Finished, Set(k, r, s)
    PROVE  /\ task' \in [Kind -> [Req -> Busy \cup Finished \cup {None}]]
           /\ task'[k][r] = s
           /\ \A l \in Kind, q \in Req : l # k \/ q # r => task'[l][q] = task[l][q]
BY DEF TypeOK, Set

\* A retry queues the task again or gives it up, within its max_retries.
LEMMA Retried ==
    ASSUME TypeOK, NEW k \in Kind, NEW r \in Req, Retry(k, r)
    PROVE  /\ \E s \in {"queued", "gone"} : Set(k, r, s)
           /\ retries' \in [Kind -> [Req -> Nat]]
           /\ \A l \in Kind, q \in Req : /\ retries[l][q] <= retries'[l][q]
                                         /\ retries'[l][q] <= MaxRetries[l]
           /\ Set(k, r, "queued") => retries'[k][r] = retries[k][r] + 1
<1>1. retries \in [Kind -> [Req -> Nat]] /\ \A l \in Kind, q \in Req : retries[l][q] <= MaxRetries[l]
  BY DEF TypeOK
<1>2. CASE /\ retries[k][r] < MaxRetries[k] /\ Set(k, r, "queued")
           /\ retries' = [retries EXCEPT ![k][r] = retries[k][r] + 1]
  <2>1. retries' \in [Kind -> [Req -> Nat]] /\ retries'[k][r] = retries[k][r] + 1
    BY <1>1, <1>2
  <2>2. \A l \in Kind, q \in Req : l # k \/ q # r => retries'[l][q] = retries[l][q]
    BY <1>1, <1>2
  <2>3. \A l \in Kind, q \in Req : retries[l][q] <= retries'[l][q] /\ retries'[l][q] <= MaxRetries[l]
    BY <1>1, <1>2, <2>1, <2>2, Counts
  <2> QED
    BY <1>2, <2>1, <2>3
<1>3. CASE /\ retries[k][r] = MaxRetries[k] /\ Set(k, r, "gone") /\ UNCHANGED retries
  <2>1. ~Set(k, r, "queued")
    <3>1. task' = [task EXCEPT ![k][r] = "gone"] /\ task \in [Kind -> [Req -> Busy \cup Finished \cup {None}]]
      BY <1>3 DEF Set, TypeOK
    <3>2. task'[k][r] = "gone"
      BY <3>1
    <3>3. [task EXCEPT ![k][r] = "queued"][k][r] = "queued"
      BY <3>1
    <3> QED
      BY <3>2, <3>3 DEF Set
  <2> QED
    BY <1>1, <1>3, <2>1
<1> QED
  BY <1>2, <1>3 DEF Retry, CountedRetry

-----------------------------------------------------------------------------
(* What the workers can get of the messages of an answer.                  *)

Label == {"log", "quality", "mab", "cache", "budget", "safety", "trace"}

\* A message.
LEMMA One ==
    ASSUME NEW m \in Label
    PROVE  <<m>> \in Seq(Label) /\ Len(<<m>>) = 1 /\ <<m>>[1] = m
OBVIOUS

\* A message that is only sent under a condition.
LEMMA OnlyOne ==
    ASSUME NEW c \in BOOLEAN, NEW m \in Label
    PROVE  /\ Only(c, m) \in Seq(Label)
           /\ Len(Only(c, m)) = IF c THEN 1 ELSE 0
           /\ \A i \in 1 .. Len(Only(c, m)) : Only(c, m)[i] = m
BY DEF Only

\* One sequence after another.
LEMMA Joined ==
    ASSUME NEW s \in Seq(Label), NEW t \in Seq(Label)
    PROVE  /\ s \o t \in Seq(Label)
           /\ Len(s \o t) = Len(s) + Len(t)
           /\ \A i \in 1 .. Len(s) : (s \o t)[i] = s[i]
           /\ \A i \in Len(s) + 1 .. Len(s \o t) : /\ i - Len(s) \in 1 .. Len(t)
                                                   /\ (s \o t)[i] = t[i - Len(s)]
OBVIOUS

\* Messages for others are added to those of the log and the bandit.
Others == {"cache", "budget", "safety", "trace"}
Learns(s) == /\ s \in Seq(Label) /\ Len(s) >= 2 /\ s[1] = "log"
             /\ s[2] \in {"quality", "mab"}
             /\ \A i \in 1 .. Len(s) : i > 2 => s[i] \in Others

\* It stays one for the log and one for the bandit or the judge.
LEMMA Added ==
    ASSUME NEW s, Learns(s), NEW c \in BOOLEAN, NEW m \in Others
    PROVE  Learns(s \o Only(c, m))
<1>1. PICK t \in Seq(Label) : t = Only(c, m) /\ \A i \in 1 .. Len(t) : t[i] = m
  BY OnlyOne DEF Label, Others
<1>2. s \in Seq(Label)
  BY DEF Learns
<1>3. PICK x \in Seq(Label) :
         /\ x = s \o t
         /\ Len(x) = Len(s) + Len(t)
         /\ \A i \in 1 .. Len(s) : x[i] = s[i]
         /\ \A i \in Len(s) + 1 .. Len(x) : i - Len(s) \in 1 .. Len(t) /\ x[i] = t[i - Len(s)]
  BY <1>2, Joined
<1>4. Len(s) \in Nat /\ Len(x) \in Nat /\ Len(t) \in Nat /\ Len(s) >= 2
  BY <1>2 DEF Learns
<1>5. x[1] = "log" /\ x[2] \in {"quality", "mab"}
  BY <1>3, <1>4 DEF Learns
<1>6. ASSUME NEW i \in 1 .. Len(x), i > 2 PROVE x[i] \in Others
  <2>1. CASE i \in 1 .. Len(s)
    BY <1>3, <1>6, <2>1 DEF Learns
  <2>2. CASE i \notin 1 .. Len(s)
    <3>1. i \in Len(s) + 1 .. Len(x)
      BY <1>4, <2>2
    <3> QED
      BY <1>1, <1>3, <3>1
  <2> QED
    BY <2>1, <2>2
<1>7. Learns(x)
  BY <1>3, <1>4, <1>5, <1>6 DEF Learns
<1> QED
  BY <1>1, <1>3, <1>7

\* Whatever the answer, the first two messages are these if no reply is lost.
LEMMA Order ==
    ASSUME NEW a \in Answer, NEW sampled \in BOOLEAN, NEW checked \in BOOLEAN
    PROVE  Learns(Messages(a, sampled, FALSE, FALSE, checked))
<1>1. HasText(a) \in BOOLEAN
  BY DEF HasText
<1>2. PICK s : s = <<"log">> \o Feedback(sampled, FALSE)
  OBVIOUS
<1>3. Learns(s)
  <2>1. PICK l \in Seq(Label) : l = <<"log">> /\ Len(l) = 1 /\ l[1] = "log"
    BY One DEF Label
  <2>2. PICK u \in Seq(Label) : u = Feedback(sampled, FALSE) /\ Len(u) = 1 /\ u[1] \in {"quality", "mab"}
    <3>1. CASE sampled
      BY <3>1, One DEF Feedback, Label
    <3>2. CASE ~sampled
      BY <3>2, One DEF Feedback, Label
    <3> QED
      BY <3>1, <3>2
  <2>3. /\ s \in Seq(Label) /\ Len(s) = 2 /\ s[1] = l[1]
        /\ \A i \in 2 .. Len(s) : s[i] = u[i - 1]
    <3>1. s = l \o u /\ Len(l) = 1 /\ Len(u) = 1
      BY <1>2, <2>1, <2>2, Zenon
    <3>2. /\ l \o u \in Seq(Label) /\ Len(l \o u) = Len(l) + Len(u)
          /\ \A i \in 1 .. Len(l) : (l \o u)[i] = l[i]
          /\ \A i \in Len(l) + 1 .. Len(l \o u) : (l \o u)[i] = u[i - Len(l)]
      BY Joined
    <3> QED
      BY <3>1, <3>2
  <2>4. s[2] = u[1]
    BY <2>3
  <2>5. \A i \in 1 .. Len(s) : ~(i > 2)
    BY <2>3
  <2>6. s[1] = "log" /\ s[2] \in {"quality", "mab"}
    BY <2>1, <2>2, <2>3, <2>4, Zenon
  <2> QED
    BY <2>3, <2>5, <2>6 DEF Learns
<1>4. PICK t : t = s \o Only(HasText(a), "cache")
  OBVIOUS
<1>5. Learns(t)
  BY <1>1, <1>3, <1>4, Added DEF Others
<1>6. PICK u : u = t \o Only(FALSE, "budget")
  OBVIOUS
<1>7. Learns(u)
  BY <1>5, <1>6, Added DEF Others
<1>8. PICK v : v = u \o Only(checked, "safety")
  OBVIOUS
<1>9. Learns(v)
  BY <1>7, <1>8, Added DEF Others
<1>10. Learns(v \o Only(HasText(a), "trace"))
  BY <1>1, <1>9, Added DEF Others
<1>11. Messages(a, sampled, FALSE, FALSE, checked) = v \o Only(HasText(a), "trace")
  BY <1>2, <1>4, <1>6, <1>8 DEF Messages
<1> QED
  BY <1>10, <1>11

\* Either the bandit is told at once or the answer is judged first.
LEMMA LearnsOnce ==
    ASSUME NEW a \in Answer, NEW sampled \in BOOLEAN, NEW checked \in BOOLEAN,
           NEW ms \in Prefixes(Messages(a, sampled, FALSE, FALSE, checked))
    PROVE  Contains(ms, "quality") => ~Contains(ms, "mab")
<1>1. PICK s : s = Messages(a, sampled, FALSE, FALSE, checked) /\ Learns(s)
  BY Order
<1>2. PICK n \in 0 .. Len(s) : ms = SubSeq(s, 1, n)
  BY <1>1 DEF Prefixes
<1>3. s \in Seq(Label) /\ n \in Nat /\ Len(s) \in Nat /\ n <= Len(s)
  <2>1. s \in Seq(Label)
    BY <1>1 DEF Learns
  <2> QED
    BY <1>2, <2>1
<1>4. ms \in Seq(Label) /\ Len(ms) = n /\ \A i \in 1 .. n : ms[i] = s[i]
  BY <1>2, <1>3
<1>5. ASSUME NEW m \in {"quality", "mab"}, Contains(ms, m) PROVE s[2] = m
  <2>1. PICK i \in 1 .. n : s[i] = m
    BY <1>4, <1>5 DEF Contains
  <2>2. i \in 1 .. Len(s) /\ (i = 1 \/ i = 2 \/ i > 2)
    BY <1>3
  <2>3. i # 1
    BY <1>1, <2>1 DEF Learns
  <2>4. ~(i > 2)
    BY <1>1, <2>1, <2>2 DEF Learns, Others
  <2> QED
    BY <2>1, <2>2, <2>3, <2>4
<1> QED
  BY <1>5

\* What publishing does to the tasks of a request and to the bandit.
LEMMA Publishes ==
    ASSUME TypeOK, NEW r \in Req, Publish(r)
    PROVE  /\ task' \in [Kind -> [Req -> Busy \cup Finished \cup {None}]]
           /\ told' \in [Req -> Seq(Nat)]
           /\ \A k \in Kind : /\ task'[k][r] \in {"queued", task[k][r]}
                              /\ \A q \in Req \ {r} : task'[k][q] = task[k][q]
           /\ \A q \in Req \ {r} : told'[q] = told[q]
           /\ Len(told'[r]) <= 1
           /\ faults' \in 0 .. MaxFaults /\ faults <= faults'
           /\ Len(told'[r]) = 1 => \/ task'["quality"][r] = task["quality"][r]
                                  \/ faults + 1 <= faults'
<1> DEFINE Out(ms) ==
             /\ task' = [k \in Kind |->
                  [task[k] EXCEPT ![r] = IF Contains(ms, k) THEN "queued" ELSE task[k][r]]]
             /\ told' = [told EXCEPT ![r] = Only(Contains(ms, "mab"), 0)]
           Known(unsure) == faults' = IF unsure THEN faults + 1 ELSE faults
           Lost == faults' \in 0 .. MaxFaults /\ faults + 1 <= faults'
<1>2. faults \in 0 .. MaxFaults /\ MaxFaults \in Nat
  BY Counts DEF TypeOK
<1>1. PICK ms : /\ Out(ms)
                /\ \/ (Contains(ms, "quality") => ~Contains(ms, "mab")) /\ faults' = faults
                   \/ Lost
  <2>1. PICK a \in Answer :
          \E sampled, checked \in {FALSE, HasText(a)} :
          \E unsure \in {FALSE, sampled /\ faults < MaxFaults} :
          \E ms \in Prefixes(Messages(a, sampled, unsure, FALSE, checked)) :
             Out(ms) /\ Known(unsure)
    BY DEF Publish
  <2>2. PICK sampled \in {FALSE, HasText(a)}, checked \in {FALSE, HasText(a)} :
          \E unsure \in {FALSE, sampled /\ faults < MaxFaults} :
          \E ms \in Prefixes(Messages(a, sampled, unsure, FALSE, checked)) :
             Out(ms) /\ Known(unsure)
    BY <2>1
  <2>3. PICK unsure \in {FALSE, sampled /\ faults < MaxFaults} :
          \E ms \in Prefixes(Messages(a, sampled, unsure, FALSE, checked)) :
             Out(ms) /\ Known(unsure)
    BY <2>2
  <2>4. PICK ms \in Prefixes(Messages(a, sampled, unsure, FALSE, checked)) :
             Out(ms) /\ Known(unsure)
    BY <2>3
  <2>5. sampled \in BOOLEAN /\ checked \in BOOLEAN /\ unsure \in BOOLEAN
    BY DEF HasText
  <2>6. CASE unsure
    <3>1. faults < MaxFaults /\ faults' = faults + 1
      BY <2>4, <2>6
    <3>2. Lost
      BY <1>2, <3>1
    <3> QED
      BY <2>4, <3>2
  <2>7. CASE ~unsure
    <3>1. ms \in Prefixes(Messages(a, sampled, FALSE, FALSE, checked)) /\ faults' = faults
      BY <2>4, <2>5, <2>7
    <3> HIDE DEF Out
    <3> QED
      BY <2>4, <2>5, <3>1, LearnsOnce
  <2> QED
    BY <2>5, <2>6, <2>7
<1>3. /\ faults' \in 0 .. MaxFaults /\ faults <= faults'
      /\ Contains(ms, "quality") /\ Contains(ms, "mab") => faults + 1 <= faults'
  <2>1. CASE Lost
    BY <1>2, <2>1
  <2>2. CASE ~Lost
    BY <1>2, <1>1, <2>2
  <2> QED
    BY <2>1, <2>2
<1>4. task \in [Kind -> [Req -> Busy \cup Finished \cup {None}]] /\ told \in [Req -> Seq(Nat)]
  BY DEF TypeOK
<1>5. ASSUME NEW k \in Kind
      PROVE  /\ task'[k] \in [Req -> Busy \cup Finished \cup {None}]
             /\ task'[k][r] = IF Contains(ms, k) THEN "queued" ELSE task[k][r]
             /\ \A q \in Req \ {r} : task'[k][q] = task[k][q]
  <2>1. task'[k] = [task[k] EXCEPT ![r] = IF Contains(ms, k) THEN "queued" ELSE task[k][r]]
    BY <1>1
  <2>2. task[k] \in [Req -> Busy \cup Finished \cup {None}]
    BY <1>4
  <2> QED
    BY <2>1, <2>2 DEF Busy
<1>6. task' \in [Kind -> [Req -> Busy \cup Finished \cup {None}]]
  BY <1>1, <1>5
<1>0. PICK t : t = Only(Contains(ms, "mab"), 0)
  OBVIOUS
<1>7. t \in Seq(Nat) /\ Len(t) <= 1 /\ (Len(t) = 1 => Contains(ms, "mab"))
  <2>1. CASE Contains(ms, "mab")
    <3>1. t = <<0>>
      BY <1>0, <2>1 DEF Only
    <3>2. t \in Seq(Nat) /\ Len(t) = 1
      BY <3>1
    <3> QED
      BY <2>1, <3>2
  <2>2. CASE ~Contains(ms, "mab")
    <3>1. t = <<>>
      BY <1>0, <2>2 DEF Only
    <3>2. t \in Seq(Nat) /\ Len(t) = 0
      BY <3>1
    <3> QED
      BY <3>2
  <2> QED
    BY <2>1, <2>2
<1>8. told' \in [Req -> Seq(Nat)] /\ told'[r] = t /\ \A q \in Req \ {r} : told'[q] = told[q]
  BY <1>0, <1>1, <1>4, <1>7
<1>9. Len(told'[r]) = 1 => \/ task'["quality"][r] = task["quality"][r]
                           \/ faults + 1 <= faults'
  BY <1>3, <1>5, <1>7, <1>8 DEF Kind
<1> QED
  BY <1>3, <1>5, <1>6, <1>7, <1>8, <1>9

-----------------------------------------------------------------------------
(* Types.                                                                  *)

LEMMA TypeInit == Init => TypeOK
<1> SUFFICES ASSUME Init PROVE TypeOK
  OBVIOUS
<1>1. retries \in [Kind -> [Req -> Nat]] /\ \A k \in Kind, r \in Req : retries[k][r] <= MaxRetries[k]
  BY Counts DEF Init
<1>2. rows \in [Req -> Seq(Row)] /\ told \in [Req -> Seq(Nat)]
  BY DEF Init
<1>3. task \in [Kind -> [Req -> Busy \cup Finished \cup {None}]] /\ early \in [Kind -> [Req -> BOOLEAN]]
  BY DEF Init
<1> QED
  BY <1>1, <1>2, <1>3, Counts DEF Init, TypeOK

\* The history of one task changes.
LEMMA EarlyType ==
    ASSUME TypeOK, NEW k \in Kind, NEW r \in Req, NEW b \in BOOLEAN,
           early' = [early EXCEPT ![k][r] = b]
    PROVE  /\ early' \in [Kind -> [Req -> BOOLEAN]]
           /\ early'[k][r] = b
           /\ \A l \in Kind, q \in Req : l # k \/ q # r => early'[l][q] = early[l][q]
BY DEF TypeOK

\* The UPDATE of a score, whether it succeeds or fails.
LEMMA Scores ==
    ASSUME TypeOK, NEW r \in Req, Score(r)
    PROVE  /\ task["quality"][r] = "judged" /\ Set("quality", r, "scored")
           /\ UNCHANGED <<id, columns, out, retries, judged, told, asked>>
           /\ early' \in [Kind -> [Req -> BOOLEAN]]
           /\ faults' \in 0 .. MaxFaults /\ faults <= faults'
           /\ \A q \in Req : q # r => early'["quality"][q] = early["quality"][q]
           /\ \/ WriteScore(r)
              \/ UNCHANGED rows /\ early'["quality"][r] = TRUE
<1>1. faults \in 0 .. MaxFaults /\ "quality" \in Kind
  BY DEF TypeOK, Kind
<1>2. CASE WriteScore(r) /\ Moves("quality", r, "judged", "scored") /\ UNCHANGED retries
  <2>1. PICK b \in BOOLEAN : b = ~Settled(r)
    BY DEF Settled
  <2>2. early' = [early EXCEPT !["quality"][r] = b] /\ faults' = faults
    BY <1>2, <2>1 DEF WriteScore
  <2>3. /\ early' \in [Kind -> [Req -> BOOLEAN]]
        /\ \A q \in Req : q # r => early'["quality"][q] = early["quality"][q]
    BY <1>1, <2>2, EarlyType
  <2> QED
    BY <1>1, <1>2, <2>2, <2>3 DEF Score, Moves, request
<1>3. CASE LoseScore(r)
  <2>1. early' = [early EXCEPT !["quality"][r] = TRUE] /\ UNCHANGED rows
        /\ Moves("quality", r, "judged", "scored") /\ UNCHANGED retries
    BY <1>3 DEF LoseScore, FailedScore
  <2>2. /\ early' \in [Kind -> [Req -> BOOLEAN]] /\ early'["quality"][r] = TRUE
        /\ \A q \in Req : q # r => early'["quality"][q] = early["quality"][q]
    BY <1>1, <2>1, EarlyType
  <2>3. faults' \in 0 .. MaxFaults /\ faults <= faults'
    BY <1>1, <1>3, Counts DEF LoseScore, FailedScore
  <2> QED
    BY <2>1, <2>2, <2>3 DEF Score, Moves, request
<1> QED
  BY <1>2, <1>3 DEF Score

LEMMA TypeStep == TypeOK /\ [Next]_vars => TypeOK'
<1> SUFFICES ASSUME TypeOK, [Next]_vars PROVE TypeOK'
  OBVIOUS
<1>0. /\ rows \in [Req -> Seq(Row)] /\ told \in [Req -> Seq(Nat)] /\ faults \in 0 .. MaxFaults
      /\ judged \in [Req -> Nat] /\ asked \in [Req -> Nat] /\ out \in [Req -> BOOLEAN]
      /\ "log" \in Kind /\ "quality" \in Kind /\ "safety" \in Kind
  BY DEF TypeOK, Kind
<1> DEFINE Busily(k, r) == \E s \in Busy \cup Finished : Set(k, r, s)
<1>1. ASSUME NEW k \in Kind, NEW r \in Req, Busily(k, r)
      PROVE  task' \in [Kind -> [Req -> Busy \cup Finished \cup {None}]]
  BY <1>1, Placed
<1> HIDE DEF Busily
<1>2. ASSUME NEW r \in Req, Publish(r) PROVE TypeOK'
  <2>1. /\ task' \in [Kind -> [Req -> Busy \cup Finished \cup {None}]]
        /\ told' \in [Req -> Seq(Nat)] /\ faults' \in 0 .. MaxFaults
    BY <1>2, Publishes
  <2>2. /\ out' \in [Req -> BOOLEAN]
        /\ UNCHANGED <<id, columns, retries, rows, judged, asked, early>>
    BY <1>0, <1>2 DEF Publish
  <2> QED
    BY <2>1, <2>2 DEF TypeOK
<1>3. ASSUME NEW r \in Req, Insert(r) PROVE TypeOK'
  <2>1. rows' = [rows EXCEPT ![r] = Append(rows[r], FreshRow)] /\ FreshRow \in Row
    BY <1>3 DEF Insert, Inserted, FreshRow, Row
  <2>2. rows' \in [Req -> Seq(Row)]
    BY <1>0, <2>1
  <2>3. Busily("log", r)
    BY <1>3 DEF Insert, Moves, Busily, Busy
  <2> QED
    BY <1>0, <1>1, <1>3, <2>2, <2>3 DEF Insert, request, TypeOK
<1>4. ASSUME NEW k \in Kind, NEW r \in Req, Retry(k, r),
             UNCHANGED <<request, effects, early>>, faults' \in 0 .. MaxFaults
      PROVE  TypeOK'
  <2>1. /\ retries' \in [Kind -> [Req -> Nat]]
        /\ \A l \in Kind, q \in Req : retries'[l][q] <= MaxRetries[l]
        /\ Busily(k, r)
    BY <1>4, Retried DEF Busily, Busy, Finished
  <2>2. task' \in [Kind -> [Req -> Busy \cup Finished \cup {None}]]
    BY <1>1, <2>1
  <2>3. UNCHANGED <<id, columns, out, rows, judged, told, asked, early>>
    BY <1>4 DEF request, effects
  <2> QED
    BY <1>4, <2>1, <2>2, <2>3 DEF TypeOK
<1>5. ASSUME NEW r \in Req, RefuseInsert(r) PROVE TypeOK'
  BY <1>0, <1>4, <1>5 DEF RefuseInsert
<1>6. ASSUME NEW r \in Req, RefuseFlag(r) PROVE TypeOK'
  BY <1>0, <1>4, <1>6 DEF RefuseFlag
<1>7. ASSUME NEW k \in Kind, NEW r \in Req, Fail(k, r) PROVE TypeOK'
  <2>1. faults' \in 0 .. MaxFaults
    BY <1>0, <1>7, Counts DEF Fail
  <2> QED
    BY <1>4, <1>7, <2>1 DEF Fail
<1>8. ASSUME NEW r \in Req, Judge(r) PROVE TypeOK'
  <2>1. judged' \in [Req -> Nat] /\ Busily("quality", r)
    BY <1>0, <1>8 DEF Judge, Moves, Busily, Busy
  <2> QED
    BY <1>0, <1>1, <1>8, <2>1 DEF Judge, request, TypeOK
<1>9. ASSUME NEW r \in Req, Ask(r) PROVE TypeOK'
  <2>1. asked' \in [Req -> Nat] /\ Busily("safety", r)
    BY <1>0, <1>9 DEF Ask, Moves, Busily, Busy
  <2> QED
    BY <1>0, <1>1, <1>9, <2>1 DEF Ask, request, TypeOK
<1>10. ASSUME NEW r \in Req, Chain(r) PROVE TypeOK'
  <2>1. told' \in [Req -> Seq(Nat)] /\ Busily("quality", r)
    BY <1>0, <1>10 DEF Chain, Moves, Busily, Busy
  <2> QED
    BY <1>0, <1>1, <1>10, <2>1 DEF Chain, request, TypeOK
<1>11. ASSUME NEW r \in Req, Score(r) PROVE TypeOK'
  <2>1. /\ UNCHANGED <<id, columns, out, retries, judged, told, asked>> /\ faults' \in 0 .. MaxFaults
        /\ early' \in [Kind -> [Req -> BOOLEAN]] /\ Set("quality", r, "scored")
        /\ (WriteScore(r) \/ UNCHANGED rows)
    BY <1>11, Scores
  <2>2. rows' \in [Req -> Seq(Row)]
    <3>1. CASE UNCHANGED rows
      BY <1>0, <3>1
    <3>2. CASE WriteScore(r)
      <4>1. \A q \in Req : rows'[q] \in Seq(Row)
        BY <3>2, RowsScored
      <4>2. rows' = [q \in Req |-> rows'[q]]
        BY <3>2 DEF WriteScore, Updated
      <4> QED
        BY <4>1, <4>2
    <3> QED
      BY <2>1, <3>1, <3>2
  <2>3. Busily("quality", r)
    BY <2>1 DEF Busily, Busy
  <2>4. task' \in [Kind -> [Req -> Busy \cup Finished \cup {None}]]
    BY <1>0, <1>1, <2>3
  <2> QED
    BY <2>1, <2>2, <2>4 DEF TypeOK
<1>12. ASSUME NEW r \in Req, Flag(r) PROVE TypeOK'
  <2>1. /\ rows' = Updated(r, [row \in Row |-> [row EXCEPT !.flagger = r]])
        /\ UNCHANGED <<id, columns, out, retries, judged, told, asked, faults>>
        /\ early' = [early EXCEPT !["safety"][r] = ~Settled(r)]
    BY <1>12 DEF Flag, request
  <2>2. rows' \in [Req -> Seq(Row)]
    <3>1. \A q \in Req : rows'[q] \in Seq(Row)
      BY <2>1, RowsFlagged
    <3>2. rows' = [q \in Req |-> rows'[q]]
      BY <2>1 DEF Updated
    <3> QED
      BY <3>1, <3>2
  <2>3. PICK b \in BOOLEAN : b = ~Settled(r)
    BY DEF Settled
  <2>4. early' \in [Kind -> [Req -> BOOLEAN]]
    BY <1>0, <2>1, <2>3, EarlyType
  <2>5. Busily("safety", r)
    BY <1>12 DEF Flag, Moves, Busily, Busy
  <2>6. task' \in [Kind -> [Req -> Busy \cup Finished \cup {None}]]
    BY <1>0, <1>1, <2>5
  <2> QED
    BY <2>1, <2>2, <2>4, <2>6 DEF TypeOK
<1>13. ASSUME NEW k \in Kind, NEW r \in Req, Ack(k, r) PROVE TypeOK'
  <2>1. Busily(k, r)
    BY <1>13 DEF Ack, Moves, Busily, Finished
  <2> QED
    BY <1>1, <1>13, <2>1 DEF Ack, request, effects, TypeOK
<1>14. ASSUME NEW k \in Kind, NEW r \in Req, Crash(k, r) PROVE TypeOK'
  <2>1. Busily(k, r) /\ faults' \in 0 .. MaxFaults
    BY <1>0, <1>14, Counts DEF Crash, Busily, Busy, Finished
  <2>2. task' \in [Kind -> [Req -> Busy \cup Finished \cup {None}]]
    BY <1>1, <2>1
  <2> QED
    BY <1>14, <2>1, <2>2 DEF Crash, request, effects, TypeOK
<1>15. UNCHANGED vars => TypeOK'
  BY DEF vars, request, queue, effects, TypeOK
<1> QED
  BY <1>0, <1>2, <1>3, <1>5, <1>6, <1>7, <1>8, <1>9, <1>10, <1>11, <1>12, <1>13, <1>14, <1>15
     DEF Next, LogStep, QualityStep, SafetyStep

-----------------------------------------------------------------------------
(* Effects are counted by attempts.                                        *)

\* What a step for another request leaves of q.
Untouched(q) ==
    /\ \A k \in Kind : task'[k][q] = task[k][q] /\ retries[k][q] <= retries'[k][q]
    /\ Len(rows'[q]) = Len(rows[q]) /\ judged'[q] = judged[q] /\ asked'[q] = asked[q]
    /\ told'[q] = told[q] /\ out'[q] = out[q]

\* The counts are numbers.
LEMMA Sizes ==
    ASSUME TypeOK, NEW r \in Req
    PROVE  /\ Len(rows[r]) \in Nat /\ judged[r] \in Nat /\ asked[r] \in Nat
           /\ Len(told[r]) \in Nat /\ faults \in Nat /\ told[r] \in Seq(Nat)
           /\ \A k \in Kind : /\ retries[k][r] \in Nat /\ Due(k, r) \in {0, 1}
                              /\ task[k][r] \in Busy \cup Finished \cup {None}
           /\ "log" \in Kind /\ "quality" \in Kind /\ "safety" \in Kind
<1>1. rows[r] \in Seq(Row) /\ told[r] \in Seq(Nat)
  BY DEF TypeOK
<1> QED
  BY <1>1 DEF TypeOK, Due, Kind

\* What is told stays paid for: a message that is due anew is due to a fault.
LEMMA ToldKept ==
    ASSUME TypeOK, TypeOK', NEW r \in Req, ToldOnce(r), told'[r] = told[r], faults <= faults',
           \/ faults + 1 <= faults'
           \/ task'["quality"][r] \in {"queued", "judged", "scored"} =>
                 task["quality"][r] \in {"queued", "judged", "scored"}
    PROVE  ToldOnce(r)'
<1>1. PICK t \in Nat, f \in Nat, g \in Nat : t = Len(told[r]) /\ f = faults /\ g = faults'
  BY Sizes DEF TypeOK
<1>2. PICK x \in {0, 1}, y \in {0, 1} :
         x = ToTell(r) /\ y = ToTell(r)' /\ (f + 1 <= g \/ y <= x)
  BY <1>1 DEF ToTell
<1>3. t + x <= 1 + f /\ f <= g
  BY <1>1, <1>2 DEF ToldOnce
<1>4. t + y <= 1 + g
  BY <1>2, <1>3
<1> QED
  BY <1>1, <1>2, <1>4 DEF ToldOnce

\* Who has no part in a step keeps what is counted of it.
LEMMA UntouchedKept ==
    ASSUME TypeOK, TypeOK', NEW q \in Req, Untouched(q), faults <= faults', Counted(q)
    PROVE  Counted(q)'
<1>1. /\ Len(rows[q]) \in Nat /\ judged[q] \in Nat /\ asked[q] \in Nat /\ faults \in Nat
      /\ \A k \in Kind : retries[k][q] \in Nat
      /\ "log" \in Kind /\ "quality" \in Kind /\ "safety" \in Kind
      /\ \A k \in Kind : Due(k, q) \in {0, 1}
  BY Sizes
<1>2. faults' \in Nat /\ \A k \in Kind : retries'[k][q] \in Nat
  BY DEF TypeOK
<1>3. \A k \in Kind : Due(k, q)' = Due(k, q)
  BY DEF Due, Untouched
<1>4. Published(q)'
  BY DEF Counted, Published, Untouched
<1>5. Paid(q)'
  <2>1. Len(rows[q]) + Due("log", q) <= 1 + faults /\ judged[q] + Due("quality", q) <= 1 + faults
        /\ asked[q] + Due("safety", q) <= 1 + retries["safety"][q] + faults
    BY DEF Counted, Paid
  <2>2. /\ Len(rows'[q]) = Len(rows[q]) /\ judged'[q] = judged[q] /\ asked'[q] = asked[q]
        /\ retries["safety"][q] <= retries'["safety"][q]
    BY <1>1 DEF Untouched
  <2>3. /\ Due("log", q)' = Due("log", q) /\ Due("quality", q)' = Due("quality", q)
        /\ Due("safety", q)' = Due("safety", q)
        /\ Due("log", q) \in {0, 1} /\ Due("quality", q) \in {0, 1} /\ Due("safety", q) \in {0, 1}
        /\ retries["safety"][q] \in Nat /\ retries'["safety"][q] \in Nat
    BY <1>1, <1>2, <1>3
  <2>4. Len(rows'[q]) + Due("log", q)' <= 1 + faults'
    BY <1>1, <1>2, <2>1, <2>2, <2>3
  <2>5. judged'[q] + Due("quality", q)' <= 1 + faults'
    BY <1>1, <1>2, <2>1, <2>2, <2>3
  <2>6. asked'[q] + Due("safety", q)' <= 1 + retries'["safety"][q] + faults'
    <3>1. PICK m \in Nat, n \in Nat : m = retries["safety"][q] /\ n = retries'["safety"][q]
      BY <2>3
    <3>2. PICK d \in {0, 1} : d = Due("safety", q) /\ d = Due("safety", q)'
      BY <2>3
    <3>3. asked[q] + d <= 1 + m + faults /\ m <= n
      BY <2>1, <2>2, <3>1, <3>2
    <3>4. asked[q] + d <= 1 + n + faults'
      BY <1>1, <1>2, <3>3
    <3> QED
      BY <2>2, <3>1, <3>2, <3>4
  <2> QED
    BY <2>4, <2>5, <2>6 DEF Paid
<1>6. Did(q)'
  BY <1>1 DEF Counted, Did, Untouched
<1>7. ToldOnce(q)' /\ ToldLast(q)'
  <2>1. told'[q] = told[q] /\ task'["quality"][q] = task["quality"][q]
    BY <1>1 DEF Untouched
  <2>2. ToldOnce(q)'
    BY <2>1, ToldKept DEF Counted
  <2> QED
    BY <1>1, <2>2 DEF Counted, ToldLast, Untouched
<1> QED
  BY <1>4, <1>5, <1>6, <1>7 DEF Counted

\* A step that puts a task of r elsewhere.
LEMMA Moved ==
    ASSUME TypeOK, NEW k \in Kind, NEW r \in Req, NEW s \in Busy \cup Finished, Set(k, r, s),
           \A l \in Kind, q \in Req : retries[l][q] <= retries'[l][q],
           \A q \in Req \ {r} : /\ judged'[q] = judged[q] /\ asked'[q] = asked[q]
                                /\ told'[q] = told[q],
           \A q \in Req \ {r} : Len(rows'[q]) = Len(rows[q]),
           out' = out
    PROVE  \A q \in Req \ {r} : Untouched(q)
<1>1. \A l \in Kind, q \in Req : l # k \/ q # r => task'[l][q] = task[l][q]
  BY Placed
<1> QED
  BY <1>1 DEF Untouched

\* An attempt that ends where the task may be queued again, or that is over.
LEMMA Requeued ==
    ASSUME TypeOK, TypeOK', NEW k \in Kind, NEW r \in Req, NEW s \in {"queued", "gone"}, Set(k, r, s),
           task[k][r] \in Busy, Counted(r),
           \A l \in Kind, q \in Req : retries[l][q] <= retries'[l][q],
           UNCHANGED <<out, rows, judged, told, asked>>, faults <= faults',
           \/ faults + 1 <= faults'
           \/ s = "gone" \/ task[k][r] = "queued"
           \/ k = "safety" /\ retries[k][r] + 1 <= retries'[k][r]
    PROVE  Counted(r)'
<1>1. /\ Len(rows[r]) \in Nat /\ judged[r] \in Nat /\ asked[r] \in Nat /\ faults \in Nat
      /\ \A l \in Kind : retries[l][r] \in Nat /\ Due(l, r) \in {0, 1}
      /\ "log" \in Kind /\ "quality" \in Kind /\ "safety" \in Kind
      /\ Len(told[r]) \in Nat
  BY Sizes
<1>2. faults' \in Nat /\ \A l \in Kind : retries'[l][r] \in Nat
  BY DEF TypeOK
<1>3. task'[k][r] = s /\ \A l \in Kind : l # k => task'[l][r] = task[l][r]
  BY Placed DEF Busy, Finished
<1>4. \A l \in Kind : l # k => Due(l, r)' = Due(l, r)
  BY <1>3 DEF Due
<1>5. /\ Due(k, r)' \in {0, 1} /\ (s = "gone" => Due(k, r)' = 0)
      /\ (task[k][r] = "queued" => Due(k, r) = 1)
  BY <1>3 DEF Due, None
<1>6. Published(r)'
  <2>1. out[r]
    BY DEF Counted, Published, Busy, None
  <2> QED
    BY <2>1 DEF Published
<1>7. Paid(r)'
  <2>1. Len(rows[r]) + Due("log", r) <= 1 + faults /\ judged[r] + Due("quality", r) <= 1 + faults
        /\ asked[r] + Due("safety", r) <= 1 + retries["safety"][r] + faults
    BY DEF Counted, Paid
  <2>2. retries["safety"][r] <= retries'["safety"][r]
    BY <1>1
  <2>3. Len(rows[r]) + Due("log", r)' <= 1 + faults'
    BY <1>1, <1>2, <1>4, <1>5, <2>1
  <2>4. judged[r] + Due("quality", r)' <= 1 + faults'
    BY <1>1, <1>2, <1>4, <1>5, <2>1
  <2>5. asked[r] + Due("safety", r)' <= 1 + retries'["safety"][r] + faults'
    <3>1. /\ retries["safety"][r] \in Nat /\ retries'["safety"][r] \in Nat
          /\ Due("safety", r) \in {0, 1}
      BY <1>1, <1>2
    <3>2. PICK m \in Nat, n \in Nat : m = retries["safety"][r] /\ n = retries'["safety"][r]
      BY <3>1
    <3>3. PICK d \in {0, 1} : d = Due("safety", r)
      BY <3>1
    <3>4. asked[r] + d <= 1 + m + faults /\ m <= n
      BY <2>1, <2>2, <3>2, <3>3
    <3>5. CASE k # "safety"
      <4>1. Due("safety", r)' = d
        BY <1>1, <1>4, <3>5, <3>3
      <4>2. asked[r] + d <= 1 + n + faults'
        BY <1>1, <1>2, <3>4
      <4> QED
        BY <3>2, <4>1, <4>2
    <3>6. CASE k = "safety"
      <4>1. PICK e \in {0, 1} : /\ e = Due("safety", r)' /\ (s = "gone" => e = 0)
                                /\ (task["safety"][r] = "queued" => d = 1)
        BY <1>5, <3>6, <3>3
      <4>2. \/ faults + 1 <= faults'
            \/ s = "gone" \/ task["safety"][r] = "queued"
            \/ m + 1 <= n
        BY <3>6, <3>2
      <4>3. asked[r] + e <= 1 + n + faults'
        BY <1>1, <1>2, <3>4, <4>1, <4>2
      <4> QED
        BY <3>2, <4>1, <4>3
    <3> QED
      BY <3>5, <3>6
  <2> QED
    BY <2>3, <2>4, <2>5 DEF Paid
<1>8. Did(r)'
  BY <1>1, <1>3 DEF Counted, Did
<1>9. ToldOnce(r)'
  <2>1. \/ faults + 1 <= faults'
        \/ task'["quality"][r] \in {"queued", "judged", "scored"} =>
              task["quality"][r] \in {"queued", "judged", "scored"}
    BY <1>1, <1>3
  <2>2. told'[r] = told[r]
    OBVIOUS
  <2> QED
    BY <2>1, <2>2, ToldKept DEF Counted
<1>10. ToldLast(r)'
  BY <1>1, <1>3 DEF Counted, ToldLast
<1> QED
  BY <1>6, <1>7, <1>8, <1>9, <1>10 DEF Counted

\* A step of r that goes on: no attempt begins, and an effect takes the place of
\* one that was due.
LEMMA WentOn ==
    ASSUME TypeOK, TypeOK', NEW k \in Kind, NEW r \in Req, NEW s \in Busy \cup Finished, Set(k, r, s),
           s # "queued", task[k][r] \in Busy, Counted(r), UNCHANGED <<out, retries>>, faults <= faults',
           \/ task[k][r] # "queued" /\ Len(rows'[r]) = Len(rows[r])
                 /\ judged'[r] = judged[r] /\ asked'[r] = asked[r]
           \/ task[k][r] = "queued" /\ k = "log" /\ Len(rows'[r]) = Len(rows[r]) + 1
                 /\ judged'[r] = judged[r] /\ asked'[r] = asked[r]
           \/ task[k][r] = "queued" /\ k = "quality" /\ Len(rows'[r]) = Len(rows[r])
                 /\ judged'[r] = judged[r] + 1 /\ asked'[r] = asked[r]
           \/ task[k][r] = "queued" /\ k = "safety" /\ Len(rows'[r]) = Len(rows[r])
                 /\ judged'[r] = judged[r] /\ asked'[r] = asked[r] + 1
    PROVE  /\ Published(r)' /\ Paid(r)'
           /\ task'[k][r] = s /\ \A l \in Kind : l # k => task'[l][r] = task[l][r]
<1>0. /\ faults' \in Nat /\ Len(rows'[r]) \in Nat /\ judged'[r] \in Nat /\ asked'[r] \in Nat
      /\ "log" \in Kind /\ "quality" \in Kind /\ "safety" \in Kind
  <2>1. rows'[r] \in Seq(Row)
    BY DEF TypeOK
  <2> QED
    BY <2>1 DEF TypeOK, Kind
<1>1. task'[k][r] = s /\ \A l \in Kind : l # k => task'[l][r] = task[l][r]
  BY Placed
<1>2. Published(r)'
  <2>1. out[r]
    BY DEF Counted, Published, Busy, None
  <2> QED
    BY <2>1 DEF Published
<1>3. PICK a \in Nat, j \in Nat, w \in Nat, f \in Nat, g \in Nat, m \in Nat :
         /\ a = Len(rows[r]) /\ j = judged[r] /\ w = asked[r] /\ f = faults /\ g = faults'
         /\ m = retries["safety"][r]
  BY <1>0, Sizes
<1>4. PICK x \in {0, 1}, y \in {0, 1}, z \in {0, 1} :
         /\ x = Due("log", r) /\ y = Due("quality", r) /\ z = Due("safety", r)
  BY Sizes
<1>5. a + x <= 1 + f /\ j + y <= 1 + f /\ w + z <= 1 + m + f /\ f <= g
  BY <1>3, <1>4 DEF Counted, Paid
<1>6. /\ Due(k, r)' = 0 /\ \A l \in Kind : l # k => Due(l, r)' = Due(l, r)
      /\ Due(k, r) = IF task[k][r] = "queued" THEN 1 ELSE 0
  BY <1>1 DEF Due, Busy, Finished, None
<1>7. "log" \in Kind /\ "quality" \in Kind /\ "safety" \in Kind /\ k \in {"log", "quality", "safety"}
  BY DEF Kind
<1>8. Len(rows'[r]) + Due("log", r)' <= 1 + faults'
  <2>1. CASE k = "log"
    <3>1. Due("log", r)' = 0 /\ Len(rows'[r]) <= a + x
      BY <1>3, <1>4, <1>6, <2>1
    <3>2. PICK v \in Nat : v = Len(rows'[r])
      BY <1>0
    <3>3. v + 0 <= 1 + g
      <4>1. v <= a + x
        BY <3>1, <3>2
      <4> QED
        BY <1>5, <4>1
    <3> QED
      BY <1>3, <3>1, <3>2, <3>3
  <2>2. CASE k # "log"
    <3>1. Due("log", r)' = x /\ Len(rows'[r]) = a
      BY <1>3, <1>4, <1>6, <1>7, <2>2
    <3>2. a + x <= 1 + g
      BY <1>5
    <3> QED
      BY <1>3, <3>1, <3>2
  <2> QED
    BY <2>1, <2>2
<1>9. judged'[r] + Due("quality", r)' <= 1 + faults'
  <2>1. CASE k = "quality"
    <3>1. Due("quality", r)' = 0 /\ judged'[r] <= j + y
      BY <1>3, <1>4, <1>6, <2>1
    <3>2. PICK v \in Nat : v = judged'[r]
      BY <1>0
    <3>3. v + 0 <= 1 + g
      <4>1. v <= j + y
        BY <3>1, <3>2
      <4> QED
        BY <1>5, <4>1
    <3> QED
      BY <1>3, <3>1, <3>2, <3>3
  <2>2. CASE k # "quality"
    <3>1. Due("quality", r)' = y /\ judged'[r] = j
      BY <1>3, <1>4, <1>6, <1>7, <2>2
    <3>2. j + y <= 1 + g
      BY <1>5
    <3> QED
      BY <1>3, <3>1, <3>2
  <2> QED
    BY <2>1, <2>2
<1>10. asked'[r] + Due("safety", r)' <= 1 + retries'["safety"][r] + faults'
  <2>1. retries'["safety"][r] = m
    BY <1>3
  <2>2. CASE k = "safety"
    <3>1. Due("safety", r)' = 0 /\ asked'[r] <= w + z
      BY <1>3, <1>4, <1>6, <2>2
    <3>2. asked'[r] + Due("safety", r)' <= 1 + m + g
      <4>1. PICK v \in Nat : v = asked'[r]
        BY <1>0
      <4>2. v <= w + z
        BY <3>1, <4>1
      <4>3. v + 0 <= 1 + m + g
        BY <1>5, <4>2
      <4> QED
        BY <3>1, <4>1, <4>3
    <3> QED
      BY <1>3, <2>1, <3>2
  <2>3. CASE k # "safety"
    <3>1. Due("safety", r)' = z /\ asked'[r] = w
      BY <1>3, <1>4, <1>6, <1>7, <2>3
    <3>2. w + z <= 1 + m + g
      BY <1>5
    <3> QED
      BY <1>3, <2>1, <3>1, <3>2
  <2> QED
    BY <2>2, <2>3
<1> QED
  BY <1>1, <1>2, <1>8, <1>9, <1>10 DEF Paid

\* The steps of r that count, one by one.
LEMMA InsertCounted ==
    ASSUME TypeOK, TypeOK', NEW r \in Req, Insert(r), Counted(r)
    PROVE  Counted(r)' /\ \A q \in Req \ {r} : Untouched(q)
<1>1. /\ task["log"][r] = "queued" /\ Set("log", r, "ran")
      /\ UNCHANGED <<out, retries, judged, told, asked, faults>>
      /\ rows' = [rows EXCEPT ![r] = Append(rows[r], FreshRow)]
  BY DEF Insert, Moves, Inserted, request
<1>2. Len(rows'[r]) = Len(rows[r]) + 1 /\ \A q \in Req \ {r} : rows'[q] = rows[q]
  <2>1. rows \in [Req -> Seq(Row)] /\ rows[r] \in Seq(Row) /\ FreshRow \in Row
    BY DEF TypeOK, FreshRow, Row
  <2>2. rows'[r] = Append(rows[r], FreshRow)
    BY <1>1, <2>1
  <2> QED
    BY <1>1, <2>1, <2>2
<1>3. "log" \in Kind /\ "quality" \in Kind /\ Len(rows[r]) \in Nat /\ faults \in Nat
      /\ \A l \in Kind, q \in Req : retries[l][q] <= retries'[l][q]
  BY <1>1, Sizes DEF TypeOK
<1>4. /\ Published(r)' /\ Paid(r)' /\ task'["log"][r] = "ran"
      /\ \A l \in Kind : l # "log" => task'[l][r] = task[l][r]
  BY <1>1, <1>2, <1>3, WentOn DEF Busy
<1>5. Did(r)'
  BY <1>1, <1>2, <1>3, <1>4, Sizes DEF Counted, Did
<1>6. ToldOnce(r)' /\ ToldLast(r)'
  <2>1. ToldOnce(r)'
    BY <1>1, <1>3, <1>4, ToldKept DEF Counted
  <2> QED
    BY <1>1, <1>3, <1>4, <2>1 DEF Counted, ToldLast
<1>7. \A q \in Req \ {r} : Untouched(q)
  BY <1>1, <1>2, <1>3, Moved DEF Busy
<1> QED
  BY <1>4, <1>5, <1>6, <1>7 DEF Counted

LEMMA JudgeCounted ==
    ASSUME TypeOK, TypeOK', NEW r \in Req, Judge(r), Counted(r)
    PROVE  Counted(r)' /\ \A q \in Req \ {r} : Untouched(q)
<1>1. /\ task["quality"][r] = "queued" /\ Set("quality", r, "judged")
      /\ UNCHANGED <<out, retries, rows, told, asked, faults>>
      /\ judged'[r] = judged[r] + 1 /\ \A q \in Req \ {r} : judged'[q] = judged[q]
  BY DEF Judge, Moves, request, TypeOK
<1>2. "log" \in Kind /\ "quality" \in Kind /\ judged[r] \in Nat /\ faults \in Nat
      /\ Len(told[r]) \in Nat
      /\ \A l \in Kind, q \in Req : retries[l][q] <= retries'[l][q]
  BY <1>1, Sizes DEF TypeOK
<1>3. /\ Published(r)' /\ Paid(r)' /\ task'["quality"][r] = "judged"
      /\ \A l \in Kind : l # "quality" => task'[l][r] = task[l][r]
  BY <1>1, <1>2, WentOn DEF Busy
<1>4. Did(r)' /\ ToldLast(r)'
  BY <1>1, <1>2, <1>3, Sizes DEF Counted, Did, ToldLast
<1>5. ToldOnce(r)'
  BY <1>1, <1>2, <1>3, ToldKept DEF Counted
<1>6. \A q \in Req \ {r} : Untouched(q)
  BY <1>1, <1>2, Moved DEF Busy
<1> QED
  BY <1>3, <1>4, <1>5, <1>6 DEF Counted

LEMMA ScoreCounted ==
    ASSUME TypeOK, TypeOK', NEW r \in Req, Score(r), Counted(r)
    PROVE  Counted(r)' /\ (\A q \in Req \ {r} : Untouched(q)) /\ faults <= faults'
<1>1. /\ task["quality"][r] = "judged" /\ Set("quality", r, "scored")
      /\ UNCHANGED <<out, retries, judged, told, asked>> /\ faults <= faults'
      /\ \A q \in Req : Len(rows'[q]) = Len(rows[q])
  BY Scores, RowsScored
<1>2. "log" \in Kind /\ "quality" \in Kind
      /\ \A l \in Kind, q \in Req : retries[l][q] <= retries'[l][q]
  BY <1>1, Sizes DEF TypeOK
<1>3. /\ Published(r)' /\ Paid(r)' /\ task'["quality"][r] = "scored"
      /\ \A l \in Kind : l # "quality" => task'[l][r] = task[l][r]
  BY <1>1, <1>2, WentOn DEF Busy
<1>4. Did(r)' /\ ToldLast(r)'
  BY <1>1, <1>2, <1>3, Sizes DEF Counted, Did, ToldLast
<1>5. ToldOnce(r)'
  BY <1>1, <1>3, ToldKept DEF Counted
<1>6. \A q \in Req \ {r} : Untouched(q)
  BY <1>1, <1>2, Moved DEF Busy
<1> QED
  BY <1>1, <1>3, <1>4, <1>5, <1>6 DEF Counted

LEMMA ChainCounted ==
    ASSUME TypeOK, TypeOK', NEW r \in Req, Chain(r), Counted(r)
    PROVE  Counted(r)' /\ \A q \in Req \ {r} : Untouched(q)
<1>1. /\ task["quality"][r] = "scored" /\ Set("quality", r, "ran")
      /\ UNCHANGED <<out, retries, rows, judged, asked, faults>>
      /\ told' = [told EXCEPT ![r] = Append(told[r], judged[r])]
  BY DEF Chain, Moves, request
<1>2. "log" \in Kind /\ "quality" \in Kind /\ judged[r] \in Nat /\ faults \in Nat
      /\ Len(told[r]) \in Nat /\ told[r] \in Seq(Nat) /\ told \in [Req -> Seq(Nat)]
      /\ \A l \in Kind, q \in Req : retries[l][q] <= retries'[l][q]
  BY <1>1, Sizes DEF TypeOK
<1>3. /\ Published(r)' /\ Paid(r)' /\ task'["quality"][r] = "ran"
      /\ \A l \in Kind : l # "quality" => task'[l][r] = task[l][r]
  BY <1>1, <1>2, WentOn DEF Busy
<1>4. /\ Len(told'[r]) = Len(told[r]) + 1 /\ told'[r][Len(told'[r])] = judged[r]
      /\ \A q \in Req \ {r} : told'[q] = told[q]
  <2>1. PICK t : t = told'[r] /\ t = Append(told[r], judged[r])
    BY <1>1, <1>2
  <2>2. Len(t) = Len(told[r]) + 1 /\ t[Len(t)] = judged[r]
    BY <1>2, <2>1
  <2> QED
    BY <1>1, <1>2, <2>1, <2>2
<1>5. Len(told[r]) + 1 <= 1 + faults
  BY <1>1, <1>2 DEF Counted, ToldOnce, ToTell
<1>6. Did(r)' /\ ToldLast(r)'
  BY <1>1, <1>2, <1>3, <1>4, Sizes DEF Counted, Did, ToldLast
<1>7. ToldOnce(r)'
  <2>1. ToTell(r)' = 0
    BY <1>3 DEF ToTell
  <2> QED
    BY <1>1, <1>2, <1>4, <1>5, <2>1 DEF ToldOnce
<1>8. \A q \in Req \ {r} : Untouched(q)
  BY <1>1, <1>2, <1>4, Moved DEF Busy
<1> QED
  BY <1>3, <1>6, <1>7, <1>8 DEF Counted

LEMMA AskCounted ==
    ASSUME TypeOK, TypeOK', NEW r \in Req, Ask(r), Counted(r)
    PROVE  Counted(r)' /\ \A q \in Req \ {r} : Untouched(q)
<1>1. /\ task["safety"][r] = "queued" /\ Set("safety", r, "asked")
      /\ UNCHANGED <<out, retries, rows, told, judged, faults>>
      /\ asked'[r] = asked[r] + 1 /\ \A q \in Req \ {r} : asked'[q] = asked[q]
  BY DEF Ask, Moves, request, TypeOK
<1>2. "log" \in Kind /\ "quality" \in Kind /\ "safety" \in Kind /\ asked[r] \in Nat /\ faults \in Nat
      /\ \A l \in Kind, q \in Req : retries[l][q] <= retries'[l][q]
  BY <1>1, Sizes DEF TypeOK
<1>3. /\ Published(r)' /\ Paid(r)' /\ task'["safety"][r] = "asked"
      /\ \A l \in Kind : l # "safety" => task'[l][r] = task[l][r]
  BY <1>1, <1>2, WentOn DEF Busy
<1>4. Did(r)' /\ ToldLast(r)'
  BY <1>1, <1>2, <1>3, Sizes DEF Counted, Did, ToldLast
<1>5. ToldOnce(r)'
  BY <1>1, <1>2, <1>3, ToldKept DEF Counted
<1>6. \A q \in Req \ {r} : Untouched(q)
  BY <1>1, <1>2, Moved DEF Busy
<1> QED
  BY <1>3, <1>4, <1>5, <1>6 DEF Counted

LEMMA FlagCounted ==
    ASSUME TypeOK, TypeOK', NEW r \in Req, Flag(r), Counted(r)
    PROVE  Counted(r)' /\ \A q \in Req \ {r} : Untouched(q)
<1>1. /\ task["safety"][r] = "asked" /\ Set("safety", r, "ran")
      /\ UNCHANGED <<out, retries, told, judged, asked, faults>>
      /\ rows' = Updated(r, [row \in Row |-> [row EXCEPT !.flagger = r]])
  BY DEF Flag, Moves, request
<1>2. \A q \in Req : Len(rows'[q]) = Len(rows[q])
  BY <1>1, RowsFlagged
<1>3. "log" \in Kind /\ "quality" \in Kind /\ "safety" \in Kind /\ faults \in Nat
      /\ \A l \in Kind, q \in Req : retries[l][q] <= retries'[l][q]
  BY <1>1, Sizes DEF TypeOK
<1>4. /\ Published(r)' /\ Paid(r)' /\ task'["safety"][r] = "ran"
      /\ \A l \in Kind : l # "safety" => task'[l][r] = task[l][r]
  <2>1. /\ task["safety"][r] = "asked" /\ Set("safety", r, "ran") /\ faults' = faults
        /\ UNCHANGED <<out, retries>> /\ Len(rows'[r]) = Len(rows[r])
        /\ judged'[r] = judged[r] /\ asked'[r] = asked[r]
    BY <1>1, <1>2
  <2> QED
    BY <1>3, <2>1, WentOn DEF Busy, Finished
<1>5. Did(r)' /\ ToldLast(r)'
  BY <1>1, <1>2, <1>3, <1>4, Sizes DEF Counted, Did, ToldLast
<1>6. ToldOnce(r)'
  BY <1>1, <1>3, <1>4, ToldKept DEF Counted
<1>7. \A q \in Req \ {r} : Untouched(q)
  BY <1>1, <1>2, <1>3, Moved DEF Busy
<1> QED
  BY <1>4, <1>5, <1>6, <1>7 DEF Counted

LEMMA AckCounted ==
    ASSUME TypeOK, TypeOK', NEW k \in Kind, NEW r \in Req, Ack(k, r), Counted(r)
    PROVE  Counted(r)' /\ \A q \in Req \ {r} : Untouched(q)
<1>1. /\ task[k][r] = "ran" /\ Set(k, r, "done")
      /\ UNCHANGED <<out, retries, rows, told, judged, asked, faults>>
  BY DEF Ack, Moves, request, effects
<1>2. "log" \in Kind /\ "quality" \in Kind /\ "safety" \in Kind /\ faults \in Nat
      /\ \A l \in Kind, q \in Req : retries[l][q] <= retries'[l][q]
  BY <1>1, Sizes DEF TypeOK
<1>3. /\ Published(r)' /\ Paid(r)' /\ task'[k][r] = "done"
      /\ \A l \in Kind : l # k => task'[l][r] = task[l][r]
  BY <1>1, <1>2, WentOn DEF Busy, Finished
<1>4. Did(r)' /\ ToldLast(r)'
  BY <1>1, <1>2, <1>3, Sizes DEF Counted, Did, ToldLast
<1>5. ToldOnce(r)'
  BY <1>1, <1>2, <1>3, ToldKept DEF Counted
<1>6. \A q \in Req \ {r} : Untouched(q)
  BY <1>1, <1>2, Moved DEF Finished
<1> QED
  BY <1>3, <1>4, <1>5, <1>6 DEF Counted

\* An attempt that failed pays for the next one.
LEMMA RetryCounted ==
    ASSUME TypeOK, TypeOK', NEW k \in Kind, NEW r \in Req, Retry(k, r), task[k][r] \in Busy,
           UNCHANGED <<request, effects>>, faults <= faults', Counted(r),
           faults + 1 <= faults' \/ task[k][r] = "queued" \/ k = "safety"
    PROVE  Counted(r)' /\ \A q \in Req \ {r} : Untouched(q)
<1>1. UNCHANGED <<out, rows, judged, told, asked>>
  BY DEF request, effects
<1>2. PICK s \in {"queued", "gone"} : Set(k, r, s)
  BY Retried
<1>3. \A l \in Kind, q \in Req : retries[l][q] <= retries'[l][q]
  BY Retried
<1>4. s = "gone" \/ retries'[k][r] = retries[k][r] + 1
  BY <1>2, Retried
<1>5. retries[k][r] + 1 <= retries'[k][r] \/ s = "gone"
  BY <1>4, Sizes
<1>6. Counted(r)'
  BY <1>1, <1>2, <1>3, <1>5, Requeued
<1>7. \A q \in Req \ {r} : Untouched(q)
  BY <1>1, <1>2, <1>3, Moved DEF Busy, Finished
<1> QED
  BY <1>6, <1>7

\* A death pays for the redelivery.
LEMMA CrashCounted ==
    ASSUME TypeOK, TypeOK', NEW k \in Kind, NEW r \in Req, Crash(k, r), Counted(r)
    PROVE  Counted(r)' /\ (\A q \in Req \ {r} : Untouched(q)) /\ faults <= faults'
<1>1. UNCHANGED <<out, rows, judged, told, asked, retries>> /\ task[k][r] \in Busy /\ faults' = faults + 1
  BY DEF Crash, request, effects
<1>2. PICK s \in {"queued", "gone"} : Set(k, r, s)
  BY DEF Crash
<1>3. /\ \A l \in Kind, q \in Req : retries[l][q] <= retries'[l][q]
      /\ faults + 1 <= faults' /\ faults <= faults'
  BY <1>1, Sizes DEF TypeOK
<1>4. Counted(r)'
  BY <1>1, <1>2, <1>3, Requeued
<1>5. \A q \in Req \ {r} : Untouched(q)
  BY <1>1, <1>2, <1>3, Moved DEF Busy, Finished
<1> QED
  BY <1>3, <1>4, <1>5

\* Publishing starts the first attempts.
LEMMA PublishCounted ==
    ASSUME TypeOK, TypeOK', NEW r \in Req, Publish(r), Counted(r)
    PROVE  Counted(r)' /\ (\A q \in Req \ {r} : Untouched(q)) /\ faults <= faults'
<1>1. /\ out' = [out EXCEPT ![r] = TRUE] /\ ~out[r]
      /\ UNCHANGED <<retries, rows, judged, asked>>
  BY DEF Publish
<1>2. \A k \in Kind : task[k][r] = None
  BY <1>1 DEF Counted, Published
<1>3. /\ \A k \in Kind : /\ task'[k][r] \in {"queued", None}
                         /\ \A q \in Req \ {r} : task'[k][q] = task[k][q]
      /\ \A q \in Req \ {r} : told'[q] = told[q]
      /\ Len(told'[r]) <= 1 /\ faults <= faults'
      /\ Len(told'[r]) = 1 => task'["quality"][r] = None \/ faults + 1 <= faults'
  BY <1>2, Publishes DEF Kind
<1>4. out'[r] = TRUE /\ \A q \in Req \ {r} : out'[q] = out[q]
  BY <1>1 DEF TypeOK
<1>5. /\ "log" \in Kind /\ "quality" \in Kind /\ "safety" \in Kind
      /\ Len(rows[r]) \in Nat /\ judged[r] \in Nat /\ asked[r] \in Nat
      /\ retries["safety"][r] \in Nat /\ faults \in Nat /\ faults' \in Nat
  BY Sizes DEF TypeOK
<1>6. Published(r)'
  BY <1>4 DEF Published
<1>7. Paid(r)'
  <2>1. \A k \in Kind : Due(k, r)' = Due(k, r)
    BY <1>2, <1>3 DEF Due
  <2>2. Due("log", r)' = Due("log", r) /\ Due("quality", r)' = Due("quality", r)
        /\ Due("safety", r)' = Due("safety", r)
    BY <1>5, <2>1
  <2>3. /\ Due("log", r) \in {0, 1} /\ Due("quality", r) \in {0, 1}
        /\ Due("safety", r) \in {0, 1}
    BY DEF Due
  <2>4. /\ Len(rows[r]) + Due("log", r) <= 1 + faults
        /\ judged[r] + Due("quality", r) <= 1 + faults
        /\ asked[r] + Due("safety", r) <= 1 + retries["safety"][r] + faults
    BY DEF Counted, Paid
  <2>5. /\ Len(rows[r]) + Due("log", r) <= 1 + faults'
        /\ judged[r] + Due("quality", r) <= 1 + faults'
        /\ asked[r] + Due("safety", r) <= 1 + retries["safety"][r] + faults'
    <3>1. PICK a \in Nat, j \in Nat, w \in Nat, m \in Nat, f \in Nat, g \in Nat :
            /\ a = Len(rows[r]) /\ j = judged[r] /\ w = asked[r]
            /\ m = retries["safety"][r] /\ f = faults /\ g = faults'
      BY <1>5
    <3>2. PICK x \in {0, 1}, y \in {0, 1}, z \in {0, 1} :
            x = Due("log", r) /\ y = Due("quality", r) /\ z = Due("safety", r)
      BY <2>3
    <3>3. a + x <= 1 + f /\ j + y <= 1 + f /\ w + z <= 1 + m + f /\ f <= g
      BY <1>3, <2>4, <3>1, <3>2
    <3>4. a + x <= 1 + g /\ j + y <= 1 + g /\ w + z <= 1 + m + g
      BY <3>3
    <3> QED
      BY <3>1, <3>2, <3>4
  <2> QED
    BY <1>1, <2>2, <2>5 DEF Paid
<1>8. Did(r)' /\ ToldLast(r)'
  BY <1>3, <1>5 DEF Did, ToldLast, None
<1>9. ToldOnce(r)'
  <2>1. PICK n \in Nat : n = Len(told'[r])
    <3>1. told'[r] \in Seq(Nat)
      BY DEF TypeOK
    <3> QED
      BY <3>1
  <2>2. PICK x \in {0, 1} : x = ToTell(r)' /\ (task'["quality"][r] = None => x = 0)
    BY DEF ToTell, None
  <2>3. PICK f \in Nat, g \in Nat : f = faults /\ g = faults' /\ f <= g
    BY <1>3, <1>5
  <2>4. n <= 1 /\ (n = 1 => x = 0 \/ f + 1 <= g)
    BY <1>3, <2>1, <2>2, <2>3
  <2>5. n + x <= 1 + g
    BY <2>2, <2>3, <2>4
  <2> QED
    BY <2>1, <2>2, <2>3, <2>5 DEF ToldOnce
<1>10. \A q \in Req \ {r} : Untouched(q)
  BY <1>1, <1>3, <1>4 DEF Untouched, TypeOK
<1> QED
  BY <1>3, <1>6, <1>7, <1>8, <1>9, <1>10 DEF Counted

\* One step keeps all that is counted.
LEMMA CountedStep ==
    ASSUME TypeOK, TypeOK', [Next]_vars, \A r \in Req : Counted(r)
    PROVE  \A r \in Req : Counted(r)'
<1>0. faults \in Nat
  BY DEF TypeOK
<1>1. ASSUME NEW r \in Req, Counted(r)', \A q \in Req \ {r} : Untouched(q), faults <= faults'
      PROVE  \A q \in Req : Counted(q)'
  <2>1. \A q \in Req \ {r} : Counted(q)'
    BY <1>1, UntouchedKept
  <2> QED
    BY <1>1, <2>1
<1>2. ASSUME NEW r \in Req,
             \/ Publish(r) \/ Insert(r) \/ Judge(r) \/ Chain(r) \/ Ask(r) \/ Flag(r)
             \/ \E k \in Kind : Ack(k, r)
      PROVE  \A q \in Req : Counted(q)'
  <2>1. Counted(r)' /\ \A q \in Req \ {r} : Untouched(q)
    BY <1>2, PublishCounted, InsertCounted, JudgeCounted, ChainCounted, AskCounted, FlagCounted,
       AckCounted
  <2>2. faults <= faults'
    <3>1. ASSUME Publish(r) PROVE faults <= faults'
      BY <3>1, Publishes
    <3>2. ASSUME Insert(r) \/ Judge(r) \/ Chain(r) \/ Ask(r) \/ Flag(r) PROVE faults' = faults
      BY <3>2 DEF Insert, Judge, Chain, Ask, Flag
    <3>3. ASSUME NEW k \in Kind, Ack(k, r) PROVE faults' = faults
      BY <3>3 DEF Ack
    <3> QED
      BY <1>0, <1>2, <3>1, <3>2, <3>3
  <2> QED
    BY <1>1, <2>1, <2>2
<1>3. ASSUME NEW r \in Req, Score(r) PROVE \A q \in Req : Counted(q)'
  BY <1>1, <1>3, ScoreCounted
<1>4. ASSUME NEW r \in Req, NEW k \in Kind, Crash(k, r) PROVE \A q \in Req : Counted(q)'
  BY <1>1, <1>4, CrashCounted
<1>5. ASSUME NEW r \in Req, NEW k \in Kind, Fail(k, r) PROVE \A q \in Req : Counted(q)'
  <2>1. Retry(k, r) /\ task[k][r] \in Busy /\ UNCHANGED <<request, effects>> /\ faults' = faults + 1
    BY <1>5 DEF Fail
  <2>2. faults <= faults' /\ faults + 1 <= faults'
    BY <1>0, <2>1
  <2>3. Counted(r)' /\ \A q \in Req \ {r} : Untouched(q)
    BY <2>1, <2>2, RetryCounted
  <2> QED
    BY <1>1, <2>2, <2>3
<1>6. ASSUME NEW r \in Req, RefuseInsert(r) PROVE \A q \in Req : Counted(q)'
  <2>1. Retry("log", r) /\ task["log"][r] = "queued" /\ UNCHANGED <<request, effects>>
        /\ faults <= faults'
    BY <1>0, <1>6 DEF RefuseInsert
  <2>2. Counted(r)' /\ \A q \in Req \ {r} : Untouched(q)
    BY <2>1, RetryCounted DEF Busy, Kind
  <2> QED
    BY <1>1, <2>1, <2>2
<1>7. ASSUME NEW r \in Req, RefuseFlag(r) PROVE \A q \in Req : Counted(q)'
  <2>1. Retry("safety", r) /\ task["safety"][r] = "asked" /\ UNCHANGED <<request, effects>>
        /\ faults <= faults'
    BY <1>0, <1>7 DEF RefuseFlag
  <2>2. Counted(r)' /\ \A q \in Req \ {r} : Untouched(q)
    BY <2>1, RetryCounted DEF Busy, Kind
  <2> QED
    BY <1>1, <2>1, <2>2
<1>8. ASSUME NEW q \in Req, UNCHANGED vars PROVE Counted(q)'
  <2>1. Untouched(q) /\ faults <= faults'
    BY <1>0, <1>8 DEF vars, request, queue, effects, Untouched, TypeOK
  <2> QED
    BY <2>1, UntouchedKept
<1>9. "log" \in Kind /\ "quality" \in Kind /\ "safety" \in Kind
  BY DEF Kind
<1> QED
  BY <1>2, <1>3, <1>4, <1>5, <1>6, <1>7, <1>8, <1>9 DEF Next, LogStep, QualityStep, SafetyStep

-----------------------------------------------------------------------------
(* Tasks that are given up.                                                *)

\* A step gives up a task after a fault, or because of its statement.
LEMMA Abandoned ==
    ASSUME TypeOK, TypeOK', [Next]_vars
    PROVE  /\ faults \in Nat /\ faults' \in Nat /\ faults <= faults' /\ UNCHANGED <<id, columns>>
           /\ \A k \in Kind, q \in Req :
                task'[k][q] = "gone" =>
                  \/ task[k][q] = "gone" \/ faults' > 0
                  \/ k = "log" /\ ~Storable(q)
                  \/ k = "safety" /\ ~Flaggable(q)
<1>0. faults \in Nat /\ faults' \in Nat /\ "log" \in Kind /\ "quality" \in Kind /\ "safety" \in Kind
  BY DEF TypeOK, Kind
<1> DEFINE Reason == \A k \in Kind, q \in Req :
                task'[k][q] = "gone" =>
                  \/ task[k][q] = "gone" \/ faults' > 0
                  \/ k = "log" /\ ~Storable(q)
                  \/ k = "safety" /\ ~Flaggable(q)
           Goal == faults <= faults' /\ UNCHANGED <<id, columns>> /\ Reason
<1>1. ASSUME NEW r \in Req, Publish(r) PROVE Goal
  <2>1. \A k \in Kind : /\ task'[k][r] \in {"queued", task[k][r]}
                        /\ \A q \in Req \ {r} : task'[k][q] = task[k][q]
    BY <1>1, Publishes
  <2>2. Reason
    BY <2>1
  <2>3. faults <= faults'
    BY <1>1, Publishes
  <2> QED
    BY <1>1, <2>2, <2>3 DEF Publish
\* A task that goes on.
<1>2. ASSUME NEW k \in Kind, NEW r \in Req, NEW s \in Busy \cup {"done"}, Set(k, r, s)
      PROVE  Reason
  <2>1. s \in Busy \cup Finished /\ s # "gone"
    BY DEF Busy, Finished
  <2>2. task'[k][r] = s /\ \A l \in Kind, q \in Req : l # k \/ q # r => task'[l][q] = task[l][q]
    BY <1>2, <2>1, Placed
  <2> QED
    BY <2>1, <2>2
\* A task that is retried, or given up for a reason.
<1>3. ASSUME NEW k \in Kind, NEW r \in Req, NEW s \in {"queued", "gone"}, Set(k, r, s),
             \/ faults' > 0
             \/ k = "log" /\ ~Storable(r)
             \/ k = "safety" /\ ~Flaggable(r)
      PROVE  Reason
  <2>1. \A l \in Kind, q \in Req : l # k \/ q # r => task'[l][q] = task[l][q]
    BY <1>3, Placed DEF Busy, Finished
  <2> QED
    BY <1>3, <2>1
<1> HIDE DEF Reason
<1>4. ASSUME NEW r \in Req, Insert(r) PROVE Goal
  BY <1>0, <1>2, <1>4 DEF Insert, Moves, Busy, request
<1>5. ASSUME NEW r \in Req, RefuseInsert(r) PROVE Goal
  <2>1. \E s \in {"queued", "gone"} : Set("log", r, s)
    BY <1>0, <1>5, Retried DEF RefuseInsert
  <2> QED
    BY <1>0, <1>3, <1>5, <2>1 DEF RefuseInsert, request
<1>6. ASSUME NEW r \in Req, Judge(r) PROVE Goal
  BY <1>0, <1>2, <1>6 DEF Judge, Moves, Busy, request
<1>7. ASSUME NEW r \in Req, Score(r) PROVE Goal
  BY <1>0, <1>2, <1>7, Scores DEF Busy
<1>8. ASSUME NEW r \in Req, Chain(r) PROVE Goal
  BY <1>0, <1>2, <1>8 DEF Chain, Moves, Busy, request
<1>9. ASSUME NEW r \in Req, Ask(r) PROVE Goal
  BY <1>0, <1>2, <1>9 DEF Ask, Moves, Busy, request
<1>10. ASSUME NEW r \in Req, Flag(r) PROVE Goal
  BY <1>0, <1>2, <1>10 DEF Flag, Moves, Busy, request
<1>11. ASSUME NEW r \in Req, RefuseFlag(r) PROVE Goal
  <2>1. \E s \in {"queued", "gone"} : Set("safety", r, s)
    BY <1>0, <1>11, Retried DEF RefuseFlag
  <2> QED
    BY <1>0, <1>3, <1>11, <2>1 DEF RefuseFlag, request
<1>12. ASSUME NEW k \in Kind, NEW r \in Req, Ack(k, r) PROVE Goal
  BY <1>0, <1>2, <1>12 DEF Ack, Moves, request
<1>13. ASSUME NEW k \in Kind, NEW r \in Req, Fail(k, r) PROVE Goal
  <2>1. \E s \in {"queued", "gone"} : Set(k, r, s)
    BY <1>13, Retried DEF Fail
  <2>2. faults' > 0 /\ faults <= faults'
    BY <1>0, <1>13 DEF Fail
  <2> QED
    BY <1>3, <1>13, <2>1, <2>2 DEF Fail, request
<1>14. ASSUME NEW k \in Kind, NEW r \in Req, Crash(k, r) PROVE Goal
  <2>1. \E s \in {"queued", "gone"} : Set(k, r, s)
    BY <1>14 DEF Crash
  <2>2. faults' > 0 /\ faults <= faults'
    BY <1>0, <1>14 DEF Crash
  <2> QED
    BY <1>3, <1>14, <2>1, <2>2 DEF Crash, request
<1>15. UNCHANGED vars => Goal
  BY <1>0 DEF vars, request, queue, Reason
<1>16. Goal
  <2> HIDE DEF Goal
  <2> QED
    BY <1>0, <1>1, <1>4, <1>5, <1>6, <1>7, <1>8, <1>9, <1>10, <1>11, <1>12, <1>13, <1>14, <1>15
       DEF Next, LogStep, QualityStep, SafetyStep
<1> QED
  BY <1>0, <1>16 DEF Reason

\* One step gives up no task without a reason.
LEMMA GivenUpStep ==
    ASSUME TypeOK, TypeOK', [Next]_vars, GivenUpForAReason
    PROVE  GivenUpForAReason'
<1>1. /\ faults \in Nat /\ faults' \in Nat /\ faults <= faults' /\ UNCHANGED <<id, columns>>
      /\ "log" \in Kind /\ "quality" \in Kind /\ "safety" \in Kind
  BY Abandoned DEF Kind
<1>2. ASSUME NEW q \in Req PROVE Storable(q)' = Storable(q) /\ Flaggable(q)' = Flaggable(q)
  BY <1>1 DEF Storable, Flaggable
<1>3. faults > 0 => faults' > 0
  BY <1>1
<1>4. ASSUME NEW q \in Req, task'["log"][q] = "gone" PROVE faults' > 0 \/ ~Storable(q)
  BY <1>1, <1>3, <1>4, Abandoned DEF GivenUpForAReason
<1>5. ASSUME NEW q \in Req, task'["quality"][q] = "gone" PROVE faults' > 0
  BY <1>1, <1>3, <1>5, Abandoned DEF GivenUpForAReason
<1>6. ASSUME NEW q \in Req, task'["safety"][q] = "gone" PROVE faults' > 0 \/ ~Flaggable(q)
  BY <1>1, <1>3, <1>6, Abandoned DEF GivenUpForAReason
<1> QED
  BY <1>2, <1>4, <1>5, <1>6 DEF GivenUpForAReason

-----------------------------------------------------------------------------
(* What the rows say.                                                      *)

\* A step changes rows in one of three ways.
LEMMA RowsChange ==
    ASSUME TypeOK, [Next]_vars
    PROVE  \/ UNCHANGED rows
           \/ \E r \in Req : Insert(r) \/ (Score(r) /\ WriteScore(r)) \/ Flag(r)
<1>1. ASSUME NEW r \in Req,
             \/ Publish(r) \/ RefuseInsert(r) \/ Judge(r) \/ Chain(r) \/ Ask(r) \/ RefuseFlag(r)
             \/ \E k \in Kind : Ack(k, r) \/ Fail(k, r) \/ Crash(k, r)
      PROVE  UNCHANGED rows
  BY <1>1 DEF Publish, RefuseInsert, Judge, Chain, Ask, RefuseFlag, Ack, Fail, Crash, effects
<1>2. ASSUME NEW r \in Req, Score(r) PROVE WriteScore(r) \/ UNCHANGED rows
  BY <1>2, Scores
<1>3. UNCHANGED vars => UNCHANGED rows
  BY DEF vars, effects
<1>4. "log" \in Kind /\ "quality" \in Kind /\ "safety" \in Kind
  BY DEF Kind
<1> QED
  BY <1>1, <1>2, <1>3, <1>4 DEF Next, LogStep, QualityStep, SafetyStep

\* An INSERT adds a row that says nothing.
LEMMA RowsInserted ==
    ASSUME TypeOK, NEW r \in Req, Insert(r)
    PROVE  /\ \A q \in Req \ {r} : rows'[q] = rows[q]
           /\ Len(rows'[r]) = Len(rows[r]) + 1 /\ Len(rows[r]) \in Nat
           /\ \A i \in 1 .. Len(rows[r]) : rows'[r][i] = rows[r][i]
           /\ rows'[r][Len(rows[r]) + 1].scorer = None
           /\ rows'[r][Len(rows[r]) + 1].flagger = None
<1>1. rows \in [Req -> Seq(Row)] /\ rows[r] \in Seq(Row) /\ FreshRow \in Row
  BY DEF TypeOK, FreshRow, Row
<1>2. rows' = [rows EXCEPT ![r] = Append(rows[r], FreshRow)]
  BY DEF Insert, Inserted
<1>3. PICK t : t = rows'[r] /\ t = Append(rows[r], FreshRow)
  BY <1>1, <1>2
<1>4. /\ Len(t) = Len(rows[r]) + 1 /\ \A i \in 1 .. Len(rows[r]) : t[i] = rows[r][i]
      /\ t[Len(rows[r]) + 1] = FreshRow
  BY <1>1, <1>3
<1> QED
  BY <1>1, <1>2, <1>3, <1>4 DEF FreshRow

\* One step puts no other id's score or verdict on a row.
LEMMA OwnRowStep ==
    ASSUME TypeOK, [Next]_vars, id' = id, \A q \in Req : OwnRow(q)
    PROVE  \A q \in Req : OwnRow(q)'
<1>1. CASE UNCHANGED rows
  BY <1>1 DEF OwnRow
<1>2. ASSUME NEW r \in Req, Insert(r), NEW q \in Req PROVE OwnRow(q)'
  <2>1. CASE q # r
    <3>1. rows'[q] = rows[q]
      BY <1>2, <2>1, RowsInserted
    <3> QED
      BY <3>1 DEF OwnRow
  <2>2. CASE q = r
    <3>1. PICK n \in Nat : n = Len(rows[r]) /\ Len(rows'[r]) = n + 1
      BY <1>2, RowsInserted
    <3>2. \A i \in 1 .. n : rows'[r][i] = rows[r][i]
      BY <1>2, <3>1, RowsInserted
    <3>3. rows'[r][n + 1].scorer = None /\ rows'[r][n + 1].flagger = None
      BY <1>2, <3>1, RowsInserted
    <3>4. ASSUME NEW i \in 1 .. n + 1
          PROVE  /\ rows'[r][i].scorer # None => id[rows'[r][i].scorer] = id[r]
                 /\ rows'[r][i].flagger # None => id[rows'[r][i].flagger] = id[r]
      <4>1. CASE i \in 1 .. n
        BY <3>1, <3>2, <4>1 DEF OwnRow
      <4>2. CASE i = n + 1
        BY <3>3, <4>2
      <4> QED
        BY <3>1, <4>1, <4>2
    <3> QED
      BY <2>2, <3>1, <3>4 DEF OwnRow
  <2> QED
    BY <2>1, <2>2
<1>3. ASSUME NEW r \in Req, WriteScore(r), NEW q \in Req PROVE OwnRow(q)'
  <2>1. Len(rows'[q]) = Len(rows[q])
    BY <1>3, RowsScored
  <2>2. ASSUME NEW i \in 1 .. Len(rows[q])
        PROVE  /\ rows'[q][i].scorer # None => id[rows'[q][i].scorer] = id[q]
               /\ rows'[q][i].flagger # None => id[rows'[q][i].flagger] = id[q]
    <3>1. rows'[q][i].flagger = rows[q][i].flagger
          /\ (q \in Matches(r) => rows'[q][i].scorer = r)
          /\ (q \notin Matches(r) => rows'[q][i] = rows[q][i])
      BY <1>3, RowsScored
    <3> QED
      BY <3>1 DEF OwnRow, Matches
  <2> QED
    BY <2>1, <2>2 DEF OwnRow
<1>4. ASSUME NEW r \in Req, Flag(r), NEW q \in Req PROVE OwnRow(q)'
  <2>0. rows' = Updated(r, [row \in Row |-> [row EXCEPT !.flagger = r]])
    BY <1>4 DEF Flag
  <2>1. Len(rows'[q]) = Len(rows[q])
    BY <2>0, RowsFlagged
  <2>2. ASSUME NEW i \in 1 .. Len(rows[q])
        PROVE  /\ rows'[q][i].scorer # None => id[rows'[q][i].scorer] = id[q]
               /\ rows'[q][i].flagger # None => id[rows'[q][i].flagger] = id[q]
    <3>1. rows'[q][i].scorer = rows[q][i].scorer
          /\ (q \in Matches(r) => rows'[q][i].flagger = r)
          /\ (q \notin Matches(r) => rows'[q][i] = rows[q][i])
      BY <2>0, RowsFlagged
    <3> QED
      BY <3>1 DEF OwnRow, Matches
  <2> QED
    BY <2>1, <2>2 DEF OwnRow
<1> QED
  BY <1>1, <1>2, <1>3, <1>4, RowsChange

\* The rows of q have the scores they had, and neither its task of judging nor
\* that of logging has begun anew.
LEMMA ScoredKept ==
    ASSUME TypeOK, NEW q \in Req, id' = id, Scored(q), Len(rows'[q]) = Len(rows[q]),
           \A i \in 1 .. Len(rows[q]) : /\ rows'[q][i].scorer = rows[q][i].scorer
                                        /\ rows'[q][i].score = rows[q][i].score,
           out'[q] = out[q], judged'[q] = judged[q],
           early'["quality"][q] = early["quality"][q],
           task'["quality"][q] \in {"scored", "ran", "done"} =>
               task["quality"][q] \in {"scored", "ran", "done"},
           task'["log"][q] = task["log"][q] \/ task["log"][q] \in Busy
    PROVE  Scored(q)'
<1> SUFFICES ASSUME task'["quality"][q] \in {"scored", "ran", "done"}, ~early'["quality"][q],
                    Matches(q)' = {q}
             PROVE  /\ out'[q] /\ task'["log"][q] \in Finished \cup {None}
                    /\ \A i \in 1 .. Len(rows'[q]) :
                          rows'[q][i].scorer = q /\ rows'[q][i].score = judged'[q]
  BY DEF Scored
<1>1. Matches(q) = {q}
  BY DEF Matches
<1>2. /\ out[q] /\ task["log"][q] \in Finished \cup {None}
      /\ \A i \in 1 .. Len(rows[q]) : rows[q][i].scorer = q /\ rows[q][i].score = judged[q]
  BY <1>1 DEF Scored
<1>3. task["log"][q] \notin Busy
  BY <1>2 DEF Busy, Finished, None
<1> QED
  BY <1>2, <1>3

\* A step that moves a task, and changes neither a score nor what may be told.
LEMMA ScoredMoved ==
    ASSUME TypeOK, NEW k \in Kind, NEW r \in Req, NEW s \in Busy \cup Finished, Set(k, r, s),
           task[k][r] \in Busy,
           k = "quality" /\ s \in {"scored", "ran", "done"} =>
               task[k][r] \in {"scored", "ran", "done"},
           UNCHANGED <<id, out, judged>>,
           \A q \in Req : early'["quality"][q] = early["quality"][q],
           \A q \in Req : Len(rows'[q]) = Len(rows[q]),
           \A q \in Req : \A i \in 1 .. Len(rows[q]) : /\ rows'[q][i].scorer = rows[q][i].scorer
                                                       /\ rows'[q][i].score = rows[q][i].score,
           \A q \in Req : Scored(q)
    PROVE  \A q \in Req : Scored(q)'
<1>1. task'[k][r] = s /\ \A l \in Kind, q \in Req : l # k \/ q # r => task'[l][q] = task[l][q]
  BY Placed
<1>2. "log" \in Kind /\ "quality" \in Kind
  BY DEF Kind
<1>3. ASSUME NEW q \in Req PROVE Scored(q)'
  <2>1. task'["log"][q] = task["log"][q] \/ task["log"][q] \in Busy
    BY <1>1, <1>2
  <2>2. task'["quality"][q] \in {"scored", "ran", "done"} =>
            task["quality"][q] \in {"scored", "ran", "done"}
    BY <1>1, <1>2
  <2> QED
    BY <2>1, <2>2, ScoredKept
<1> QED
  BY <1>3

\* A request whose task of judging does not get to its UPDATE.
LEMMA NotScored ==
    ASSUME NEW q \in Req, task'["quality"][q] \notin {"scored", "ran", "done"}
    PROVE  Scored(q)'
BY DEF Scored

\* The steps that could break Scored, one by one.
LEMMA PublishScored ==
    ASSUME TypeOK, NEW r \in Req, Publish(r), Published(r), \A q \in Req : Scored(q)
    PROVE  \A q \in Req : Scored(q)'
<1>1. /\ ~out[r] /\ UNCHANGED <<id, rows, judged, early>> /\ \A q \in Req \ {r} : out'[q] = out[q]
      /\ "log" \in Kind /\ "quality" \in Kind
  BY DEF Publish, TypeOK, Kind
<1>2. \A k \in Kind : /\ task'[k][r] \in {"queued", task[k][r]}
                      /\ \A q \in Req \ {r} : task'[k][q] = task[k][q]
  BY Publishes
<1>3. task'["quality"][r] \in {"queued", None}
  BY <1>1, <1>2 DEF Published
<1>4. Scored(r)'
  BY <1>3, NotScored DEF None
<1>5. ASSUME NEW q \in Req \ {r} PROVE Scored(q)'
  BY <1>1, <1>2, ScoredKept
<1> QED
  BY <1>4, <1>5

\* No row comes after an UPDATE that was in time.
LEMMA InsertScored ==
    ASSUME TypeOK, NEW r \in Req, Insert(r), \A q \in Req : Scored(q)
    PROVE  \A q \in Req : Scored(q)'
<1>1. /\ task["log"][r] = "queued" /\ Set("log", r, "ran")
      /\ UNCHANGED <<id, out, judged, early>> /\ "log" \in Kind /\ "quality" \in Kind
  BY DEF Insert, Moves, request, Kind
<1>2. \A l \in Kind, q \in Req : l # "log" \/ q # r => task'[l][q] = task[l][q]
  BY <1>1, Placed DEF Busy
<1>3. ASSUME NEW q \in Req, q # r PROVE Scored(q)'
  <2>1. rows'[q] = rows[q]
    BY <1>3, RowsInserted
  <2> QED
    BY <1>1, <1>2, <1>3, <2>1, ScoredKept
<1>4. Scored(r)'
  <2>1. ~(task["quality"][r] \in {"scored", "ran", "done"} /\ ~early["quality"][r] /\ Matches(r) = {r})
    BY <1>1 DEF Scored, Finished, None
  <2>2. Matches(r)' = Matches(r) /\ task'["quality"][r] = task["quality"][r]
    BY <1>1, <1>2 DEF Matches
  <2> QED
    BY <1>1, <2>1, <2>2 DEF Scored
<1> QED
  BY <1>3, <1>4

\* A new judgement has its own UPDATE still to come.
LEMMA JudgeScored ==
    ASSUME TypeOK, NEW r \in Req, Judge(r), \A q \in Req : Scored(q)
    PROVE  \A q \in Req : Scored(q)'
<1>1. /\ Set("quality", r, "judged") /\ UNCHANGED <<id, out, rows, early>>
      /\ \A q \in Req \ {r} : judged'[q] = judged[q]
      /\ "log" \in Kind /\ "quality" \in Kind
  BY DEF Judge, Moves, request, Kind, TypeOK
<1>2. /\ task'["quality"][r] = "judged"
      /\ \A l \in Kind, q \in Req : l # "quality" \/ q # r => task'[l][q] = task[l][q]
  BY <1>1, Placed DEF Busy
<1>3. Scored(r)'
  BY <1>2, NotScored
<1>4. ASSUME NEW q \in Req \ {r} PROVE Scored(q)'
  BY <1>1, <1>2, ScoredKept
<1> QED
  BY <1>3, <1>4

\* The UPDATE gives every row its score, or is early.
LEMMA ScoreScored ==
    ASSUME TypeOK, NEW r \in Req, Score(r), \A q \in Req : Scored(q)
    PROVE  \A q \in Req : Scored(q)'
<1>1. /\ task["quality"][r] = "judged" /\ Set("quality", r, "scored")
      /\ UNCHANGED <<id, out, judged>>
      /\ \A q \in Req : q # r => early'["quality"][q] = early["quality"][q]
      /\ "log" \in Kind /\ "quality" \in Kind
  BY Scores DEF Kind
<1>2. /\ task'["quality"][r] = "scored"
      /\ \A l \in Kind, q \in Req : l # "quality" \/ q # r => task'[l][q] = task[l][q]
  BY <1>1, Placed DEF Busy
<1>3. CASE UNCHANGED rows /\ early'["quality"][r] = TRUE
  <2>1. Scored(r)'
    BY <1>3 DEF Scored
  <2>2. ASSUME NEW q \in Req \ {r} PROVE Scored(q)'
    BY <1>1, <1>2, <1>3, ScoredKept
  <2> QED
    BY <2>1, <2>2
<1>4. CASE WriteScore(r)
  <2>1. ASSUME ~early'["quality"][r] PROVE Settled(r)
    <3>1. PICK b \in BOOLEAN : b = ~Settled(r)
      BY DEF Settled
    <3>2. early' = [early EXCEPT !["quality"][r] = b]
      BY <1>4, <3>1 DEF WriteScore
    <3>3. early'["quality"][r] = b
      BY <1>1, <3>2, EarlyType
    <3> QED
      BY <2>1, <3>1, <3>3
  <2>2. Scored(r)'
    <3> SUFFICES ASSUME ~early'["quality"][r]
                 PROVE  /\ out'[r] /\ task'["log"][r] \in Finished \cup {None}
                        /\ \A i \in 1 .. Len(rows'[r]) :
                              rows'[r][i].scorer = r /\ rows'[r][i].score = judged'[r]
      BY DEF Scored
    <3>1. r \in Matches(r)
      BY DEF Matches
    <3>2. out[r] /\ task["log"][r] \in Finished \cup {None}
      BY <2>1, <3>1 DEF Settled
    <3>3. Len(rows'[r]) = Len(rows[r])
      BY <1>4, RowsScored
    <3>4. \A i \in 1 .. Len(rows[r]) : rows'[r][i].scorer = r /\ rows'[r][i].score = judged[r]
      BY <1>4, <3>1, RowsScored
    <3> QED
      BY <1>1, <1>2, <3>2, <3>3, <3>4
  <2>3. ASSUME NEW q \in Req \ {r} PROVE Scored(q)'
    <3>1. CASE q \in Matches(r)
      <4>1. r \in Matches(q)' /\ r # q
        BY <1>1, <3>1 DEF Matches
      <4>2. Matches(q)' # {q}
        BY <4>1
      <4> QED
        BY <4>2 DEF Scored
    <3>2. CASE q \notin Matches(r)
      <4>1. Len(rows'[q]) = Len(rows[q]) /\ \A i \in 1 .. Len(rows[q]) : rows'[q][i] = rows[q][i]
        BY <1>4, <3>2, RowsScored
      <4> QED
        BY <1>1, <1>2, <4>1, ScoredKept
    <3> QED
      BY <3>1, <3>2
  <2> QED
    BY <2>2, <2>3
<1> QED
  BY <1>3, <1>4, Scores

\* One step keeps the scores of settled rows.
LEMMA ScoredStep ==
    ASSUME TypeOK, [Next]_vars, \A q \in Req : Scored(q), \A q \in Req : Counted(q)
    PROVE  \A q \in Req : Scored(q)'
<1> DEFINE Goal == \A q \in Req : Scored(q)'
<1>0. "log" \in Kind /\ "quality" \in Kind /\ "safety" \in Kind
  BY DEF Kind
<1>1. ASSUME NEW r \in Req, Publish(r) PROVE Goal
  BY <1>1, PublishScored DEF Counted
<1>2. ASSUME NEW r \in Req, Insert(r) PROVE Goal
  BY <1>2, InsertScored
<1>3. ASSUME NEW r \in Req, Judge(r) PROVE Goal
  BY <1>3, JudgeScored
<1>4. ASSUME NEW r \in Req, Score(r) PROVE Goal
  BY <1>4, ScoreScored
<1>5. ASSUME NEW k \in Kind, NEW r \in Req, NEW s \in Busy \cup Finished, Set(k, r, s),
             task[k][r] \in Busy,
             k = "quality" /\ s \in {"scored", "ran", "done"} =>
                 task[k][r] \in {"scored", "ran", "done"},
             UNCHANGED <<id, out, judged, early, rows>>
      PROVE  Goal
  BY <1>5, ScoredMoved
<1>6. ASSUME NEW k \in Kind, NEW r \in Req, NEW s \in {"queued", "gone"}, Set(k, r, s),
             task[k][r] \in Busy, UNCHANGED <<id, out, judged, early, rows>>
      PROVE  Goal
  BY <1>5, <1>6 DEF Busy, Finished
<1>7. ASSUME NEW r \in Req, Flag(r) PROVE Goal
  <2>1. /\ Set("safety", r, "ran") /\ task["safety"][r] = "asked" /\ UNCHANGED <<id, out, judged>>
        /\ rows' = Updated(r, [row \in Row |-> [row EXCEPT !.flagger = r]])
        /\ early' = [early EXCEPT !["safety"][r] = ~Settled(r)]
    BY <1>7 DEF Flag, Moves, request
  <2>2. \A q \in Req : early'["quality"][q] = early["quality"][q]
    <3>1. PICK b \in BOOLEAN : b = ~Settled(r)
      BY DEF Settled
    <3>2. early' = [early EXCEPT !["safety"][r] = b]
      BY <2>1, <3>1
    <3>3. \A l \in Kind, q \in Req : l # "safety" \/ q # r => early'[l][q] = early[l][q]
      BY <1>0, <3>2, EarlyType
    <3> QED
      BY <1>0, <3>3
  <2>3. \A q \in Req : Len(rows'[q]) = Len(rows[q])
    BY <2>1, RowsFlagged
  <2>4. \A q \in Req : \A i \in 1 .. Len(rows[q]) : /\ rows'[q][i].scorer = rows[q][i].scorer
                                                    /\ rows'[q][i].score = rows[q][i].score
    BY <2>1, RowsFlagged
  <2> QED
    BY <1>0, <2>1, <2>2, <2>3, <2>4, ScoredMoved DEF Busy
<1>8. ASSUME NEW r \in Req, Chain(r) PROVE Goal
  BY <1>0, <1>5, <1>8 DEF Chain, Moves, request, Busy
<1>9. ASSUME NEW r \in Req, Ask(r) PROVE Goal
  BY <1>0, <1>5, <1>9 DEF Ask, Moves, request, Busy
<1>10. ASSUME NEW r \in Req, NEW k \in Kind, Ack(k, r) PROVE Goal
  BY <1>5, <1>10 DEF Ack, Moves, request, effects, Busy, Finished
<1>11. ASSUME NEW r \in Req, NEW k \in Kind, Retry(k, r), task[k][r] \in Busy,
              UNCHANGED <<request, effects, early>>
       PROVE  Goal
  <2>1. PICK s \in {"queued", "gone"} : Set(k, r, s)
    BY <1>11, Retried
  <2>2. UNCHANGED <<id, out, judged, early, rows>>
    BY <1>11 DEF request, effects
  <2> QED
    BY <1>6, <1>11, <2>1, <2>2
<1>12. ASSUME NEW r \in Req, RefuseInsert(r) PROVE Goal
  <2>1. Retry("log", r) /\ task["log"][r] = "queued" /\ UNCHANGED <<request, effects, early>>
    BY <1>12 DEF RefuseInsert
  <2> QED
    BY <1>0, <1>11, <2>1 DEF Busy
<1>13. ASSUME NEW r \in Req, RefuseFlag(r) PROVE Goal
  <2>1. Retry("safety", r) /\ task["safety"][r] = "asked" /\ UNCHANGED <<request, effects, early>>
    BY <1>13 DEF RefuseFlag
  <2> QED
    BY <1>0, <1>11, <2>1 DEF Busy
<1>14. ASSUME NEW r \in Req, NEW k \in Kind, Fail(k, r) PROVE Goal
  BY <1>11, <1>14 DEF Fail
<1>15. ASSUME NEW r \in Req, NEW k \in Kind, Crash(k, r) PROVE Goal
  <2>1. PICK s \in {"queued", "gone"} : Set(k, r, s)
    BY <1>15 DEF Crash
  <2>2. task[k][r] \in Busy /\ UNCHANGED <<id, out, judged, early, rows>>
    BY <1>15 DEF Crash, request, effects
  <2> QED
    BY <1>6, <2>1, <2>2
<1>16. ASSUME UNCHANGED vars, NEW q \in Req PROVE Scored(q)'
  BY <1>16, ScoredKept DEF vars, request, queue, effects
<1> HIDE DEF Goal
<1>17. Goal
  BY <1>0, <1>1, <1>2, <1>3, <1>4, <1>7, <1>8, <1>9, <1>10, <1>12, <1>13, <1>14, <1>15, <1>16
     DEF Next, LogStep, QualityStep, SafetyStep, Goal
<1> QED
  BY <1>17 DEF Goal

-----------------------------------------------------------------------------
(* The invariant, and what it says.                                        *)

LEMMA InvInit == Init => Inv
<1> SUFFICES ASSUME Init PROVE Inv
  OBVIOUS
<1>1. TypeOK
  BY TypeInit
<1>2. \A k \in Kind, r \in Req : task[k][r] = None /\ retries[k][r] = 0
  BY DEF Init
<1>3. "log" \in Kind /\ "quality" \in Kind /\ "safety" \in Kind
  BY DEF Kind
<1>4. ASSUME NEW r \in Req
      PROVE  /\ rows[r] = <<>> /\ told[r] = <<>> /\ judged[r] = 0 /\ asked[r] = 0 /\ faults = 0
             /\ Len(rows[r]) = 0 /\ Len(told[r]) = 0
  BY <1>4 DEF Init
<1>5. GivenUpForAReason
  BY <1>2, <1>3 DEF GivenUpForAReason, None
<1>6. ASSUME NEW r \in Req PROVE Counted(r)
  <2>1. Published(r)
    BY <1>2 DEF Published
  <2>2. Paid(r)
    <3>1. Due("log", r) = 1 /\ Due("quality", r) = 1 /\ Due("safety", r) = 1
      BY <1>2, <1>3 DEF Due
    <3>2. retries["safety"][r] = 0
      BY <1>2, <1>3
    <3> QED
      BY <1>4, <3>1, <3>2 DEF Paid
  <2>3. Did(r) /\ ToldLast(r)
    BY <1>2, <1>3, <1>4 DEF Did, ToldLast, None
  <2>4. ToTell(r) = 0
    BY <1>2, <1>3 DEF ToTell, None
  <2>5. ToldOnce(r)
    BY <1>4, <2>4 DEF ToldOnce
  <2> QED
    BY <2>1, <2>2, <2>3, <2>5 DEF Counted
<1>7. ASSUME NEW r \in Req PROVE OwnRow(r) /\ Scored(r)
  BY <1>2, <1>3, <1>4 DEF OwnRow, Scored, None
<1> QED
  BY <1>1, <1>5, <1>6, <1>7 DEF Inv

LEMMA InvStep == Inv /\ [Next]_vars => Inv'
<1> SUFFICES ASSUME Inv, [Next]_vars PROVE Inv'
  OBVIOUS
<1>1. TypeOK /\ GivenUpForAReason /\ \A r \in Req : Counted(r) /\ OwnRow(r) /\ Scored(r)
  BY DEF Inv
<1>2. TypeOK'
  BY <1>1, TypeStep
<1>3. \A r \in Req : Counted(r)'
  BY <1>1, <1>2, CountedStep
<1>4. GivenUpForAReason'
  BY <1>1, <1>2, GivenUpStep
<1>5. id' = id
  BY <1>1, <1>2, Abandoned
<1>6. \A r \in Req : OwnRow(r)'
  BY <1>1, <1>5, OwnRowStep
<1>7. \A r \in Req : Scored(r)'
  BY <1>1, ScoredStep
<1> QED
  BY <1>2, <1>3, <1>4, <1>6, <1>7 DEF Inv

LEMMA Invariance == Spec => []Inv
BY InvInit, InvStep, PTL DEF Spec

\* The variables keep their types; no task is retried more often than its
\* max_retries allow.
THEOREM Typing == Spec => []TypeOK
<1>1. Inv => TypeOK
  BY DEF Inv
<1> QED
  BY <1>1, Invariance, PTL

\* A task that ended well has had its effect, and an effect is repeated only
\* for a failed attempt or a dead worker: at most one more row, judgement or
\* message to the bandit for each, whatever the broker redelivers and however
\* the tasks of the requests interleave.
THEOREM EffectsPerAttempt == Spec => []OncePerAttempt
<1>1. ASSUME Inv PROVE OncePerAttempt
  <2>1. /\ faults \in Nat /\ rows \in [Req -> Seq(Row)] /\ told \in [Req -> Seq(Nat)]
        /\ judged \in [Req -> Nat] /\ asked \in [Req -> Nat] /\ "safety" \in Kind
        /\ retries \in [Kind -> [Req -> Nat]]
        /\ \A r \in Req : retries["safety"][r] <= MaxRetries["safety"]
    BY <1>1 DEF Inv, TypeOK, Kind
  <2>2. ASSUME NEW r \in Req
        PROVE  /\ task["log"][r] = "done" => rows[r] # <<>>
               /\ task["quality"][r] = "done" => told[r] # <<>>
               /\ task["safety"][r] = "done" => asked[r] > 0
               /\ Len(rows[r]) <= 1 + faults
               /\ judged[r] <= 1 + faults
               /\ Len(told[r]) <= 1 + faults
               /\ asked[r] <= 1 + MaxRetries["safety"] + faults
    <3>1. Paid(r) /\ Did(r) /\ ToldOnce(r)
      BY <1>1 DEF Inv, Counted
    <3>2. PICK l \in Nat, t \in Nat, j \in Nat, a \in Nat :
            l = Len(rows[r]) /\ t = Len(told[r]) /\ j = judged[r] /\ a = asked[r]
      <4>1. Len(rows[r]) \in Nat /\ Len(told[r]) \in Nat
        <5>1. rows[r] \in Seq(Row) /\ told[r] \in Seq(Nat)
          BY <2>1
        <5> QED
          BY <5>1
      <4>2. judged[r] \in Nat /\ asked[r] \in Nat
        BY <2>1
      <4> QED
        BY <4>1, <4>2
    <3>3. PICK n \in Nat, m \in Nat, f \in Nat :
            n = retries["safety"][r] /\ m = MaxRetries["safety"] /\ f = faults /\ n <= m
      <4>1. retries["safety"][r] \in Nat /\ MaxRetries["safety"] \in Nat
        BY <2>1, Counts
      <4> QED
        BY <2>1, <4>1
    <3>4. PICK x \in {0, 1}, y \in {0, 1}, z \in {0, 1} :
            x = Due("log", r) /\ y = Due("quality", r) /\ z = Due("safety", r)
      BY DEF Due
    <3>5. l <= 1 + f /\ j <= 1 + f /\ a <= 1 + m + f
      <4>1. l + x <= 1 + f /\ j + y <= 1 + f /\ a + z <= 1 + n + f
        BY <3>1, <3>2, <3>3, <3>4 DEF Paid
      <4> QED
        BY <3>3, <4>1
    <3>6. task["log"][r] = "done" => l >= 1
      BY <3>1, <3>2 DEF Did
    <3>7. task["quality"][r] = "done" => t >= 1
      BY <3>1, <3>2 DEF Did
    <3>8. task["safety"][r] = "done" => a >= 1
      BY <3>1, <3>2 DEF Did
    <3>9. t <= 1 + f
      <4>1. PICK u \in {0, 1} : u = ToTell(r)
        BY DEF ToTell
      <4>2. t + u <= 1 + f
        BY <3>1, <3>2, <3>3, <4>1 DEF ToldOnce
      <4> QED
        BY <4>2
    <3>10. (l >= 1 => rows[r] # <<>>) /\ (t >= 1 => told[r] # <<>>)
      <4>1. Len(<<>>) = 0
        OBVIOUS
      <4> QED
        BY <3>2, <4>1
    <3> QED
      BY <3>2, <3>3, <3>5, <3>6, <3>7, <3>8, <3>9, <3>10
  <2> QED
    BY <2>2 DEF OncePerAttempt
<1> QED
  BY <1>1, Invariance, PTL

\* Without a failure or a crash no task is given up whose statement could
\* succeed, and the judging task is never given up: what update_db_quality
\* refuses does not keep the score from the bandit.
THEOREM OnlyForAReason == Spec => []GivenUpForAReason
<1>1. Inv => GivenUpForAReason
  BY DEF Inv
<1> QED
  BY <1>1, Invariance, PTL

\* Scores and verdicts are only ever about a request with the row's own id;
\* and when the UPDATE of a request with an id of its own came in time and
\* succeeded, the log and the bandit end with one and the same score, also
\* when crashes made the judge answer more than once.
THEOREM ScoresAgree == Spec => []SameScore
<1>1. ASSUME Inv PROVE SameScore
  <2>1. ASSUME NEW r \in Req PROVE DOMAIN rows[r] = 1 .. Len(rows[r])
    <3>1. rows[r] \in Seq(Row)
      BY <1>1 DEF Inv, TypeOK
    <3> QED
      BY <3>1, LenProperties
  <2>2. ASSUME NEW r \in Req, NEW i \in DOMAIN rows[r]
        PROVE  /\ rows[r][i].scorer # None => id[rows[r][i].scorer] = id[r]
               /\ rows[r][i].flagger # None => id[rows[r][i].flagger] = id[r]
    BY <1>1, <2>1 DEF Inv, OwnRow
  <2>3. ASSUME NEW r \in Req, task["quality"][r] = "done", ~early["quality"][r], Matches(r) = {r},
               NEW i \in DOMAIN rows[r]
        PROVE  rows[r][i].scorer = r /\ rows[r][i].score = Last(told[r])
    <3>1. rows[r][i].scorer = r /\ rows[r][i].score = judged[r]
      BY <1>1, <2>1, <2>3 DEF Inv, Scored
    <3>2. told[r][Len(told[r])] = judged[r]
      BY <1>1, <2>3 DEF Inv, Counted, ToldLast
    <3> QED
      BY <3>1, <3>2 DEF Last
  <2> QED
    BY <2>2, <2>3 DEF SameScore
<1> QED
  BY <1>1, Invariance, PTL

\* No step takes a row from the log, nor a score or a verdict from a row that
\* has one: a redelivered or late UPDATE adds to the rows, and nothing is undone.
THEOREM NothingForgotten == Spec => ScoreIsKept
<1>1. ASSUME TypeOK, [Next]_vars, NEW q \in Req PROVE NeverForgets(rows[q], rows'[q])
  <2>1. rows[q] \in Seq(Row) /\ Len(rows[q]) \in Nat /\ DOMAIN rows[q] = 1 .. Len(rows[q])
    <3>1. rows[q] \in Seq(Row)
      BY <1>1 DEF TypeOK
    <3> QED
      BY <3>1, LenProperties
  <2>2. CASE rows'[q] = rows[q]
    BY <2>1, <2>2 DEF NeverForgets
  <2>3. ASSUME NEW r \in Req, Insert(r) PROVE NeverForgets(rows[q], rows'[q])
    <3>1. CASE q # r
      BY <1>1, <2>2, <2>3, <3>1, RowsInserted
    <3>2. CASE q = r
      <4>1. Len(rows'[q]) = Len(rows[q]) + 1
        BY <1>1, <2>3, <3>2, RowsInserted
      <4>2. \A i \in 1 .. Len(rows[q]) : rows'[q][i] = rows[q][i]
        BY <1>1, <2>3, <3>2, RowsInserted
      <4> QED
        BY <2>1, <4>1, <4>2 DEF NeverForgets
    <3> QED
      BY <3>1, <3>2
  <2>4. ASSUME NEW r \in Req, WriteScore(r) PROVE NeverForgets(rows[q], rows'[q])
    <3>1. Len(rows'[q]) = Len(rows[q])
      BY <1>1, <2>4, RowsScored
    <3>2. ASSUME NEW i \in 1 .. Len(rows[q])
          PROVE  /\ rows[q][i].scorer # None => rows'[q][i].scorer # None
                 /\ rows[q][i].flagger # None => rows'[q][i].flagger # None
      <4>1. /\ rows'[q][i].flagger = rows[q][i].flagger
            /\ q \in Matches(r) => rows'[q][i].scorer = r
            /\ q \notin Matches(r) => rows'[q][i] = rows[q][i]
        BY <1>1, <2>4, RowsScored
      <4>2. r # None
        BY InferenceLogAssumption
      <4> QED
        BY <4>1, <4>2
    <3> QED
      BY <2>1, <3>1, <3>2 DEF NeverForgets
  <2>5. ASSUME NEW r \in Req, Flag(r) PROVE NeverForgets(rows[q], rows'[q])
    <3>0. rows' = Updated(r, [row \in Row |-> [row EXCEPT !.flagger = r]])
      BY <2>5 DEF Flag
    <3>1. Len(rows'[q]) = Len(rows[q])
      BY <1>1, <3>0, RowsFlagged
    <3>2. ASSUME NEW i \in 1 .. Len(rows[q])
          PROVE  /\ rows[q][i].scorer # None => rows'[q][i].scorer # None
                 /\ rows[q][i].flagger # None => rows'[q][i].flagger # None
      <4>1. /\ rows'[q][i].scorer = rows[q][i].scorer
            /\ q \in Matches(r) => rows'[q][i].flagger = r
            /\ q \notin Matches(r) => rows'[q][i] = rows[q][i]
        BY <1>1, <3>0, RowsFlagged
      <4>2. r # None
        BY InferenceLogAssumption
      <4> QED
        BY <4>1, <4>2
    <3> QED
      BY <2>1, <3>1, <3>2 DEF NeverForgets
  <2> QED
    BY <1>1, <2>2, <2>3, <2>4, <2>5, RowsChange
<1>2. TypeOK /\ [Next]_vars => [\A r \in Req : NeverForgets(rows[r], rows'[r])]_vars
  BY <1>1
<1> QED
  BY <1>2, Typing, PTL DEF Spec, ScoreIsKept
=============================================================================
