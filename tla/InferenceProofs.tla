--------------------------- MODULE InferenceProofs ---------------------------
(***************************************************************************)
(* Theorems about Inference, for any requests, prompts and multipliers,    *)
(* any number of retries and faults.                                       *)
(***************************************************************************)
EXTENDS Inference, TLAPS

-----------------------------------------------------------------------------
(* What the workers can get of the messages of an answer.                  *)

Label == {"log", "quality", "mab", "cache", "budget", "safety", "trace"}

\* One message, and two runs of messages one after the other.
LEMMA One ==
    ASSUME NEW m \in Label
    PROVE  <<m>> \in Seq(Label) /\ Len(<<m>>) = 1 /\ <<m>>[1] = m
OBVIOUS

\* One sequence after another.
LEMMA Joined ==
    ASSUME NEW s \in Seq(Label), NEW t \in Seq(Label)
    PROVE  /\ s \o t \in Seq(Label)
           /\ Len(s \o t) = Len(s) + Len(t)
           /\ \A i \in 1 .. Len(s) : (s \o t)[i] = s[i]
           /\ \A i \in Len(s) + 1 .. Len(s \o t) : /\ i - Len(s) \in 1 .. Len(t)
                                                   /\ (s \o t)[i] = t[i - Len(s)]
OBVIOUS

\* At most one message.
LEMMA OnlyOne ==
    ASSUME NEW c \in BOOLEAN, NEW m \in Label
    PROVE  /\ Only(c, m) \in Seq(Label)
           /\ Len(Only(c, m)) = IF c THEN 1 ELSE 0
           /\ \A i \in 1 .. Len(Only(c, m)) : c /\ Only(c, m)[i] = m
BY DEF Only

\* What is said of all of an answer's messages: how they are ordered.
Ordered(s, a, paid) ==
    /\ s \in Seq(Label)
    /\ Len(s) >= 2 /\ s[1] = "log" /\ s[2] \in {"quality", "mab"}
    /\ \A i \in 1 .. Len(s) :
          /\ s[i] = "cache" => HasText(a) /\ i > 2
          /\ s[i] = "budget" => /\ paid /\ i > 2
                                /\ HasText(a) => \E j \in 1 .. i - 1 : s[j] = "cache"

\* The log comes first, then what the bandit learns from; the charge comes after
\* them and after the cache's message.
LEMMA Order ==
    ASSUME NEW a \in Answer, NEW sampled \in BOOLEAN, NEW paid \in BOOLEAN,
           NEW checked \in BOOLEAN, NEW unsure \in BOOLEAN,
           NEW s, s = Messages(a, sampled, unsure, paid, checked)
    PROVE  Ordered(s, a, paid)
<1> DEFINE l == <<"log">>
           u == Feedback(sampled, unsure)
           f == l \o u
           c == Only(HasText(a), "cache")
           b == Only(paid, "budget")
           x == Only(checked, "safety")
           y == Only(HasText(a), "trace")
<1>1. HasText(a) \in BOOLEAN
  BY DEF HasText
<1>2. l \in Seq(Label) /\ Len(l) = 1 /\ l[1] = "log"
  BY One DEF Label
<1>3. /\ u \in Seq(Label) /\ Len(u) >= 1
      /\ \A i \in 1 .. Len(u) : u[i] \in {"quality", "mab"}
  <2>1. CASE ~sampled
    BY <2>1, One DEF Feedback, Label
  <2>2. CASE sampled /\ ~unsure
    BY <2>2, One DEF Feedback, Label
  <2>3. CASE sampled /\ unsure
    <3>1. u = <<"quality", "mab">>
      BY <2>3 DEF Feedback
    <3> QED
      BY <3>1 DEF Label
  <2> QED
    BY <2>1, <2>2, <2>3
<1>4. /\ c \in Seq(Label) /\ Len(c) = IF HasText(a) THEN 1 ELSE 0
      /\ \A i \in 1 .. Len(c) : c[i] = "cache"
  BY <1>1, OnlyOne DEF Label
<1>5. /\ b \in Seq(Label) /\ Len(b) = IF paid THEN 1 ELSE 0
      /\ \A i \in 1 .. Len(b) : b[i] = "budget"
  BY OnlyOne DEF Label
<1>6. x \in Seq(Label) /\ \A i \in 1 .. Len(x) : x[i] = "safety"
  BY OnlyOne DEF Label
<1>7. y \in Seq(Label) /\ \A i \in 1 .. Len(y) : y[i] = "trace"
  BY <1>1, OnlyOne DEF Label
<1>8. s = (((f \o c) \o b) \o x) \o y
  BY DEF Messages
<1> HIDE DEF l, u, c, b, x, y
<1>9. /\ f \in Seq(Label) /\ Len(f) >= 2 /\ f[1] = "log"
      /\ \A i \in 2 .. Len(f) : f[i] \in {"quality", "mab"}
  <2>1. /\ f \in Seq(Label) /\ Len(f) = 1 + Len(u) /\ f[1] = l[1]
        /\ \A i \in 2 .. Len(f) : i - 1 \in 1 .. Len(u) /\ f[i] = u[i - 1]
    BY <1>2, <1>3, Joined
  <2> HIDE DEF f, l
  <2>2. Len(u) \in Nat
    BY <1>3
  <2> QED
    BY <1>2, <1>3, <2>1, <2>2
<1> HIDE DEF f
<1> DEFINE g == f \o c
<1>10. /\ g \in Seq(Label) /\ Len(g) >= 2 /\ g[1] = "log" /\ g[2] \in {"quality", "mab"}
       /\ \A i \in 1 .. Len(g) : /\ g[i] # "budget"
                                 /\ g[i] = "cache" => HasText(a) /\ i > 2
       /\ HasText(a) => \E j \in 1 .. Len(g) : g[j] = "cache"
  <2>1. /\ g \in Seq(Label) /\ Len(g) = Len(f) + Len(c)
        /\ \A i \in 1 .. Len(f) : g[i] = f[i]
        /\ \A i \in Len(f) + 1 .. Len(g) : /\ i - Len(f) \in 1 .. Len(c)
                                           /\ g[i] = c[i - Len(f)]
    BY <1>4, <1>9, Joined
  <2> HIDE DEF g
  <2>2. Len(f) \in Nat /\ Len(c) \in Nat /\ Len(g) \in Nat
    BY <1>4, <1>9, <2>1
  <2>3. g[1] = "log" /\ g[2] \in {"quality", "mab"}
    BY <2>1, <2>2, <1>9
  <2>4. ASSUME NEW i \in 1 .. Len(g)
        PROVE  g[i] # "budget" /\ (g[i] = "cache" => HasText(a) /\ i > 2)
    <3>1. CASE i <= Len(f)
      BY <2>1, <2>2, <1>9, <3>1
    <3>2. CASE i > Len(f)
      <4>1. i - Len(f) \in 1 .. Len(c) /\ g[i] = c[i - Len(f)]
        BY <2>1, <2>2, <3>2
      <4> QED
        BY <1>1, <1>4, <1>9, <2>2, <3>2, <4>1
    <3> QED
      BY <2>2, <3>1, <3>2
  <2>5. HasText(a) => \E j \in 1 .. Len(g) : g[j] = "cache"
    <3>1. HasText(a) => /\ Len(f) + 1 \in Len(f) + 1 .. Len(g)
                        /\ Len(f) + 1 \in 1 .. Len(g) /\ Len(c) = 1
      BY <1>4, <2>1, <2>2
    <3>2. HasText(a) => g[Len(f) + 1] = c[1]
      BY <2>1, <2>2, <3>1
    <3> QED
      BY <1>4, <3>1, <3>2
  <2> QED
    BY <1>9, <2>1, <2>2, <2>3, <2>4, <2>5
<1> HIDE DEF g
<1> DEFINE h == g \o b
<1>11. /\ h \in Seq(Label) /\ Len(h) = Len(g) + Len(b)
       /\ \A i \in 1 .. Len(g) : h[i] = g[i]
       /\ \A i \in Len(g) + 1 .. Len(h) : h[i] = "budget" /\ paid
  <2>1. /\ h \in Seq(Label) /\ Len(h) = Len(g) + Len(b)
        /\ \A i \in 1 .. Len(g) : h[i] = g[i]
        /\ \A i \in Len(g) + 1 .. Len(h) : /\ i - Len(g) \in 1 .. Len(b)
                                           /\ h[i] = b[i - Len(g)]
    BY <1>5, <1>10, Joined
  <2> QED
    BY <2>1, <1>5
<1> HIDE DEF h
<1> DEFINE k == h \o x
<1>12. /\ k \in Seq(Label) /\ Len(k) >= Len(h)
       /\ \A i \in 1 .. Len(h) : k[i] = h[i]
       /\ \A i \in Len(h) + 1 .. Len(k) : k[i] = "safety"
  <2>1. /\ k \in Seq(Label) /\ Len(k) = Len(h) + Len(x)
        /\ \A i \in 1 .. Len(h) : k[i] = h[i]
        /\ \A i \in Len(h) + 1 .. Len(k) : /\ i - Len(h) \in 1 .. Len(x)
                                           /\ k[i] = x[i - Len(h)]
    BY <1>6, <1>11, Joined
  <2> QED
    BY <2>1, <1>6, <1>11
<1> HIDE DEF k
<1>13. /\ s \in Seq(Label) /\ Len(s) >= Len(k)
       /\ \A i \in 1 .. Len(k) : s[i] = k[i]
       /\ \A i \in Len(k) + 1 .. Len(s) : s[i] = "trace"
  <2>1. s = k \o y
    BY <1>8 DEF g, h, k
  <2>2. /\ s \in Seq(Label) /\ Len(s) = Len(k) + Len(y)
        /\ \A i \in 1 .. Len(k) : s[i] = k[i]
        /\ \A i \in Len(k) + 1 .. Len(s) : /\ i - Len(k) \in 1 .. Len(y)
                                           /\ s[i] = y[i - Len(k)]
    BY <1>7, <1>12, <2>1, Joined
  <2> QED
    BY <2>2, <1>7, <1>12
<1>14. ASSUME NEW i \in 1 .. Len(s)
       PROVE  \/ i <= Len(g) /\ s[i] = g[i]
              \/ i > Len(g) /\ s[i] = "budget" /\ paid
              \/ i > Len(g) /\ s[i] \in {"safety", "trace"}
  <2>0. Len(g) \in Nat /\ Len(b) \in Nat /\ Len(k) \in Nat /\ Len(s) \in Nat
    BY <1>5, <1>10, <1>12, <1>13
  <2>1. CASE i <= Len(g)
    <3>1. i \in 1 .. Len(h) /\ i \in 1 .. Len(k) /\ i \in 1 .. Len(g)
      BY <2>0, <2>1, <1>11, <1>12
    <3> QED
      BY <3>1, <1>11, <1>12, <1>13
  <2>2. CASE i > Len(g) /\ i <= Len(h)
    <3>1. i \in Len(g) + 1 .. Len(h) /\ i \in 1 .. Len(h) /\ i \in 1 .. Len(k)
      BY <2>0, <2>2, <1>11, <1>12
    <3> QED
      BY <3>1, <2>2, <1>11, <1>12, <1>13
  <2>3. CASE i > Len(h)
    <3>1. i > Len(g)
      BY <2>0, <2>3, <1>11
    <3>2. i \in Len(h) + 1 .. Len(k) \/ i \in Len(k) + 1 .. Len(s)
      BY <2>0, <2>3, <1>11, <1>12
    <3>3. i \in Len(h) + 1 .. Len(k) => i \in 1 .. Len(k)
      BY <2>0, <1>11
    <3> QED
      BY <3>1, <3>2, <3>3, <1>12, <1>13
  <2> QED
    BY <2>0, <2>1, <2>2, <2>3, <1>11
<1>15. Len(s) >= Len(g)
  BY <1>5, <1>10, <1>11, <1>12, <1>13
<1>16. s[1] = "log" /\ s[2] \in {"quality", "mab"} /\ Len(s) >= 2
       /\ \A i \in 1 .. Len(g) : i \in 1 .. Len(s) /\ s[i] = g[i]
  <2>1. \A i \in 1 .. Len(g) : i \in 1 .. Len(s) /\ s[i] = g[i]
    BY <1>10, <1>13, <1>14, <1>15
  <2> QED
    BY <1>10, <1>13, <1>15, <2>1
<1>17. ASSUME NEW i \in 1 .. Len(s), s[i] = "cache" PROVE HasText(a) /\ i > 2
  <2>1. i \in 1 .. Len(g) /\ g[i] = "cache"
    BY <1>10, <1>14, <1>17
  <2> QED
    BY <1>10, <2>1
<1>18. ASSUME NEW i \in 1 .. Len(s), s[i] = "budget"
       PROVE  /\ paid /\ i > 2
              /\ HasText(a) => \E j \in 1 .. i - 1 : s[j] = "cache"
  <2>1. Len(g) \in Nat /\ i \in Nat /\ i >= 1
    BY <1>10, <1>13
  <2>2. i <= Len(g) => g[i] # "budget"
    BY <1>10, <2>1
  <2>3. paid /\ i > Len(g)
    BY <1>14, <1>18, <2>1, <2>2
  <2>4. ASSUME HasText(a) PROVE \E j \in 1 .. i - 1 : s[j] = "cache"
    <3>1. PICK j \in 1 .. Len(g) : g[j] = "cache"
      BY <1>10, <2>4
    <3>2. j \in 1 .. i - 1
      BY <2>1, <2>3, <3>1
    <3>3. s[j] = "cache"
      BY <1>16, <3>1
    <3> QED
      BY <3>2, <3>3
  <2>5. i > 2
    BY <1>10, <2>1, <2>3
  <2> QED
    BY <2>3, <2>4, <2>5
<1> QED
  BY <1>13, <1>16, <1>17, <1>18 DEF Ordered

\* What got through of the messages of an answer.
Recordable(ms) == "log" \in ToSet(ms) /\ ToSet(ms) \cap {"quality", "mab"} # {}

\* What a prefix of the messages contains.
LEMMA Delivered ==
    ASSUME NEW a \in Answer, NEW sampled \in BOOLEAN, NEW paid \in BOOLEAN,
           NEW checked \in BOOLEAN, NEW unsure \in BOOLEAN,
           NEW ms \in Prefixes(Messages(a, sampled, unsure, paid, checked))
    PROVE  /\ ToSet(ms) \subseteq Label
           /\ Contains(ms, "cache") <=> "cache" \in ToSet(ms)
           /\ Contains(ms, "cache") => HasText(a) /\ Recordable(ms)
           /\ "budget" \in ToSet(ms) => /\ paid /\ Recordable(ms)
                                        /\ HasText(a) => Contains(ms, "cache")
<1>0. PICK s : s = Messages(a, sampled, unsure, paid, checked)
  OBVIOUS
<1>1. Ordered(s, a, paid)
  BY <1>0, Order
<1>2. PICK n \in 0 .. Len(s) : ms = SubSeq(s, 1, n)
  BY <1>0 DEF Prefixes
<1>3. n \in Nat /\ n <= Len(s) /\ Len(s) \in Nat
  BY <1>1, <1>2 DEF Ordered
<1>4. /\ ms \in Seq(Label) /\ Len(ms) = n
      /\ \A i \in 1 .. n : ms[i] = s[i]
  BY <1>1, <1>2, <1>3 DEF Ordered
<1>5. \A m : m \in ToSet(ms) <=> \E i \in 1 .. n : ms[i] = m
  BY <1>4 DEF ToSet
<1>6. \A m : Contains(ms, m) <=> m \in ToSet(ms)
  BY <1>4, <1>5 DEF Contains
<1>7. ASSUME NEW i \in 1 .. n, i > 2 PROVE Recordable(ms)
  <2>1. 1 \in 1 .. n /\ 2 \in 1 .. n
    BY <1>3, <1>7
  <2>2. ms[1] = "log" /\ ms[2] \in {"quality", "mab"}
    BY <1>1, <1>4, <2>1 DEF Ordered
  <2>3. "log" \in ToSet(ms) /\ ms[2] \in ToSet(ms)
    BY <1>5, <2>1, <2>2
  <2> QED
    BY <2>2, <2>3 DEF Recordable
<1>8. ToSet(ms) \subseteq Label
  BY <1>4, <1>5
<1>9. ASSUME "cache" \in ToSet(ms) PROVE HasText(a) /\ Recordable(ms)
  <2>1. PICK i \in 1 .. n : ms[i] = "cache"
    BY <1>5, <1>9
  <2>2. HasText(a) /\ i > 2
    BY <1>1, <1>3, <1>4, <2>1 DEF Ordered
  <2> QED
    BY <1>7, <2>2
<1>10. ASSUME "budget" \in ToSet(ms)
       PROVE  paid /\ Recordable(ms) /\ (HasText(a) => "cache" \in ToSet(ms))
  <2>1. PICK i \in 1 .. n : ms[i] = "budget"
    BY <1>5, <1>10
  <2>2. paid /\ i > 2 /\ (HasText(a) => \E j \in 1 .. i - 1 : s[j] = "cache")
    BY <1>1, <1>3, <1>4, <2>1 DEF Ordered
  <2>3. HasText(a) => \E j \in 1 .. n : ms[j] = "cache"
    BY <1>3, <1>4, <2>2
  <2> QED
    BY <1>5, <1>7, <2>2, <2>3
<1> QED
  BY <1>6, <1>8, <1>9, <1>10

\* A cache hit is only logged.
LEMMA HitIsLogged ==
    ASSUME NEW ms \in Prefixes(<<"log">>)
    PROVE  ToSet(ms) \subseteq {"log"}
<1> DEFINE l == <<"log">>
<1>1. l \in Seq({"log"}) /\ Len(l) = 1
  OBVIOUS
<1>2. PICK n \in 0 .. 1 : ms = SubSeq(l, 1, n)
  BY <1>1 DEF Prefixes
<1> HIDE DEF l
<1>3. ms \in Seq({"log"})
  BY <1>1, <1>2
<1> QED
  BY <1>3 DEF ToSet

-----------------------------------------------------------------------------
(* The invariant.                                                          *)

\* The client of r got a text, it is logged and the bandit hears of it.
OnRecord(r) ==
    /\ pc[r] = "replied" /\ answer[r] = "text"
    /\ "log" \in sent[r] /\ sent[r] \cap {"quality", "mab"} # {}

\* Before the response nothing is published, no more attempts are made than the
\* retry policy allows, and the response has an answer to give.
Underway(r) ==
    /\ pc[r] \in Awaits => sent[r] = {} /\ task[r] = None
    /\ pc[r] \in {"new", "cache", "select", "price", "chaos"} => tries[r] = 0
    /\ pc[r] = "http" => tries[r] <= 1
    /\ pc[r] = "respond" => answer[r] \in Answer

\* From the choice of the provider to the response its prices are watched.
Watched(r) ==
    /\ pc[r] \in {"price", "chaos", "http", "respond"} =>
          prov[r] \in Provider /\ price[prov[r]] \in seen[r]
    /\ pc[r] \in {"chaos", "http", "respond"} => mult[r] \in seen[r]

Charged(r) ==
    "budget" \in sent[r] =>
        /\ pc[r] = "replied" /\ "log" \in sent[r]
        /\ sent[r] \cap {"quality", "mab"} # {}
        /\ answer[r] = "text" => "cache" \in sent[r]

\* Only a request on record has its answer put up for caching, ...
Filled(r) == task[r] # None => OnRecord(r)

\* ... and only such an answer, to that prompt, is in the cache.
Replayed(p) == cache[p] # None => prompt[cache[p]] = p /\ OnRecord(cache[p])

PerRequest(r) == Underway(r) /\ Watched(r) /\ Charged(r) /\ Filled(r)

Inv == /\ TypeOK
       /\ \A r \in Req : PerRequest(r)
       /\ \A p \in Prompt : Replayed(p)

-----------------------------------------------------------------------------
(* The initial states and the steps that touch no request of the route.    *)

LEMMA InvInit == Init => Inv
<1> SUFFICES ASSUME Init PROVE Inv
  OBVIOUS
<1>1. TypeOK
  BY InferenceAssumption DEF Init, TypeOK, PC, Awaits
<1>2. ASSUME NEW r \in Req PROVE PerRequest(r)
  BY <1>2 DEF Init, PerRequest, Underway, Watched, Charged, Filled
<1>3. ASSUME NEW p \in Prompt PROVE Replayed(p)
  BY <1>3 DEF Init, Replayed
<1> QED
  BY <1>1, <1>2, <1>3 DEF Inv

\* The variables of request q do not change.
Rests(q) ==
    /\ pc'[q] = pc[q] /\ answer'[q] = answer[q] /\ sent'[q] = sent[q]
    /\ prov'[q] = prov[q] /\ mult'[q] = mult[q] /\ tries'[q] = tries[q]
    /\ seen'[q] = seen[q] /\ task'[q] = task[q]

\* A step of the route for r, or its death: what it leaves alone keeps what the
\* invariant says of the others and of the cache.
LEMMA RouteStep ==
    ASSUME Inv, NEW r \in Req, pc[r] \in Awaits, UNCHANGED <<cache, price, prompt>>,
           \A q \in Req \ {r} : Rests(q), TypeOK', PerRequest(r)'
    PROVE  Inv'
<1>1. ASSUME NEW q \in Req PROVE PerRequest(q)'
  <2>1. CASE q = r
    BY <2>1
  <2>2. CASE q # r
    <3>1. PerRequest(q)
      BY DEF Inv
    <3> QED
      BY <2>2, <3>1
      DEF Rests, PerRequest, Underway, Watched, Charged, Filled, OnRecord
  <2> QED
    BY <2>1, <2>2
<1>2. ASSUME NEW p \in Prompt PROVE Replayed(p)'
  <2> SUFFICES ASSUME cache[p] # None PROVE Replayed(p)'
    BY DEF Replayed
  <2>1. cache[p] \in Req /\ Replayed(p)
    BY DEF Inv, TypeOK
  <2>2. cache[p] # r
    BY <2>1 DEF Replayed, OnRecord, Awaits
  <2> QED
    BY <2>1, <2>2 DEF Rests, Replayed, OnRecord
<1> QED
  BY <1>1, <1>2 DEF Inv

\* Before the response a step of the route publishes nothing.
LEMMA QuietStep ==
    ASSUME Inv, NEW r \in Req,
           Admit(r) \/ Select(r) \/ ReadPrice(r) \/ ReadChaos(r) \/ Attempt(r) \/ Die(r)
    PROVE  Inv'
<1> USE InferenceAssumption
<1>1. TypeOK /\ PerRequest(r)
  BY DEF Inv
<1>2. CASE Admit(r)
  <2>1. TypeOK'
    BY <1>1, <1>2 DEF Admit, Goto, TypeOK, PC, Awaits, call, work, history
  <2>2. PerRequest(r)'
    BY <1>1, <1>2 DEF Admit, Goto, TypeOK, PerRequest, Underway, Watched, Charged,
          Filled, OnRecord, Awaits, call, work, history
  <2>3. pc[r] \in Awaits /\ UNCHANGED <<cache, price, prompt>>
        /\ \A q \in Req \ {r} : Rests(q)
    BY <1>1, <1>2 DEF Admit, Goto, TypeOK, Awaits, Rests, call, work, history
  <2> QED
    BY <2>1, <2>2, <2>3, RouteStep
<1>3. CASE Select(r)
  <2>1. TypeOK'
    BY <1>1, <1>3 DEF Select, Goto, TypeOK, PC, Awaits, call, work, history
  <2>2. PerRequest(r)'
    BY <1>1, <1>3 DEF Select, Goto, TypeOK, PerRequest, Underway, Watched, Charged,
          Filled, OnRecord, Awaits, call, work, history
  <2>3. pc[r] \in Awaits /\ UNCHANGED <<cache, price, prompt>>
        /\ \A q \in Req \ {r} : Rests(q)
    BY <1>1, <1>3 DEF Select, Goto, TypeOK, Awaits, Rests, call, work, history
  <2> QED
    BY <2>1, <2>2, <2>3, RouteStep
<1>4. CASE ReadPrice(r)
  <2>1. TypeOK' /\ mult'[r] \in seen'[r]
    BY <1>1, <1>4 DEF ReadPrice, PriceOf, Goto, TypeOK, PC, Awaits, call, work, history,
          PerRequest, Watched
  <2>2. PerRequest(r)'
    BY <1>1, <1>4, <2>1 DEF ReadPrice, Goto, TypeOK, PerRequest, Underway, Watched,
          Charged, Filled, OnRecord, Awaits, call, work, history
  <2>3. pc[r] \in Awaits /\ UNCHANGED <<cache, price, prompt>>
        /\ \A q \in Req \ {r} : Rests(q)
    BY <1>1, <1>4 DEF ReadPrice, Goto, TypeOK, Awaits, Rests, call, work, history
  <2> QED
    BY <2>1, <2>2, <2>3, RouteStep
<1>5. CASE ReadChaos(r)
  <2>1. TypeOK'
    BY <1>1, <1>5 DEF ReadChaos, Goto, TypeOK, PC, Awaits, Answer, call, work, history
  <2>2. PerRequest(r)'
    BY <1>1, <1>5 DEF ReadChaos, Goto, TypeOK, PerRequest, Underway, Watched, Charged,
          Filled, OnRecord, Awaits, Answer, call, work, history
  <2>3. pc[r] \in Awaits /\ UNCHANGED <<cache, price, prompt>>
        /\ \A q \in Req \ {r} : Rests(q)
    BY <1>1, <1>5 DEF ReadChaos, Goto, TypeOK, Awaits, Rests, call, work, history
  <2> QED
    BY <2>1, <2>2, <2>3, RouteStep
<1>6. CASE Attempt(r)
  <2>1. tries[r] \in 0 .. 1
    BY <1>1, <1>6 DEF Attempt, TypeOK, PerRequest, Underway
  <2>2. TypeOK'
    BY <1>1, <1>6, <2>1 DEF Attempt, Goto, TypeOK, PC, Awaits, work, history
  <2>3. PerRequest(r)'
    BY <1>1, <1>6, <2>1 DEF Attempt, OnceMore, Goto, TypeOK, PerRequest, Underway,
          Watched, Charged, Filled, OnRecord, Awaits, work, history
  <2>4. pc[r] \in Awaits /\ UNCHANGED <<cache, price, prompt>>
        /\ \A q \in Req \ {r} : Rests(q)
    BY <1>1, <1>6 DEF Attempt, Goto, TypeOK, Awaits, Rests, work, history
  <2> QED
    BY <2>2, <2>3, <2>4, RouteStep
<1>7. CASE Die(r)
  <2>1. TypeOK'
    BY <1>1, <1>7 DEF Die, Forget, Goto, TypeOK, PC, Awaits, work
  <2>2. PerRequest(r)'
    BY <1>1, <1>7 DEF Die, Forget, Goto, TypeOK, PerRequest, Underway, Watched, Charged,
          Filled, OnRecord, Awaits, work
  <2>3. pc[r] \in Awaits /\ UNCHANGED <<cache, price, prompt>>
        /\ \A q \in Req \ {r} : Rests(q)
    BY <1>1, <1>7 DEF Die, Forget, Goto, TypeOK, Awaits, Rests, work
  <2> QED
    BY <2>1, <2>2, <2>3, RouteStep
<1> QED
  BY <1>2, <1>3, <1>4, <1>5, <1>6, <1>7

\* A hit ends the request with at most a log message.
LEMMA HitStep ==
    ASSUME Inv, NEW r \in Req, ReadCache(r)
    PROVE  Inv'
<1>1. TypeOK /\ PerRequest(r)
  BY DEF Inv
<1>2. \/ /\ pc' = [pc EXCEPT ![r] = "select"]
         /\ sent' = sent
      \/ /\ pc' = [pc EXCEPT ![r] = "hit"]
         /\ \E m \in SUBSET {"log"} : sent' = [sent EXCEPT ![r] = m]
  BY HitIsLogged DEF ReadCache, Goto
<1>3. /\ pc[r] = "cache"
      /\ UNCHANGED <<cache, price, prompt, prov, mult, tries, answer, work, faults, seen>>
  BY DEF ReadCache, call
<1>4. TypeOK'
  <2>1. sent' \in [Req -> SUBSET {"log", "quality", "mab", "cache", "budget",
                                  "safety", "trace"}]
    <3>1. SUBSET {"log"} \subseteq SUBSET Label /\ sent \in [Req -> SUBSET Label]
      BY <1>1 DEF TypeOK, Label
    <3>2. sent' \in [Req -> SUBSET Label]
      BY <1>2, <3>1
    <3> QED
      BY <3>2 DEF Label
  <2> QED
    BY <1>1, <1>2, <1>3, <2>1 DEF TypeOK, PC, Awaits, work
<1>5. PerRequest(r)'
  BY <1>1, <1>2, <1>3 DEF TypeOK, PerRequest, Underway, Watched, Charged, Filled,
        OnRecord, Awaits, work
<1>6. pc[r] \in Awaits /\ \A q \in Req \ {r} : Rests(q)
  BY <1>1, <1>2, <1>3 DEF TypeOK, Awaits, Rests, work
<1> QED
  BY <1>3, <1>4, <1>5, <1>6, RouteStep

\* The response: what the workers get is a prefix of the answer's messages.
LEMMA RespondStep ==
    ASSUME Inv, NEW r \in Req, Respond(r)
    PROVE  Inv'
<1>1. TypeOK /\ PerRequest(r) /\ pc[r] = "respond"
  BY DEF Inv, Respond
<1> DEFINE a == answer[r]
<1>2. a \in Answer
  BY <1>1 DEF PerRequest, Underway
<1>3. PICK sampled \in {FALSE, HasText(a)}, checked \in {FALSE, HasText(a)},
           paid \in {FALSE, MayCost(r)} :
         \E unsure \in {FALSE, sampled /\ faults < MaxFaults} :
         \E ms \in Prefixes(Messages(a, sampled, unsure, paid, checked)) :
            /\ sent' = [sent EXCEPT ![r] = ToSet(ms)]
            /\ task' = [task EXCEPT ![r] = IF Contains(ms, "cache") THEN "queued" ELSE @]
            /\ faults' = IF unsure THEN faults + 1 ELSE faults
  BY DEF Respond
<1>15. PICK unsure \in {FALSE, sampled /\ faults < MaxFaults} :
         \E ms \in Prefixes(Messages(a, sampled, unsure, paid, checked)) :
            /\ sent' = [sent EXCEPT ![r] = ToSet(ms)]
            /\ task' = [task EXCEPT ![r] = IF Contains(ms, "cache") THEN "queued" ELSE @]
            /\ faults' = IF unsure THEN faults + 1 ELSE faults
  BY <1>3
<1>4. PICK ms \in Prefixes(Messages(a, sampled, unsure, paid, checked)) :
         /\ sent' = [sent EXCEPT ![r] = ToSet(ms)]
         /\ task' = [task EXCEPT ![r] = IF Contains(ms, "cache") THEN "queued" ELSE @]
         /\ faults' = IF unsure THEN faults + 1 ELSE faults
  BY <1>15
<1>5. /\ sampled \in BOOLEAN /\ checked \in BOOLEAN /\ paid \in BOOLEAN
      /\ unsure \in BOOLEAN /\ (unsure => faults < MaxFaults)
  BY DEF HasText, MayCost
<1>6. paid => a # "error"
  BY DEF MayCost
<1>7. /\ ToSet(ms) \subseteq Label
      /\ Contains(ms, "cache") <=> "cache" \in ToSet(ms)
      /\ Contains(ms, "cache") => HasText(a) /\ Recordable(ms)
      /\ "budget" \in ToSet(ms) => /\ paid /\ Recordable(ms)
                                   /\ HasText(a) => Contains(ms, "cache")
  BY <1>2, <1>5, Delivered
<1> DEFINE m == ToSet(ms)
<1>8. /\ m \subseteq Label /\ sent' = [sent EXCEPT ![r] = m]
      /\ task' = [task EXCEPT ![r] = IF "cache" \in m THEN "queued" ELSE @]
  BY <1>4, <1>7
<1>9. /\ "cache" \in m => a = "text" /\ "log" \in m /\ m \cap {"quality", "mab"} # {}
      /\ "budget" \in m => /\ a # "error" /\ "log" \in m /\ m \cap {"quality", "mab"} # {}
                           /\ a = "text" => "cache" \in m
  BY <1>6, <1>7 DEF Recordable, HasText
<1> HIDE DEF m
<1>10. /\ pc' = [pc EXCEPT ![r] = IF answer[r] = "error" THEN "failed" ELSE "replied"]
      /\ prov' = [prov EXCEPT ![r] = None] /\ mult' = [mult EXCEPT ![r] = None]
      /\ tries' = [tries EXCEPT ![r] = 0] /\ seen' = [seen EXCEPT ![r] = {}]
      /\ UNCHANGED <<cache, price, prompt, answer, retries>>
  BY DEF Respond, Forget, Goto
<1>11. TypeOK'
  <2>1. faults' \in 0 .. MaxFaults
    BY <1>1, <1>4, <1>5, InferenceAssumption DEF TypeOK
  <2> QED
    BY <1>1, <1>8, <1>10, <2>1 DEF TypeOK, PC, Awaits, Busy, Label
<1>12. task[r] = None
  BY <1>1 DEF PerRequest, Underway, Awaits
<1>13. PerRequest(r)'
  <2>1. pc'[r] \notin Awaits /\ pc'[r] \notin {"price", "chaos", "http", "respond"}
        /\ pc'[r] \notin {"new", "cache", "select", "price", "chaos"}
    BY <1>1, <1>10 DEF TypeOK, Awaits
  <2>2. Underway(r)' /\ Watched(r)'
    BY <2>1 DEF Underway, Watched
  <2>3. sent'[r] = m /\ answer'[r] = a /\ (a # "error" => pc'[r] = "replied")
    BY <1>1, <1>8, <1>10 DEF TypeOK
  <2>4. Charged(r)'
    BY <1>9, <2>3 DEF Charged
  <2>5. task'[r] # None => "cache" \in m
    BY <1>1, <1>8, <1>12 DEF TypeOK
  <2>6. Filled(r)'
    BY <1>9, <2>3, <2>5 DEF Filled, OnRecord
  <2> QED
    BY <2>2, <2>4, <2>6 DEF PerRequest
<1>14. pc[r] \in Awaits /\ \A q \in Req \ {r} : Rests(q)
  BY <1>1, <1>8, <1>10 DEF TypeOK, Awaits, Rests
<1> QED
  BY <1>10, <1>11, <1>13, <1>14, RouteStep

\* The task that fills the cache and what becomes of its message.
LEMMA WorkerStep ==
    ASSUME Inv, NEW r \in Req, Populate(r) \/ Ack(r) \/ Fail(r) \/ Crash(r)
    PROVE  Inv'
<1> USE InferenceAssumption
<1>1. TypeOK /\ OnRecord(r)
  BY DEF Inv, PerRequest, Filled, Populate, Ack, Fail, Crash, Busy, None
<1>2. UNCHANGED <<price, route, history>>
  BY DEF Populate, Ack, Fail, Crash
<1>3. /\ \E t \in Busy \cup {"done", "gone"} : task' = [task EXCEPT ![r] = t]
      /\ cache' = cache \/ cache' = [cache EXCEPT ![prompt[r]] = r]
  BY DEF Populate, Ack, Fail, Crash, Busy
<1>4. TypeOK'
  <2>1. retries' \in [Req -> 0 .. MaxRetries] /\ faults' \in 0 .. MaxFaults
    BY <1>1 DEF TypeOK, Populate, Ack, Fail, Crash
  <2>2. task' \in [Req -> Busy \cup {None, "done", "gone"}]
    BY <1>1, <1>3 DEF TypeOK
  <2>3. cache' \in [Prompt -> Req \cup {None}]
    BY <1>1, <1>3 DEF TypeOK
  <2> QED
    BY <1>1, <1>2, <2>1, <2>2, <2>3 DEF TypeOK, route, call, history
<1>5. ASSUME NEW q \in Req PROVE PerRequest(q)'
  <2>1. PerRequest(q) /\ (q = r => pc[q] \notin Awaits)
    BY <1>1 DEF Inv, OnRecord, Awaits
  <2>2. q # r => task'[q] = task[q]
    BY <1>1, <1>3 DEF TypeOK
  <2>3. Underway(q)'
    BY <1>2, <2>1, <2>2 DEF PerRequest, Underway, route, call, history
  <2>4. Watched(q)' /\ Charged(q)'
    BY <1>2, <2>1 DEF PerRequest, Watched, Charged, route, call, history
  <2>5. Filled(q)'
    BY <1>1, <1>2, <2>1, <2>2 DEF PerRequest, Filled, OnRecord, route, call, history
  <2> QED
    BY <2>3, <2>4, <2>5 DEF PerRequest
<1>6. ASSUME NEW p \in Prompt PROVE Replayed(p)'
  <2>1. Replayed(p)
    BY DEF Inv
  <2> QED
    BY <1>1, <1>2, <1>3, <2>1 DEF TypeOK, Replayed, OnRecord, route, call, history
<1> QED
  BY <1>4, <1>5, <1>6 DEF Inv

\* A new price is seen by every call under way.
LEMMA PriceStep ==
    ASSUME Inv, NEW new \in [Provider -> Multiplier], Reprice(new)
    PROVE  Inv'
<1>1. TypeOK
  BY DEF Inv
<1>2. /\ price' = new /\ UNCHANGED <<cache, pc, prompt, prov, mult, tries, answer>>
      /\ UNCHANGED <<task, retries, faults, sent>>
      /\ seen' = [r \in Req |-> IF r \in Charging THEN seen[r] \cup {new[prov[r]]}
                                                  ELSE seen[r]]
  BY DEF Reprice, route, call, work
<1>3. ASSUME NEW r \in Req
      PROVE  seen[r] \subseteq seen'[r] /\ seen'[r] \subseteq Multiplier
             /\ (prov[r] \in Provider => new[prov[r]] \in seen'[r])
  <2>1. prov[r] # None => prov[r] \in Provider
    BY <1>1 DEF TypeOK
  <2>2. None \notin Provider
    BY DEF None, Provider
  <2> QED
    BY <1>1, <1>2, <2>1, <2>2 DEF TypeOK, Charging
<1>4. TypeOK'
  BY <1>1, <1>2, <1>3 DEF TypeOK
<1>5. ASSUME NEW r \in Req PROVE PerRequest(r)'
  <2>1. PerRequest(r)
    BY DEF Inv
  <2>2. Watched(r)'
    BY <1>2, <1>3, <2>1 DEF PerRequest, Watched
  <2> QED
    BY <1>2, <2>1, <2>2 DEF PerRequest, Underway, Charged, Filled, OnRecord
<1>6. ASSUME NEW p \in Prompt PROVE Replayed(p)'
  BY <1>2 DEF Inv, Replayed, OnRecord
<1> QED
  BY <1>4, <1>5, <1>6 DEF Inv

\* The steps of Redis and the price feed.
LEMMA RedisStep ==
    ASSUME Inv, \/ \E p \in Prompt : DropCached(p)
                \/ FeedPrices
                \/ \E p \in Provider : DropPrice(p)
    PROVE  Inv'
<1>1. ASSUME NEW p \in Prompt, DropCached(p) PROVE Inv'
  <2>1. TypeOK'
    BY <1>1 DEF Inv, TypeOK, DropCached, route, call, work, history
  <2>2. \A r \in Req : PerRequest(r)'
    BY <1>1 DEF Inv, PerRequest, Underway, Watched, Charged, Filled, OnRecord, DropCached,
          route, call, work, history
  <2>3. \A q \in Prompt : Replayed(q)'
    BY <1>1 DEF Inv, TypeOK, Replayed, OnRecord, DropCached, route, call, work, history
  <2> QED
    BY <2>1, <2>2, <2>3 DEF Inv
<1>2. CASE FeedPrices
  BY <1>2, PriceStep DEF FeedPrices
<1>3. ASSUME NEW p \in Provider, DropPrice(p) PROVE Inv'
  <2>1. [price EXCEPT ![p] = Standard] \in [Provider -> Multiplier]
    BY InferenceAssumption DEF Inv, TypeOK
  <2> QED
    BY <1>3, <2>1, PriceStep DEF DropPrice
<1> QED
  BY <1>1, <1>2, <1>3

LEMMA Invariance == Spec => []Inv
<1>1. Inv /\ [Next]_vars => Inv'
  <2> SUFFICES ASSUME Inv, [Next]_vars PROVE Inv'
    OBVIOUS
  <2>1. ASSUME NEW r \in Req, Handle(r) PROVE Inv'
    BY <2>1, QuietStep, HitStep, RespondStep
    DEF Handle, CallGroq, CallOpenrouter, CallFallback
  <2>2. ASSUME NEW r \in Req, Die(r) PROVE Inv'
    BY <2>2, QuietStep
  <2>3. ASSUME NEW r \in Req, Populate(r) \/ Ack(r) \/ Fail(r) \/ Crash(r) PROVE Inv'
    BY <2>3, WorkerStep
  <2>4. CASE UNCHANGED vars
    BY <2>4 DEF Inv, TypeOK, PerRequest, Underway, Watched, Charged, Filled, Replayed,
          OnRecord, vars, route, call, work, history
  <2> QED
    BY <2>1, <2>2, <2>3, <2>4, RedisStep DEF Next
<1> QED
  BY <1>1, InvInit, PTL DEF Spec

-----------------------------------------------------------------------------
(* The theorems.                                                           *)

\* Every variable keeps its type, and no call makes more than two attempts,
\* whatever the chaos mode, the provider and the transport do to it.
THEOREM Typing == Spec => []TypeOK
<1>1. Inv => TypeOK
  BY DEF Inv
<1> QED
  BY <1>1, Invariance, PTL

\* For any number of requests and prompts, any loss and repetition of the
\* messages, the cache replays a text given for that very prompt, of a request
\* that is logged and that the bandit hears of.
THEOREM FaithfulCache == Spec => []CacheIsFaithful
<1>1. Inv => CacheIsFaithful
  BY DEF Inv, CacheIsFaithful, Replayed, OnRecord
<1> QED
  BY <1>1, Invariance, PTL

\* Whichever message the broker refuses, nobody is charged for an answer that is
\* not logged, learnt from and put up for caching, nor for an error or a hit.
THEOREM ChargeComesLast == Spec => []ChargedLast
<1>1. Inv => ChargedLast
  BY DEF Inv, ChargedLast, PerRequest, Charged
<1> QED
  BY <1>1, Invariance, PTL

\* Whatever the feed writes during a call, its multiplier was its provider's own
\* at some moment since the provider was chosen.
THEOREM PriceIsFair == Spec => []FairPrice
<1>1. Inv => FairPrice
  BY DEF Inv, FairPrice, PerRequest, Watched
<1> QED
  BY <1>1, Invariance, PTL
=============================================================================
