------------------------ MODULE CircuitBreakerProofs ------------------------
(***************************************************************************)
(* Theorems about CircuitBreaker, for any set of primaries, any finite set *)
(* of flows, any threshold and any bound on failed calls.                  *)
(***************************************************************************)
EXTENDS CircuitBreaker, FiniteSetTheorems, TLAPS

-----------------------------------------------------------------------------
(* Types.                                                                  *)

\* The breaker's variables keep their types; HALF_OPEN is never stored.
THEOREM Typing == Spec => []TypeOK
<1>1. Init => TypeOK
  BY BreakerAssumption DEF Init, TypeOK, PC, Provider
<1>2. TypeOK /\ [Next]_vars => TypeOK'
  <2> SUFFICES ASSUME TypeOK, [Next]_vars PROVE TypeOK'
    OBVIOUS
  <2> USE DEF TypeOK, Provider
  <2>1. ASSUME NEW r \in Flow, Start(r) PROVE TypeOK'
    BY <2>1 DEF Start, redis, PC
  <2>2. ASSUME NEW r \in Flow, NEW p \in Provider, StartForced(r, p) PROVE TypeOK'
    BY <2>2 DEF StartForced, redis, PC
  <2>3. ASSUME NEW r \in Flow, NEW p \in Primary, ReadCircuit(r, p) PROVE TypeOK'
    BY <2>3 DEF ReadCircuit, redis, history
  <2>4. ASSUME NEW r \in Flow, Route(r) PROVE TypeOK'
    BY <2>4 DEF Route, Choices, redis, history, PC
  <2>5. ASSUME NEW r \in Flow, CallFails(r) \/ CallSucceeds(r) PROVE TypeOK'
    BY <2>5 DEF CallFails, CallSucceeds, Forget, redis, locals, PC, FailPC
  <2>6. ASSUME NEW r \in Flow, FailureIncr(r) PROVE TypeOK'
    BY <2>6 DEF FailureIncr, history, PC, FailPC
  <2>7. ASSUME NEW r \in Flow, FailureExpire(r) PROVE TypeOK'
    BY <2>7 DEF FailureExpire, locals, PC, FailPC
  <2>8. ASSUME NEW r \in Flow, FailureRead(r) PROVE TypeOK'
    BY <2>8 DEF FailureRead, Finish, redis, history, locals, PC, FailPC
  <2>9. ASSUME NEW r \in Flow, FailureTrip(r) \/ FailureInit(r) \/ SuccessClose(r)
        PROVE  TypeOK'
    BY <2>9 DEF FailureTrip, FailureInit, SuccessClose, SetCircuit, Undone, Finish, PC
  <2>10. ASSUME NEW r \in Flow, SuccessDelete(r) PROVE TypeOK'
    BY <2>10 DEF SuccessDelete, DropCounter, locals, PC
  <2>11. ASSUME NEW r \in Flow, Abort(r) PROVE TypeOK'
    BY <2>11, BreakerAssumption DEF Abort, Mishap, Finish, Forget, Undone, redis, PC
  <2>12. ASSUME NEW p \in Provider, WindowExpires(p) \/ EvictCounter(p) PROVE TypeOK'
    <3>1. DropCounter(p) /\ UNCHANGED <<circuit, pc, locals, failed, wasOpen, wasShut>>
      BY <2>12 DEF WindowExpires, EvictCounter
    <3>2. mishaps' \in 0 .. MaxMishaps
      BY <2>12, BreakerAssumption DEF WindowExpires, EvictCounter, Mishap
    <3> QED
      BY <3>1, <3>2 DEF DropCounter, locals
  <2>13. ASSUME NEW p \in Provider, EvictState(p) PROVE TypeOK'
    BY <2>13, BreakerAssumption DEF EvictState, Mishap, SetCircuit, Undone, locals
  <2>14. CASE UNCHANGED vars
    BY <2>14 DEF vars, redis, locals, history
  <2> QED
    BY <2>1, <2>2, <2>3, <2>4, <2>5, <2>6, <2>7, <2>8, <2>9, <2>10, <2>11,
       <2>12, <2>13, <2>14 DEF Next, Progress
<1> QED
  BY <1>1, <1>2, PTL DEF Spec

-----------------------------------------------------------------------------
(* An OPEN circuit is earned.  The invariant follows a failed call on its  *)
(* way to the state key: the counter never exceeds the failed calls whose  *)
(* INCR has been executed, a recorder's count never exceeds the failed     *)
(* calls, and a recorder about to trip has seen the threshold.             *)

\* Failed calls whose INCR is still due.
Unrecorded(p) == {r \in Flow : pc[r] = "rf_incr" /\ prov[r] = p}

CountedPC == {"rf_expire", "rf_read", "rf_init", "rf_trip"}

CounterOK ==
    \A p \in Provider : failures[p] + Cardinality(Unrecorded(p)) <= failed[p]

CountOK ==
    \A r \in Flow : /\ pc[r] \in CountedPC => count[r] <= failed[prov[r]]
                    /\ pc[r] = "rf_trip"   => Threshold <= failed[prov[r]]

EarnedInv == TypeOK /\ CounterOK /\ CountOK /\ OpenIsEarned

\* The sets the invariant counts are finite.
LEMMA UnrecordedFinite ==
    \A p : IsFiniteSet(Unrecorded(p)) /\ Cardinality(Unrecorded(p)) \in Nat
<1>1. TAKE p
<1>2. IsFiniteSet(Unrecorded(p))
  BY FS_Subset, BreakerAssumption DEF Unrecorded
<1> QED
  BY <1>2, FS_CardinalityType

\* A step that only takes flows out of rf_incr, lets no counter grow and
\* records no new failed call keeps the counters below the failed calls.
LEMMA CounterBelow ==
    ASSUME TypeOK, TypeOK', failed' = failed, NEW p \in Provider,
           failures'[p] <= failures[p],
           failures[p] + Cardinality(Unrecorded(p)) <= failed[p],
           Unrecorded(p)' \subseteq Unrecorded(p)
    PROVE  failures'[p] + Cardinality(Unrecorded(p)') <= failed'[p]
<1>1. Cardinality(Unrecorded(p)') <= Cardinality(Unrecorded(p))
  BY UnrecordedFinite, FS_Subset
<1>2. Cardinality(Unrecorded(p)) \in Nat /\ Cardinality(Unrecorded(p)') \in Nat
  BY UnrecordedFinite, FS_Subset, FS_CardinalityType
<1>3. failures[p] \in Nat /\ failures'[p] \in Nat /\ failed[p] \in Nat
  BY DEF TypeOK
<1> QED
  BY <1>1, <1>2, <1>3

\* The counters stay below the failed calls in every step.
LEMMA CounterStep ==
    ASSUME TypeOK, TypeOK', CounterOK, [Next]_vars PROVE CounterOK'
<1> SUFFICES ASSUME NEW q \in Provider
             PROVE  failures'[q] + Cardinality(Unrecorded(q)') <= failed'[q]
  BY DEF CounterOK
<1>0. failures[q] + Cardinality(Unrecorded(q)) <= failed[q]
  BY DEF CounterOK
<1>a. /\ failures[q] \in Nat /\ failures'[q] \in Nat
      /\ failed[q] \in Nat /\ failed'[q] \in Nat
      /\ Cardinality(Unrecorded(q)) \in Nat /\ Cardinality(Unrecorded(q)') \in Nat
  BY UnrecordedFinite, FS_Subset, FS_CardinalityType, BreakerAssumption
     DEF TypeOK, Unrecorded
<1>1. ASSUME NEW r \in Flow, CallFails(r)
      PROVE  failures'[q] + Cardinality(Unrecorded(q)') <= failed'[q]
  <2>1. failures' = failures
    BY <1>1 DEF CallFails, redis
  <2>2. CASE q = prov[r]
    <3>1. Unrecorded(q)' = Unrecorded(q) \cup {r} /\ r \notin Unrecorded(q)
      BY <1>1, <2>2 DEF CallFails, Unrecorded, TypeOK, locals
    <3>2. Cardinality(Unrecorded(q)') = Cardinality(Unrecorded(q)) + 1
      BY <3>1, UnrecordedFinite, FS_AddElement
    <3>3. failed'[q] = failed[q] + 1
      BY <1>1, <2>2 DEF CallFails, TypeOK
    <3> QED
      BY <2>1, <3>2, <3>3, <1>0, <1>a
  <2>3. CASE q # prov[r]
    <3>1. Unrecorded(q)' = Unrecorded(q) /\ failed'[q] = failed[q]
      BY <1>1, <2>3 DEF CallFails, Unrecorded, TypeOK, locals
    <3> QED
      BY <2>1, <3>1, <1>0
  <2> QED
    BY <2>2, <2>3
<1>2. ASSUME NEW r \in Flow, FailureIncr(r)
      PROVE  failures'[q] + Cardinality(Unrecorded(q)') <= failed'[q]
  <2>1. failed' = failed
    BY <1>2 DEF FailureIncr, history
  <2>2. CASE q = prov[r]
    <3>1. Unrecorded(q)' = Unrecorded(q) \ {r} /\ r \in Unrecorded(q)
      BY <1>2, <2>2 DEF FailureIncr, Unrecorded, TypeOK
    <3>2. Cardinality(Unrecorded(q)') = Cardinality(Unrecorded(q)) - 1
      BY <3>1, UnrecordedFinite, FS_RemoveElement
    <3>3. failures'[q] = failures[q] + 1
      BY <1>2, <2>2 DEF FailureIncr, TypeOK
    <3> QED
      BY <2>1, <3>2, <3>3, <1>0, <1>a
  <2>3. CASE q # prov[r]
    <3>1. Unrecorded(q)' = Unrecorded(q) /\ failures'[q] = failures[q]
      BY <1>2, <2>3 DEF FailureIncr, Unrecorded, TypeOK
    <3> QED
      BY <2>1, <3>1, <1>0
  <2> QED
    BY <2>2, <2>3
<1>3. ASSUME failed' = failed, failures'[q] <= failures[q],
             Unrecorded(q)' \subseteq Unrecorded(q)
      PROVE  failures'[q] + Cardinality(Unrecorded(q)') <= failed'[q]
  BY <1>3, <1>0, CounterBelow
<1>4. ASSUME NEW r \in Flow,
             Start(r) \/ (\E p \in Provider : StartForced(r, p))
                \/ (\E p \in Primary : ReadCircuit(r, p)) \/ Route(r) \/ CallSucceeds(r)
      PROVE  failures'[q] + Cardinality(Unrecorded(q)') <= failed'[q]
  <2>1. failures' = failures /\ failed' = failed
    BY <1>4 DEF Start, StartForced, ReadCircuit, Route, CallSucceeds, redis, history
  <2>2. Unrecorded(q)' \subseteq Unrecorded(q)
    BY <1>4 DEF Start, StartForced, ReadCircuit, Route, CallSucceeds, Unrecorded,
                TypeOK, locals
  <2> QED
    BY <2>1, <2>2, <1>3, <1>a
<1>5. ASSUME NEW r \in Flow,
             FailureExpire(r) \/ FailureRead(r) \/ FailureTrip(r)
                \/ FailureInit(r) \/ SuccessClose(r) \/ Abort(r)
      PROVE  failures'[q] + Cardinality(Unrecorded(q)') <= failed'[q]
  <2>1. failures' = failures /\ failed' = failed
    BY <1>5 DEF FailureExpire, FailureRead, FailureTrip, FailureInit, SuccessClose,
                Abort, redis, history
  <2>2. Unrecorded(q)' \subseteq Unrecorded(q)
    BY <1>5 DEF FailureExpire, FailureRead, FailureTrip, FailureInit, SuccessClose,
                Abort, Finish, Unrecorded, TypeOK, locals
  <2> QED
    BY <2>1, <2>2, <1>3, <1>a
<1>6. ASSUME NEW r \in Flow, SuccessDelete(r)
      PROVE  failures'[q] + Cardinality(Unrecorded(q)') <= failed'[q]
  <2>1. failed' = failed /\ failures'[q] <= failures[q]
    BY <1>6, <1>a DEF SuccessDelete, DropCounter, history, TypeOK
  <2>2. Unrecorded(q)' \subseteq Unrecorded(q)
    BY <1>6 DEF SuccessDelete, Unrecorded, TypeOK, locals
  <2> QED
    BY <2>1, <2>2, <1>3
<1>7. ASSUME NEW p \in Provider, WindowExpires(p) \/ EvictCounter(p)
      PROVE  failures'[q] + Cardinality(Unrecorded(q)') <= failed'[q]
  <2>1. DropCounter(p) /\ failed' = failed /\ pc' = pc /\ prov' = prov
    BY <1>7 DEF WindowExpires, EvictCounter, history, locals
  <2>2. failures'[q] <= failures[q]
    BY <2>1, <1>a DEF DropCounter, TypeOK
  <2> QED
    BY <2>1, <2>2, <1>3 DEF Unrecorded
<1>8. ASSUME NEW p \in Provider, EvictState(p)
      PROVE  failures'[q] + Cardinality(Unrecorded(q)') <= failed'[q]
  <2>1. failures' = failures /\ failed' = failed /\ pc' = pc /\ prov' = prov
    BY <1>8 DEF EvictState, locals
  <2> QED
    BY <2>1, <1>3, <1>a DEF Unrecorded
<1>9. CASE UNCHANGED vars
  BY <1>9, <1>0 DEF vars, redis, locals, history, Unrecorded
<1> QED
  BY <1>1, <1>2, <1>4, <1>5, <1>6, <1>7, <1>8, <1>9 DEF Next, Progress

\* Counts of recorders, and OPEN circuits, keep being backed by failed calls.
LEMMA EarnedStep ==
    ASSUME EarnedInv, TypeOK', CounterOK', [Next]_vars
    PROVE  CountOK' /\ OpenIsEarned'
<1> USE DEF EarnedInv, CountOK, OpenIsEarned, TypeOK, Provider
<1>a. Threshold \in Nat
  BY BreakerAssumption
<1>1. ASSUME NEW r \in Flow, CallFails(r) PROVE CountOK' /\ OpenIsEarned'
  <2>1. /\ \A p \in Provider : failed[p] <= failed'[p]
        /\ circuit' = circuit /\ count' = count /\ prov' = prov
        /\ \A f \in Flow : pc'[f] \in CountedPC => pc'[f] = pc[f]
    BY <1>1 DEF CallFails, redis, locals, CountedPC
  <2> QED
    BY <2>1, <1>a DEF CountedPC
<1>2. ASSUME NEW r \in Flow, FailureIncr(r) PROVE CountOK' /\ OpenIsEarned'
  <2>1. /\ count'[r] = failures'[prov[r]] /\ prov' = prov /\ circuit' = circuit
        /\ failed' = failed /\ pc'[r] # "rf_trip"
        /\ \A f \in Flow : f # r => count'[f] = count[f] /\ pc'[f] = pc[f]
    BY <1>2 DEF FailureIncr, history
  <2>2. count'[r] <= failed'[prov[r]]
    <3>0. PICK p \in Provider : p = prov[r]
      OBVIOUS
    <3>1. Cardinality(Unrecorded(p)') \in Nat
      <4>1. IsFiniteSet(Unrecorded(p)')
        <5>1. Unrecorded(p)' \subseteq Flow
          BY DEF Unrecorded
        <5> QED
          BY <5>1, FS_Subset, BreakerAssumption
      <4> QED
        BY <4>1, FS_CardinalityType
    <3>2. failures'[p] + Cardinality(Unrecorded(p)') <= failed'[p]
      BY <3>0 DEF CounterOK
    <3>3. failures'[p] \in Nat /\ failed'[p] \in Nat /\ count'[r] = failures'[p]
      BY <3>0, <2>1
    <3> QED
      BY <3>0, <3>1, <3>2, <3>3, <2>1
  <2> QED
    BY <2>1, <2>2
<1>3. ASSUME NEW r \in Flow, FailureRead(r) PROVE CountOK' /\ OpenIsEarned'
  <2>1. circuit' = circuit /\ failed' = failed
    BY <1>3 DEF FailureRead, redis, history
  <2>2. count[r] <= failed[prov[r]]
    BY <1>3 DEF FailureRead, CountedPC
  <2>3. CASE Trips(count[r]) \/ circuit[prov[r]] = "HALF_OPEN"
    <3>1. Trips(count[r]) /\ pc' = [pc EXCEPT ![r] = "rf_trip"] /\ UNCHANGED locals
      BY <1>3, <2>3 DEF FailureRead
    <3>2. Threshold <= failed[prov[r]]
      BY <3>1, <2>2, <1>a DEF Trips
    <3> QED
      BY <3>1, <3>2, <2>1, <2>2 DEF locals, CountedPC
  <2>4. CASE ~Trips(count[r]) /\ circuit[prov[r]] = "ABSENT"
    BY <1>3, <2>1, <2>2, <2>4 DEF FailureRead, locals, CountedPC
  <2>5. CASE ~Trips(count[r]) /\ circuit[prov[r]] \notin {"ABSENT", "HALF_OPEN"}
    BY <1>3, <2>1, <2>5 DEF FailureRead, Finish, CountedPC
  <2> QED
    BY <2>3, <2>4, <2>5
<1>4. ASSUME NEW r \in Flow, FailureTrip(r) PROVE CountOK' /\ OpenIsEarned'
  BY <1>4, <1>a DEF FailureTrip, SetCircuit, Finish, CountedPC
<1>5. ASSUME NEW r \in Flow, FailureInit(r) \/ SuccessClose(r)
      PROVE  CountOK' /\ OpenIsEarned'
  BY <1>5 DEF FailureInit, SuccessClose, SetCircuit, Finish, CountedPC
<1>6. ASSUME NEW r \in Flow,
             Start(r) \/ (\E p \in Provider : StartForced(r, p))
                \/ (\E p \in Primary : ReadCircuit(r, p)) \/ Route(r)
      PROVE  CountOK' /\ OpenIsEarned'
  BY <1>6 DEF Start, StartForced, ReadCircuit, Route, redis, history, CountedPC
<1>7. ASSUME NEW r \in Flow,
             CallSucceeds(r) \/ FailureExpire(r) \/ SuccessDelete(r) \/ Abort(r)
      PROVE  CountOK' /\ OpenIsEarned'
  BY <1>7 DEF CallSucceeds, FailureExpire, SuccessDelete, Abort, Finish, redis,
              locals, history, CountedPC
<1>8. ASSUME NEW p \in Provider, WindowExpires(p) \/ EvictCounter(p)
      PROVE  CountOK' /\ OpenIsEarned'
  <2>1. UNCHANGED <<circuit, pc, locals, failed>>
    BY <1>8 DEF WindowExpires, EvictCounter, history
  <2> QED
    BY <2>1 DEF locals
<1>9. ASSUME NEW p \in Provider, EvictState(p) PROVE CountOK' /\ OpenIsEarned'
  BY <1>9 DEF EvictState, SetCircuit, locals
<1>10. CASE UNCHANGED vars
  BY <1>10 DEF vars, redis, locals, history
<1> QED
  BY <1>1, <1>2, <1>3, <1>4, <1>5, <1>6, <1>7, <1>8, <1>9, <1>10 DEF Next, Progress

\* Whatever the interleaving, a circuit is OPEN only if Threshold calls to
\* that provider failed.
THEOREM OpenEarned == Spec => []OpenIsEarned
<1>1. Init /\ TypeOK => EarnedInv
  <2> SUFFICES ASSUME Init, TypeOK PROVE EarnedInv
    OBVIOUS
  <2>1. \A p \in Provider : Unrecorded(p) = {}
    BY DEF Init, Unrecorded
  <2>2. \A p \in Provider : failures[p] = 0 /\ failed[p] = 0 /\ circuit[p] = "ABSENT"
    BY DEF Init
  <2>3. CounterOK
    <3>1. Cardinality({}) = 0
      BY FS_EmptySet
    <3> QED
      BY <2>1, <2>2, <3>1 DEF CounterOK
  <2>4. CountOK
    BY DEF Init, CountOK, CountedPC
  <2> QED
    BY <2>2, <2>3, <2>4 DEF EarnedInv, OpenIsEarned
<1>2. EarnedInv /\ TypeOK' /\ [Next]_vars => EarnedInv'
  BY CounterStep, EarnedStep DEF EarnedInv
<1>3. EarnedInv => OpenIsEarned
  BY DEF EarnedInv
<1> QED
  BY <1>1, <1>2, <1>3, Typing, PTL DEF Spec

-----------------------------------------------------------------------------
(* The counter's TTL.                                                      *)

\* A failure counter never exists without a TTL or a recorder about to set it,
\* unless a recorder died exactly between its INCR and its EXPIRE.
THEOREM CounterExpires == Spec => []CounterWillExpire
<1> USE DEF CounterWillExpire
<1>1. Init => CounterWillExpire
  BY DEF Init
<1>2. ASSUME TypeOK, TypeOK', CounterWillExpire, [Next]_vars
      PROVE  CounterWillExpire'
  <2> SUFFICES ASSUME NEW q \in Provider, failures'[q] > 0, ~expiring'[q],
                      q \notin orphaned'
               PROVE  \E f \in Flow : pc'[f] = "rf_expire" /\ prov'[f] = q
    OBVIOUS
  <2> USE <1>2
  <2>1. ASSUME NEW r \in Flow, FailureIncr(r)
        PROVE  \E f \in Flow : pc'[f] = "rf_expire" /\ prov'[f] = q
    <3>1. CASE q = prov[r] /\ failures[q] = 0
      <4>1. failures[q] + 1 = 1
        BY <3>1
      <4>2. pc'[r] = "rf_expire" /\ prov'[r] = q
        BY <2>1, <3>1, <4>1 DEF FailureIncr, StartsWindow, TypeOK
      <4> QED
        BY <4>2
    <3>2. CASE failures[q] > 0
      <4>1. PICK f \in Flow : pc[f] = "rf_expire" /\ prov[f] = q
        BY <2>1, <3>2 DEF FailureIncr, history
      <4>2. pc'[f] = "rf_expire" /\ prov'[f] = q
        BY <2>1, <4>1 DEF FailureIncr, TypeOK
      <4> QED
        BY <4>2
    <3>3. failures[q] \in Nat /\ (q # prov[r] => failures'[q] = failures[q])
      BY <2>1 DEF FailureIncr, TypeOK
    <3> QED
      BY <3>1, <3>2, <3>3
  <2>2. ASSUME NEW r \in Flow, FailureExpire(r)
        PROVE  \E f \in Flow : pc'[f] = "rf_expire" /\ prov'[f] = q
    <3>1. failures' = failures /\ prov' = prov
      BY <2>2 DEF FailureExpire, locals
    <3>2. q # prov[r]
      BY <2>2, <3>1 DEF FailureExpire, TypeOK
    <3>3. ~expiring[q] /\ q \notin orphaned
      BY <2>2, <3>2 DEF FailureExpire, TypeOK
    <3>4. PICK f \in Flow : pc[f] = "rf_expire" /\ prov[f] = q
      BY <3>1, <3>3
    <3>5. pc'[f] = "rf_expire" /\ prov'[f] = q
      BY <2>2, <3>1, <3>2, <3>4 DEF FailureExpire, TypeOK
    <3> QED
      BY <3>5
  <2>3. ASSUME failures'[q] = failures[q], expiring'[q] = expiring[q],
               q \notin orphaned,
               \A f \in Flow : pc[f] = "rf_expire" =>
                                 pc'[f] = "rf_expire" /\ prov'[f] = prov[f]
        PROVE  \E f \in Flow : pc'[f] = "rf_expire" /\ prov'[f] = q
    <3>1. PICK f \in Flow : pc[f] = "rf_expire" /\ prov[f] = q
      BY <2>3
    <3> QED
      BY <3>1, <2>3
  <2>4. ASSUME NEW r \in Flow, Start(r) \/ CallFails(r) \/ CallSucceeds(r) \/ Route(r)
                                 \/ (\E p \in Provider : StartForced(r, p))
                                 \/ (\E p \in Primary : ReadCircuit(r, p))
        PROVE  \E f \in Flow : pc'[f] = "rf_expire" /\ prov'[f] = q
    <3>1. failures' = failures /\ expiring' = expiring /\ orphaned' = orphaned
      BY <2>4 DEF Start, CallFails, CallSucceeds, Route, StartForced, ReadCircuit, redis,
                  history
    <3>2. \A f \in Flow : pc[f] = "rf_expire" =>
                            pc'[f] = "rf_expire" /\ prov'[f] = prov[f]
      BY <2>4 DEF Start, CallFails, CallSucceeds, Route, StartForced, ReadCircuit,
                  locals, TypeOK
    <3> QED
      BY <3>1, <3>2, <2>3
  <2>5. ASSUME NEW r \in Flow, FailureRead(r) \/ FailureTrip(r) \/ FailureInit(r)
                                 \/ SuccessClose(r)
        PROVE  \E f \in Flow : pc'[f] = "rf_expire" /\ prov'[f] = q
    <3>1. failures' = failures /\ expiring' = expiring /\ orphaned' = orphaned
      BY <2>5 DEF FailureRead, FailureTrip, FailureInit, SuccessClose, redis, history
    <3>2. \A f \in Flow : pc[f] = "rf_expire" =>
                            pc'[f] = "rf_expire" /\ prov'[f] = prov[f]
      BY <2>5 DEF FailureRead, FailureTrip, FailureInit, SuccessClose, Finish, locals,
                  TypeOK
    <3> QED
      BY <3>1, <3>2, <2>3
  <2>6. ASSUME NEW p \in Provider, DropCounter(p), pc' = pc, prov' = prov
        PROVE  \E f \in Flow : pc'[f] = "rf_expire" /\ prov'[f] = q
    <3>1. q # p
      BY <2>6 DEF DropCounter, TypeOK
    <3>2. failures'[q] = failures[q] /\ expiring'[q] = expiring[q] /\ q \notin orphaned
      BY <2>6, <3>1 DEF DropCounter, TypeOK
    <3> QED
      BY <2>6, <3>2, <2>3
  <2>7. ASSUME NEW p \in Provider, WindowExpires(p) \/ EvictCounter(p)
        PROVE  \E f \in Flow : pc'[f] = "rf_expire" /\ prov'[f] = q
    BY <2>7, <2>6 DEF WindowExpires, EvictCounter, locals
  <2>8. ASSUME NEW r \in Flow, SuccessDelete(r)
        PROVE  \E f \in Flow : pc'[f] = "rf_expire" /\ prov'[f] = q
    <3>1. q # prov[r]
      BY <2>8 DEF SuccessDelete, DropCounter, TypeOK
    <3>2. failures'[q] = failures[q] /\ expiring'[q] = expiring[q] /\ q \notin orphaned
      BY <2>8, <3>1 DEF SuccessDelete, DropCounter, TypeOK
    <3>3. \A f \in Flow : pc[f] = "rf_expire" =>
                            pc'[f] = "rf_expire" /\ prov'[f] = prov[f]
      BY <2>8 DEF SuccessDelete, locals, TypeOK
    <3> QED
      BY <3>2, <3>3, <2>3
  <2>9. ASSUME NEW p \in Provider, EvictState(p)
        PROVE  \E f \in Flow : pc'[f] = "rf_expire" /\ prov'[f] = q
    BY <2>9, <2>3 DEF EvictState, locals
  <2>10. CASE UNCHANGED vars
    BY <2>10, <2>3 DEF vars, redis, locals, history
  <2>11. ASSUME NEW r \in Flow, Abort(r)
         PROVE  \E f \in Flow : pc'[f] = "rf_expire" /\ prov'[f] = q
    <3>1. failures' = failures /\ expiring' = expiring /\ q \notin orphaned
      BY <2>11 DEF Abort, redis
    <3>2. PICK f \in Flow : pc[f] = "rf_expire" /\ prov[f] = q
      BY <3>1
    <3>3. f # r
      BY <2>11, <3>2 DEF Abort
    <3>4. pc'[f] = "rf_expire" /\ prov'[f] = q
      BY <2>11, <3>2, <3>3 DEF Abort, Finish, TypeOK
    <3> QED
      BY <3>4
  <2> QED
    BY <2>1, <2>2, <2>4, <2>5, <2>7, <2>8, <2>9, <2>10, <2>11 DEF Next, Progress
<1> QED
  BY <1>1, <1>2, Typing, PTL DEF Spec

-----------------------------------------------------------------------------
(* An abandoned primary is lost.                                           *)

\* A step of a behaviour keeps an abandoned primary abandoned.
LEMMA AbandonedStep ==
    ASSUME TypeOK, [Next]_vars, NEW p \in Primary, Abandoned(p)
    PROVE  \/ Abandoned(p)' \/ circuit'[p] = "ABSENT"
           \/ \E r \in Flow : StartForced(r, p)
<1> USE DEF Abandoned, TypeOK, Provider
<1>a. p # Fallback
  BY BreakerAssumption
<1>1. ASSUME NEW r \in Flow, Start(r) PROVE Abandoned(p)'
  BY <1>1 DEF Start, redis
<1>2. ASSUME NEW r \in Flow, NEW q \in Primary, ReadCircuit(r, q) PROVE Abandoned(p)'
  BY <1>2 DEF ReadCircuit, Admits, redis
<1>3. ASSUME NEW r \in Flow, Route(r) PROVE Abandoned(p)'
  BY <1>3, <1>a DEF Route, Choices, redis
<1>4. ASSUME NEW r \in Flow,
             CallFails(r) \/ CallSucceeds(r) \/ FailureIncr(r) \/ FailureExpire(r)
      PROVE  Abandoned(p)'
  BY <1>4 DEF CallFails, CallSucceeds, FailureIncr, FailureExpire, redis, locals
<1>5. ASSUME NEW r \in Flow, FailureRead(r) PROVE Abandoned(p)'
  BY <1>5, <1>a DEF FailureRead, Finish, redis, locals
<1>6. ASSUME NEW r \in Flow, FailureTrip(r) \/ FailureInit(r) \/ SuccessClose(r)
      PROVE  Abandoned(p)'
  BY <1>6, <1>a DEF FailureTrip, FailureInit, SuccessClose, SetCircuit, Finish
<1>7. ASSUME NEW r \in Flow, SuccessDelete(r) PROVE Abandoned(p)'
  BY <1>7 DEF SuccessDelete, locals
<1>8. ASSUME NEW r \in Flow, Abort(r) PROVE Abandoned(p)'
  BY <1>8, <1>a DEF Abort, Finish, redis
<1>9. ASSUME NEW q \in Provider, WindowExpires(q) \/ EvictCounter(q)
      PROVE  Abandoned(p)'
  BY <1>9 DEF WindowExpires, EvictCounter, locals
<1>10. CASE UNCHANGED vars
  BY <1>10 DEF vars, redis, locals
<1>11. ASSUME NEW q \in Provider, EvictState(q)
       PROVE  Abandoned(p)' \/ circuit'[p] = "ABSENT"
  BY <1>11 DEF EvictState, SetCircuit, locals
<1>12. ASSUME NEW r \in Flow, NEW q \in Provider, StartForced(r, q), q # p
       PROVE  Abandoned(p)'
  BY <1>12 DEF StartForced, redis
<1> QED
  BY <1>1, <1>2, <1>3, <1>4, <1>5, <1>6, <1>7, <1>8, <1>9, <1>10, <1>11, <1>12
     DEF Next, Progress

\* No step gives an abandoned primary another chance: not the passing of
\* time, not any amount of successful traffic elsewhere, only the dev override
\* and eviction.
THEOREM AbandonedForEver == Spec => StaysAbandoned
<1>1. TypeOK /\ [Next]_vars =>
        [\A p \in Primary :
           Abandoned(p) => \/ Abandoned(p)' \/ circuit'[p] = "ABSENT"
                           \/ \E r \in Flow : StartForced(r, p)]_vars
  BY AbandonedStep
<1> QED
  BY <1>1, Typing, PTL DEF Spec, StaysAbandoned

-----------------------------------------------------------------------------
(* Selection.                                                              *)

\* During a selection the histories cover what was read and what is now.
SelectInv ==
    \A r \in Flow : pc[r] = "select" =>
        /\ avail[r] \subseteq wasShut[r]
        /\ \A p \in Primary :
             /\ p \in unread[r] \/ p \in avail[r] \/ p \in wasOpen[r]
             /\ IF circuit[p] = "OPEN" THEN p \in wasOpen[r] ELSE p \in wasShut[r]

RoutingInv == SelectInv /\ RoutingJustified

\* Every unforced routing decision was right at some instant of it.
THEOREM Routing == Spec => []RoutingJustified
<1> USE DEF RoutingInv, SelectInv, RoutingJustified
<1>1. Init => RoutingInv
  BY DEF Init
<1>2. ASSUME TypeOK, TypeOK', RoutingInv, [Next]_vars PROVE RoutingInv'
  <2> USE <1>2 DEF TypeOK, Provider
  <2>1. ASSUME NEW r \in Flow, Start(r) PROVE RoutingInv'
    <3>1. /\ circuit' = circuit /\ prov' = prov
          /\ pc'[r] = "select" /\ unread'[r] = Primary /\ avail'[r] = {}
          /\ wasOpen'[r] = {p \in Primary : circuit[p] = "OPEN"}
          /\ wasShut'[r] = {p \in Primary : circuit[p] # "OPEN"}
      BY <2>1 DEF Start, redis
    <3>2. \A f \in Flow : f # r => /\ pc'[f] = pc[f] /\ unread'[f] = unread[f]
                                   /\ avail'[f] = avail[f]
                                   /\ wasOpen'[f] = wasOpen[f]
                                   /\ wasShut'[f] = wasShut[f]
      BY <2>1 DEF Start
    <3>3. RoutingJustified'
      BY <3>1, <3>2
    <3>4. SelectInv'
      BY <3>1, <3>2
    <3> QED
      BY <3>3, <3>4
  <2>2. ASSUME NEW r \in Flow, NEW p \in Provider, StartForced(r, p) PROVE RoutingInv'
    BY <2>2 DEF StartForced, redis
  <2>3. ASSUME NEW r \in Flow, NEW p \in Primary, ReadCircuit(r, p) PROVE RoutingInv'
    BY <2>3 DEF ReadCircuit, Admits, redis, history
  <2>4. ASSUME NEW r \in Flow, Route(r) PROVE RoutingInv'
    <3>1. /\ avail[r] \subseteq wasShut[r]
          /\ avail[r] = {} => Primary \subseteq wasOpen[r]
      BY <2>4 DEF Route
    <3>2. \/ prov'[r] \in avail[r]
          \/ avail[r] = {} /\ prov'[r] = Fallback
      BY <2>4 DEF Route, Choices
    <3>3. /\ prov'[r] \in Primary => prov'[r] \in wasShut[r]
          /\ prov'[r] = Fallback  => Primary \subseteq wasOpen[r]
      BY <3>1, <3>2, BreakerAssumption
    <3> QED
      BY <2>4, <3>3 DEF Route, redis, history
  <2>5. ASSUME NEW r \in Flow, CallFails(r) \/ CallSucceeds(r) PROVE RoutingInv'
    BY <2>5 DEF CallFails, CallSucceeds, Forget, redis, locals
  <2>6. ASSUME NEW r \in Flow, FailureIncr(r) \/ FailureExpire(r) \/ SuccessDelete(r)
        PROVE  RoutingInv'
    BY <2>6 DEF FailureIncr, FailureExpire, SuccessDelete, locals, history
  <2>7. ASSUME NEW r \in Flow, FailureRead(r) PROVE RoutingInv'
    BY <2>7 DEF FailureRead, Finish, redis, locals, history
  <2>8. ASSUME NEW r \in Flow, FailureTrip(r) PROVE RoutingInv'
    BY <2>8 DEF FailureTrip, SetCircuit, Finish
  <2>9. ASSUME NEW r \in Flow, FailureInit(r) \/ SuccessClose(r) PROVE RoutingInv'
    BY <2>9 DEF FailureInit, SuccessClose, SetCircuit, Finish
  <2>10. ASSUME NEW r \in Flow, Abort(r) PROVE RoutingInv'
    BY <2>10 DEF Abort, Finish, Forget, redis
  <2>11. ASSUME NEW p \in Provider, WindowExpires(p) \/ EvictCounter(p)
         PROVE  RoutingInv'
    BY <2>11 DEF WindowExpires, EvictCounter, locals, history
  <2>12. ASSUME NEW p \in Provider, EvictState(p) PROVE RoutingInv'
    BY <2>12 DEF EvictState, SetCircuit, locals
  <2>13. CASE UNCHANGED vars
    BY <2>13 DEF vars, redis, locals, history
  <2> QED
    BY <2>1, <2>2, <2>3, <2>4, <2>5, <2>6, <2>7, <2>8, <2>9, <2>10, <2>11,
       <2>12, <2>13 DEF Next, Progress
<1> QED
  BY <1>1, <1>2, Typing, PTL DEF Spec

-----------------------------------------------------------------------------
(* A breach of the threshold trips.  Recorders of the same provider may    *)
(* overlap, die, and write late; the invariant follows the recorder whose  *)
(* INCR reached the threshold until its SET.                               *)

\* A counter at the threshold: the circuit is OPEN, or a recorder is about to
\* open it, or a later event has undone that.
TripInv ==
    \A p \in Provider : failures[p] >= Threshold =>
        \/ circuit[p] = "OPEN"
        \/ p \in undone
        \/ \E r \in Flow : prov[r] = p /\ Tripping(r)

\* A step that leaves the recorders about to open p at work.
LEMMA TripKept ==
    ASSUME TripInv, NEW p \in Provider, failures'[p] = failures[p], failures'[p] >= Threshold,
           circuit[p] # "OPEN", p \notin undone,
           \A f \in Flow : prov[f] = p /\ Tripping(f) => prov'[f] = p /\ Tripping(f)'
    PROVE  \E f \in Flow : prov'[f] = p /\ Tripping(f)'
<1>1. failures[p] >= Threshold
  OBVIOUS
<1>2. PICK f \in Flow : prov[f] = p /\ Tripping(f)
  BY <1>1 DEF TripInv
<1> QED
  BY <1>2

\* One step keeps it.
LEMMA TripStep ==
    ASSUME TypeOK, TripInv, [Next]_vars PROVE TripInv'
<1>0. /\ Threshold \in Nat \ {0} /\ circuit \in [Provider -> {"ABSENT", "CLOSED", "OPEN"}]
      /\ failures \in [Provider -> Nat] /\ count \in [Flow -> Nat] /\ prov \in [Flow -> Provider]
      /\ pc \in [Flow -> PC]
  BY BreakerAssumption DEF TypeOK
<1> SUFFICES ASSUME NEW p \in Provider, failures'[p] >= Threshold,
                    circuit'[p] # "OPEN", p \notin undone'
             PROVE  \E f \in Flow : prov'[f] = p /\ Tripping(f)'
  BY DEF TripInv
<1>1. ASSUME NEW r \in Flow, FailureIncr(r)
      PROVE  \E f \in Flow : prov'[f] = p /\ Tripping(f)'
  <2>1. /\ pc[r] = "rf_incr" /\ UNCHANGED <<prov, circuit, undone>>
        /\ pc'[r] \in {"rf_expire", "rf_read"} /\ count'[r] = failures'[prov[r]]
        /\ \A q \in Provider \ {prov[r]} : failures'[q] = failures[q]
        /\ \A f \in Flow \ {r} : pc'[f] = pc[f] /\ count'[f] = count[f]
    BY <1>0, <1>1 DEF FailureIncr, history
  <2>2. CASE p = prov[r]
    <3>1. prov'[r] = p /\ Tripping(r)'
      BY <2>1, <2>2 DEF Tripping
    <3> QED
      BY <3>1
  <2>3. CASE p # prov[r]
    <3>1. \A f \in Flow : prov[f] = p /\ Tripping(f) => prov'[f] = p /\ Tripping(f)'
      BY <2>1, <2>3 DEF Tripping
    <3> QED
      BY <2>1, <2>3, <3>1, TripKept
  <2> QED
    BY <2>2, <2>3
<1>2. ASSUME NEW r \in Flow,
             Start(r) \/ (\E q \in Provider : StartForced(r, q))
                \/ (\E q \in Primary : ReadCircuit(r, q)) \/ Route(r)
                \/ CallFails(r) \/ CallSucceeds(r)
      PROVE  \E f \in Flow : prov'[f] = p /\ Tripping(f)'
  <2>1. UNCHANGED <<circuit, failures, count, undone>> /\ ~Tripping(r)
    BY <1>2 DEF Start, StartForced, ReadCircuit, Route, CallFails, CallSucceeds, redis, locals,
                history, Tripping
  <2>2. \A f \in Flow \ {r} : pc'[f] = pc[f] /\ prov'[f] = prov[f]
    BY <1>0, <1>2 DEF Start, StartForced, ReadCircuit, Route, CallFails, CallSucceeds, locals
  <2>3. \A f \in Flow : prov[f] = p /\ Tripping(f) => prov'[f] = p /\ Tripping(f)'
    BY <2>1, <2>2 DEF Tripping
  <2> QED
    BY <2>1, <2>3, TripKept
<1>3. ASSUME NEW r \in Flow, FailureExpire(r)
      PROVE  \E f \in Flow : prov'[f] = p /\ Tripping(f)'
  <2>1. /\ UNCHANGED <<circuit, failures, count, prov, undone>>
        /\ pc'[r] = "rf_read" /\ \A f \in Flow \ {r} : pc'[f] = pc[f]
    BY <1>0, <1>3 DEF FailureExpire, locals
  <2>2. \A f \in Flow : prov[f] = p /\ Tripping(f) => prov'[f] = p /\ Tripping(f)'
    BY <2>1 DEF Tripping
  <2> QED
    BY <2>1, <2>2, TripKept
<1>4. ASSUME NEW r \in Flow, FailureRead(r)
      PROVE  \E f \in Flow : prov'[f] = p /\ Tripping(f)'
  <2>1. pc[r] = "rf_read" /\ UNCHANGED <<circuit, failures, undone>>
    BY <1>4 DEF FailureRead, redis, history
  <2>2. Tripping(r) => pc' = [pc EXCEPT ![r] = "rf_trip"] /\ UNCHANGED locals
    BY <1>0, <1>4 DEF FailureRead, Tripping, Trips
  <2>3. \A f \in Flow \ {r} : pc'[f] = pc[f] /\ prov'[f] = prov[f] /\ count'[f] = count[f]
    BY <1>0, <1>4 DEF FailureRead, Finish, locals
  <2>4. \A f \in Flow : prov[f] = p /\ Tripping(f) => prov'[f] = p /\ Tripping(f)'
    BY <1>0, <2>2, <2>3 DEF Tripping, locals
  <2> QED
    BY <2>1, <2>4, TripKept
<1>5. ASSUME NEW q \in Provider, NEW s, SetCircuit(q, s), failures' = failures,
             \A f \in Flow : prov[f] # q => pc'[f] = pc[f] /\ prov'[f] = prov[f]
                                              /\ count'[f] = count[f]
      PROVE  \E f \in Flow : prov'[f] = p /\ Tripping(f)'
  <2>1. CASE p = q
    <3>1. s # "OPEN"
      BY <1>0, <1>5, <2>1 DEF SetCircuit
    <3>2. p \in undone'
      BY <1>5, <2>1, <3>1 DEF SetCircuit, Undone
    <3> QED
      BY <3>2
  <2>2. CASE p # q
    <3>1. circuit'[p] = circuit[p] /\ p \notin undone
      BY <1>0, <1>5, <2>2 DEF SetCircuit, Undone
    <3>2. \A f \in Flow : prov[f] = p /\ Tripping(f) => prov'[f] = p /\ Tripping(f)'
      BY <1>5, <2>2 DEF Tripping
    <3> QED
      BY <1>5, <3>1, <3>2, TripKept
  <2> QED
    BY <2>1, <2>2
<1>6. ASSUME NEW r \in Flow, FailureTrip(r) \/ FailureInit(r) \/ SuccessClose(r)
      PROVE  \E f \in Flow : prov'[f] = p /\ Tripping(f)'
  <2>1. PICK s \in {"OPEN", "CLOSED"} :
          SetCircuit(prov[r], s) /\ Finish(r) /\ UNCHANGED failures
    BY <1>6 DEF FailureTrip, FailureInit, SuccessClose
  <2>2. \A f \in Flow \ {r} : pc'[f] = pc[f] /\ count'[f] = count[f] /\ prov'[f] = prov[f]
    BY <1>0, <2>1 DEF Finish
  <2>3. prov[r] \in Provider
    BY <1>0
  <2> QED
    BY <2>1, <2>2, <2>3, <1>5
<1>7. ASSUME NEW q \in Provider, EvictState(q)
      PROVE  \E f \in Flow : prov'[f] = p /\ Tripping(f)'
  BY <1>7, <1>5 DEF EvictState, locals
<1>8. ASSUME NEW q \in Provider, DropCounter(q), UNCHANGED <<circuit, prov, count>>,
             \A f \in Flow : prov[f] # q => pc'[f] = pc[f]
      PROVE  \E f \in Flow : prov'[f] = p /\ Tripping(f)'
  <2>1. p # q
    BY <1>0, <1>8 DEF DropCounter
  <2>2. failures'[p] = failures[p] /\ p \notin undone
    BY <1>0, <1>8, <2>1 DEF DropCounter
  <2>3. \A f \in Flow : prov[f] = p /\ Tripping(f) => prov'[f] = p /\ Tripping(f)'
    BY <1>8, <2>1 DEF Tripping
  <2> QED
    BY <1>8, <2>2, <2>3, TripKept
<1>9. ASSUME NEW r \in Flow, SuccessDelete(r)
      PROVE  \E f \in Flow : prov'[f] = p /\ Tripping(f)'
  <2>1. PICK q \in Provider : q = prov[r]
    BY <1>0
  <2>2. \A f \in Flow : prov[f] # q => pc'[f] = pc[f]
    BY <1>0, <1>9, <2>1 DEF SuccessDelete
  <2> QED
    BY <1>9, <2>1, <2>2, <1>8 DEF SuccessDelete, locals
<1>10. ASSUME NEW q \in Provider, WindowExpires(q) \/ EvictCounter(q)
       PROVE  \E f \in Flow : prov'[f] = p /\ Tripping(f)'
  BY <1>10, <1>8 DEF WindowExpires, EvictCounter, locals
<1>11. ASSUME NEW r \in Flow, Abort(r)
       PROVE  \E f \in Flow : prov'[f] = p /\ Tripping(f)'
  <2>1. UNCHANGED <<circuit, failures>> /\ p \notin undone
    BY <1>11 DEF Abort, Undone, redis
  <2>2. ~(prov[r] = p /\ Tripping(r))
    BY <1>11, <2>1 DEF Abort, Undone
  <2>3. \A f \in Flow \ {r} : pc'[f] = pc[f] /\ prov'[f] = prov[f] /\ count'[f] = count[f]
    BY <1>0, <1>11 DEF Abort, Finish
  <2>4. \A f \in Flow : prov[f] = p /\ Tripping(f) => prov'[f] = p /\ Tripping(f)'
    BY <2>2, <2>3 DEF Tripping
  <2> QED
    BY <2>1, <2>4, TripKept
<1>12. CASE UNCHANGED vars
  <2>1. UNCHANGED <<circuit, failures, pc, prov, count, undone>>
    BY <1>12 DEF vars, redis, locals, history
  <2> QED
    BY <2>1, TripKept DEF Tripping
<1> QED
  BY <1>1, <1>2, <1>3, <1>4, <1>6, <1>7, <1>9, <1>10, <1>11, <1>12 DEF Next, Progress

\* Once nobody is at work on a provider whose counter is at the threshold its
\* circuit is OPEN, or an event after the breach has undone it: a CLOSED written
\* by a recorder that began before it, an eviction, the death of the recorder.
\* Recorders may overlap as they like.
THEOREM BreachesTrip == Spec => []BreachTrips
<1>1. Init => TripInv
  BY BreakerAssumption DEF Init, TripInv
<1>2. TypeOK /\ TripInv /\ [Next]_vars => TripInv'
  BY TripStep
<1>3. TripInv => BreachTrips
  BY DEF TripInv, BreachTrips
<1> QED
  BY <1>1, <1>2, <1>3, Typing, PTL DEF Spec

-----------------------------------------------------------------------------
(* The atomic breaker.  What it calls state is Settled: the circuit as the *)
(* recorder at work on the provider, if there is one and only one, is about *)
(* to leave it.                                                            *)

Recording == (FailPC \ {"rf_incr"}) \cup {"rs_close"}

\* A flow records for its own provider only.
LEMMA OwnProvider ==
    ASSUME NEW r \in Flow, NEW p \in Provider
    PROVE  /\ r \in RecorderOf(p) <=> prov[r] = p /\ pc[r] \in Recording
           /\ r \in RecorderOf(p)' <=> prov'[r] = p /\ pc'[r] \in Recording
BY DEF RecorderOf, Recording

\* CHOOSE finds the only element of a set.
LEMMA Chosen ==
    ASSUME NEW S, NEW r \in S, \A f \in S : f = r PROVE (CHOOSE f \in S : TRUE) = r
OBVIOUS

\* The only recorder of a provider decides, before a step and after it.
LEMMA SettledBefore ==
    ASSUME NEW p \in Provider, NEW r \in Flow, r \in RecorderOf(p), p \notin Contended
    PROVE  Settled(p) = Due(r, p)
<1>1. \A f \in RecorderOf(p) : f = r
  BY DEF Contended
<1>2. (CHOOSE f \in RecorderOf(p) : TRUE) = r
  BY <1>1, Chosen
<1> QED
  BY <1>2 DEF Settled

LEMMA SettledAfter ==
    ASSUME NEW p \in Provider, NEW r \in Flow, r \in RecorderOf(p)', p \notin Contended'
    PROVE  Settled(p)' = Due(r, p)'
<1>1. \A f \in RecorderOf(p)' : f = r
  BY DEF Contended
<1>2. (CHOOSE f \in RecorderOf(p)' : TRUE) = r
  BY <1>1, Chosen
<1> QED
  BY <1>2 DEF Settled

\* A step leaves alone a provider whose circuit and recorders it leaves alone.
LEMMA SettledElsewhere ==
    ASSUME NEW p \in Provider, circuit'[p] = circuit[p], RecorderOf(p)' = RecorderOf(p),
           \A f \in RecorderOf(p) : pc'[f] = pc[f] /\ count'[f] = count[f]
    PROVE  Settled(p)' = Settled(p) /\ (p \in Contended' <=> p \in Contended)
<1>0. p \in Contended' <=> p \in Contended
  BY DEF Contended
<1>1. CASE p \in Contended \/ RecorderOf(p) = {}
  BY <1>0, <1>1 DEF Settled
<1>2. CASE p \notin Contended /\ RecorderOf(p) # {}
  <2>1. PICK f : f = CHOOSE g \in RecorderOf(p) : TRUE
    OBVIOUS
  <2>2. f \in RecorderOf(p)
    BY <1>2, <2>1
  <2>3. Settled(p) = Due(f, p) /\ Settled(p)' = Due(f, p)'
    BY <1>0, <1>2, <2>1 DEF Settled
  <2>4. Due(f, p)' = Due(f, p)
    BY <2>2 DEF Due
  <2> QED
    BY <1>0, <2>3, <2>4
<1> QED
  BY <1>1, <1>2

\* What is settled is a state of a circuit.
LEMMA SettledType ==
    ASSUME TypeOK', NEW p \in Provider PROVE Settled(p)' \in {"ABSENT", "CLOSED", "OPEN"}
<1>1. circuit'[p] \in {"ABSENT", "CLOSED", "OPEN"}
  BY DEF TypeOK
<1>2. \A r : Due(r, p)' \in {"ABSENT", "CLOSED", "OPEN"}
  BY <1>1 DEF Due
<1> QED
  BY <1>1, <1>2 DEF Settled

\* A step of r, before and after which r records for nobody but p, is no step
\* about any other provider.
LEMMA OthersStay ==
    ASSUME TypeOK', NEW p \in Provider, NEW r \in Flow,
           \A q \in Provider \ {p} : circuit'[q] = circuit[q],
           \A f \in Flow \ {r} : /\ pc'[f] = pc[f] /\ prov'[f] = prov[f]
                                  /\ count'[f] = count[f],
           \A q \in Provider \ {p} : r \notin RecorderOf(q) /\ r \notin RecorderOf(q)'
    PROVE  Atomic!Others(p)
<1>1. ASSUME NEW q \in Provider \ {p} PROVE Settled(q)' = Settled(q)
  <2>1. RecorderOf(q)' = RecorderOf(q)
    BY DEF RecorderOf
  <2>2. \A f \in RecorderOf(q) : pc'[f] = pc[f] /\ count'[f] = count[f]
    BY DEF RecorderOf
  <2> QED
    BY <2>1, <2>2, SettledElsewhere
<1>2. [q \in Provider |-> Settled(q)]' \in [Provider -> {"ABSENT", "CLOSED", "OPEN"}]
  <2>1. \A q \in Provider : Settled(q)' \in {"ABSENT", "CLOSED", "OPEN"}
    BY SettledType
  <2> QED
    BY <2>1
<1> QED
  BY <1>1, <1>2 DEF Atomic!Others, Atomic!Leaves

\* A step that changes no recorder and no circuit.
LEMMA AllStay ==
    ASSUME UNCHANGED <<circuit, count, mishaps>>,
           \A p \in Provider : /\ RecorderOf(p)' = RecorderOf(p)
                               /\ \A f \in RecorderOf(p) : pc'[f] = pc[f]
    PROVE  /\ Contended' = Contended
           /\ \A p \in Provider : Settled(p)' = Settled(p)
<1>1. \A p \in Provider : Settled(p)' = Settled(p) /\ (p \in Contended' <=> p \in Contended)
  BY SettledElsewhere
<1> QED
  BY <1>1 DEF Contended

\* The flow goes from one await to another outside the recorders.
LEMMA NotRecording ==
    ASSUME NEW r \in Flow, UNCHANGED <<circuit, failures, count, mishaps>>,
           \A f \in Flow \ {r} : pc'[f] = pc[f] /\ prov'[f] = prov[f],
           pc[r] \notin Recording, pc'[r] \notin Recording
    PROVE  UNCHANGED Atomic!bvars
<1>1. ASSUME NEW p \in Provider
      PROVE  RecorderOf(p)' = RecorderOf(p) /\ \A f \in RecorderOf(p) : pc'[f] = pc[f]
  BY DEF RecorderOf, Recording
<1> QED
  BY <1>1, AllStay DEF Atomic!bvars

\* Nobody else records for a provider that r records for and nobody contends.
LEMMA Alone ==
    ASSUME NEW p \in Provider, NEW r \in Flow, NEW f \in Flow \ {r}
    PROVE  /\ r \in RecorderOf(p) /\ p \notin Contended => f \notin RecorderOf(p)
           /\ r \in RecorderOf(p)' /\ p \notin Contended' => f \notin RecorderOf(p)'
BY DEF Contended

\* A recorder goes on, and if it is alone it will still leave the circuit as it
\* would have.
LEMMA RecordsOn ==
    ASSUME TypeOK', NEW r \in Flow, UNCHANGED <<circuit, failures, count, mishaps, prov>>,
           \A f \in Flow \ {r} : pc'[f] = pc[f],
           pc[r] \in Recording, pc'[r] \in Recording, NEW p \in Provider, p = prov[r],
           Due(r, p)' = Due(r, p)
    PROVE  Atomic!Contend(p)
<1>1. r \in RecorderOf(p) /\ r \in RecorderOf(p)'
  BY OwnProvider
<1>2. \A q \in Provider \ {p} : r \notin RecorderOf(q) /\ r \notin RecorderOf(q)'
  BY OwnProvider
<1>3. p \notin Contended /\ p \notin Contended' => Settled(p)' = Settled(p)
  BY <1>1, SettledBefore, SettledAfter
<1>4. Atomic!Others(p)
  BY <1>2, OthersStay
<1> QED
  BY <1>3, <1>4 DEF Atomic!Contend, Atomic!Leaves, Atomic!Free

\* A recorder ends, and if it is alone leaves the circuit as it was about to.
LEMMA RecordsLast ==
    ASSUME TypeOK, TypeOK', NEW r \in Flow, UNCHANGED <<failures, mishaps>>, Finish(r),
           pc[r] \in Recording, NEW p \in Provider, p = prov[r],
           circuit'[p] = Due(r, p), \A q \in Provider \ {p} : circuit'[q] = circuit[q]
    PROVE  Atomic!Contend(p)
<1>1. /\ pc'[r] = "idle"
      /\ \A f \in Flow \ {r} : pc'[f] = pc[f] /\ prov'[f] = prov[f] /\ count'[f] = count[f]
  BY DEF Finish, TypeOK
<1>2. r \in RecorderOf(p) /\ \A q \in Provider : r \notin RecorderOf(q)'
  BY <1>1, OwnProvider DEF Recording, FailPC
<1>3. ASSUME p \notin Contended PROVE Settled(p)' = Settled(p)
  <2>1. RecorderOf(p)' = {}
    <3>1. ASSUME NEW f \in RecorderOf(p)' PROVE FALSE
      <4>1. f \in Flow \ {r}
        BY <1>2 DEF RecorderOf
      <4>2. f \in RecorderOf(p)
        BY <1>1, <4>1 DEF RecorderOf
      <4> QED
        BY <1>2, <1>3, <4>1, <4>2, Alone
    <3> QED
      BY <3>1
  <2>2. Settled(p)' = circuit'[p]
    BY <2>1 DEF Settled
  <2>3. Settled(p) = Due(r, p)
    BY <1>2, <1>3, SettledBefore
  <2> QED
    BY <2>2, <2>3
<1>4. Atomic!Others(p)
  <2>1. \A q \in Provider \ {p} : r \notin RecorderOf(q) /\ r \notin RecorderOf(q)'
    BY <1>2, OwnProvider
  <2> QED
    BY <1>1, <2>1, OthersStay
<1> QED
  BY <1>3, <1>4 DEF Atomic!Contend, Atomic!Leaves, Atomic!Free

\* A recorder begins.  If it is alone then none was at work on the provider,
\* whose circuit is now about to be what this one will leave.
LEMMA Begins ==
    ASSUME TypeOK', NEW r \in Flow, UNCHANGED <<circuit, prov>>,
           \A f \in Flow \ {r} : pc'[f] = pc[f] /\ count'[f] = count[f],
           pc[r] \notin Recording, pc'[r] \in Recording, NEW p \in Provider, p = prov[r]
    PROVE  /\ p \notin Contended' => Settled(p) = circuit[p] /\ Settled(p)' = Due(r, p)'
           /\ Atomic!Others(p)
<1>1. r \notin RecorderOf(p) /\ r \in RecorderOf(p)'
  BY OwnProvider
<1>2. ASSUME p \notin Contended' PROVE Settled(p) = circuit[p]
  <2>1. RecorderOf(p) = {}
    <3>1. ASSUME NEW f \in RecorderOf(p) PROVE FALSE
      <4>1. f \in Flow \ {r}
        BY <1>1 DEF RecorderOf
      <4>2. f \in RecorderOf(p)'
        BY <4>1 DEF RecorderOf
      <4> QED
        BY <1>1, <1>2, <4>1, <4>2, Alone
    <3> QED
      BY <3>1
  <2> QED
    BY <2>1 DEF Settled
<1>3. \A q \in Provider \ {p} : r \notin RecorderOf(q) /\ r \notin RecorderOf(q)'
  BY OwnProvider
<1>4. Atomic!Others(p)
  BY <1>3, OthersStay
<1> QED
  BY <1>1, <1>2, <1>4, SettledAfter

\* The INCR is the atomic record_failure.
LEMMA IncrRecords ==
    ASSUME TypeOK, TypeOK', NEW r \in Flow, FailureIncr(r), NEW p \in Provider, p = prov[r]
    PROVE  Atomic!RecordFailure(p)
<1> DEFINE n == failures[p] + 1
<1>0. failures \in [Provider -> Nat] /\ n \in Nat
  BY DEF TypeOK
<1>1. /\ pc[r] = "rf_incr" /\ UNCHANGED <<prov, circuit, mishaps>>
      /\ pc'[r] \in {"rf_expire", "rf_read"} /\ count'[r] = n
      /\ failures' = [failures EXCEPT ![p] = n]
      /\ \A f \in Flow \ {r} : pc'[f] = pc[f] /\ count'[f] = count[f]
  BY <1>0 DEF FailureIncr, TypeOK
<1> HIDE DEF n
<1>2. /\ p \notin Contended' => Settled(p) = circuit[p] /\ Settled(p)' = Due(r, p)'
      /\ Atomic!Others(p)
  BY <1>1, Begins DEF Recording, FailPC
<1>3. Due(r, p)' = IF n >= Threshold THEN "OPEN"
                   ELSE IF circuit[p] = "ABSENT" THEN "CLOSED" ELSE circuit[p]
  BY <1>1 DEF Due
<1> QED
  BY <1>1, <1>2, <1>3 DEF n, Atomic!RecordFailure, Atomic!Leaves, Atomic!Free

\* The DEL is the atomic record_success.
LEMMA DeleteRecords ==
    ASSUME TypeOK, TypeOK', NEW r \in Flow, SuccessDelete(r), NEW p \in Provider, p = prov[r]
    PROVE  Atomic!RecordSuccess(p)
<1>1. /\ pc[r] = "rs_del" /\ pc'[r] = "rs_close" /\ UNCHANGED <<prov, circuit, count, mishaps>>
      /\ failures' = [failures EXCEPT ![p] = 0]
      /\ \A f \in Flow \ {r} : pc'[f] = pc[f]
  BY DEF SuccessDelete, DropCounter, locals, TypeOK
<1>2. /\ p \notin Contended' => Settled(p)' = Due(r, p)'
      /\ Atomic!Others(p)
  BY <1>1, Begins DEF Recording, FailPC
<1>3. Due(r, p)' = "CLOSED"
  BY <1>1 DEF Due
<1> QED
  BY <1>1, <1>2, <1>3 DEF Atomic!RecordSuccess, Atomic!Leaves, Atomic!Free

\* The end of a window, and the eviction of the counter, change no circuit.
LEMMA CounterEnds ==
    ASSUME TypeOK, TypeOK', NEW p \in Provider, UNCHANGED <<circuit, pc, prov, count>>
    PROVE  Atomic!Others(p) /\ Settled(p)' = Settled(p)
<1>1. ASSUME NEW q \in Provider PROVE Settled(q)' = Settled(q)
  BY DEF Settled, Contended, RecorderOf, Due
<1>2. [q \in Provider |-> Settled(q)]' \in [Provider -> {"ABSENT", "CLOSED", "OPEN"}]
  BY SettledType
<1> QED
  BY <1>1, <1>2 DEF Atomic!Others, Atomic!Leaves

\* The GET and the decision: what the recorder is about to leave, if it is
\* alone, was settled by its count.
LEMMA ReadContends ==
    ASSUME TypeOK, TypeOK', NEW r \in Flow, FailureRead(r), NEW p \in Provider, p = prov[r]
    PROVE  Atomic!Contend(p)
<1>0. /\ Threshold \in Nat \ {0} /\ count[r] \in Nat /\ pc \in [Flow -> PC]
      /\ circuit[p] \in {"ABSENT", "CLOSED", "OPEN"}
  BY BreakerAssumption DEF TypeOK
<1>1. pc[r] = "rf_read" /\ UNCHANGED <<circuit, failures, mishaps>>
  BY DEF FailureRead, redis
<1>2. Due(r, p) = IF count[r] >= Threshold THEN "OPEN"
                  ELSE IF circuit[p] = "ABSENT" THEN "CLOSED" ELSE circuit[p]
  BY <1>1 DEF Due
<1>3. CASE Trips(count[r]) /\ pc' = [pc EXCEPT ![r] = "rf_trip"] /\ UNCHANGED locals
  <2>1. /\ UNCHANGED <<count, prov>> /\ pc'[r] = "rf_trip"
        /\ \A f \in Flow \ {r} : pc'[f] = pc[f]
    BY <1>0, <1>3 DEF locals
  <2>2. Due(r, p)' = "OPEN"
    BY <2>1 DEF Due
  <2>3. Due(r, p)' = Due(r, p)
    BY <1>2, <1>3, <2>2 DEF Trips
  <2> QED
    BY <1>1, <2>1, <2>3, RecordsOn DEF Recording, FailPC
<1>4. CASE /\ ~Trips(count[r]) /\ circuit[p] = "ABSENT"
           /\ pc' = [pc EXCEPT ![r] = "rf_init"] /\ UNCHANGED locals
  <2>1. /\ UNCHANGED <<count, prov>> /\ pc'[r] = "rf_init"
        /\ \A f \in Flow \ {r} : pc'[f] = pc[f]
    BY <1>0, <1>4 DEF locals
  <2>2. Due(r, p)' = "CLOSED"
    BY <2>1 DEF Due
  <2>3. Due(r, p)' = Due(r, p)
    BY <1>2, <1>4, <2>2 DEF Trips
  <2> QED
    BY <1>1, <2>1, <2>3, RecordsOn DEF Recording, FailPC
<1>5. CASE ~Trips(count[r]) /\ circuit[p] \notin {"ABSENT", "HALF_OPEN"} /\ Finish(r)
  <2>1. circuit'[p] = Due(r, p)
    BY <1>1, <1>2, <1>5 DEF Trips
  <2> QED
    BY <1>1, <1>5, <2>1, RecordsLast DEF Recording, FailPC
<1> QED
  BY <1>0, <1>3, <1>4, <1>5 DEF FailureRead

\* A recorder's SET does what was settled, if it is alone.
LEMMA SetContends ==
    ASSUME TypeOK, TypeOK', NEW r \in Flow, NEW p \in Provider, p = prov[r],
           FailureTrip(r) \/ FailureInit(r) \/ SuccessClose(r)
    PROVE  Atomic!Contend(p)
<1>1. PICK s \in {"OPEN", "CLOSED"} :
        /\ SetCircuit(p, s) /\ Finish(r) /\ UNCHANGED <<failures, mishaps>>
        /\ IF s = "OPEN" THEN pc[r] = "rf_trip" ELSE pc[r] \in {"rf_init", "rs_close"}
  BY DEF FailureTrip, FailureInit, SuccessClose
<1>2. circuit'[p] = s /\ \A q \in Provider \ {p} : circuit'[q] = circuit[q]
  BY <1>1 DEF SetCircuit, TypeOK
<1>3. Due(r, p) = s /\ pc[r] \in Recording
  BY <1>1 DEF Due, Recording, FailPC
<1> QED
  BY <1>1, <1>2, <1>3, RecordsLast

\* A recorder that dies, or a key that is dropped.
LEMMA DeathIsMishap ==
    ASSUME TypeOK, TypeOK', NEW r \in Flow, Abort(r), NEW p \in Provider, p = prov[r]
    PROVE  Atomic!Mishap(p)
<1>1. /\ UNCHANGED <<circuit, failures>> /\ mishaps' = mishaps + 1 /\ pc'[r] = "idle"
      /\ \A f \in Flow \ {r} : pc'[f] = pc[f] /\ prov'[f] = prov[f] /\ count'[f] = count[f]
  BY DEF Abort, Mishap, Finish, redis, TypeOK
<1>2. \A q \in Provider \ {p} : r \notin RecorderOf(q) /\ r \notin RecorderOf(q)'
  BY <1>1, OwnProvider DEF Recording, FailPC
<1>3. Atomic!Others(p)
  BY <1>1, <1>2, OthersStay
<1> QED
  BY <1>1, <1>3 DEF Atomic!Mishap

LEMMA EvictionIsMishap ==
    ASSUME TypeOK, TypeOK', NEW p \in Provider, EvictCounter(p) \/ EvictState(p)
    PROVE  Atomic!Mishap(p)
<1>1. CASE EvictCounter(p)
  <2>1. /\ UNCHANGED <<circuit, pc, prov, count>> /\ mishaps' = mishaps + 1
        /\ failures' = [failures EXCEPT ![p] = 0]
    BY <1>1 DEF EvictCounter, Mishap, DropCounter, locals
  <2> QED
    BY <2>1, CounterEnds DEF Atomic!Mishap
<1>2. CASE EvictState(p)
  <2>1. /\ UNCHANGED <<failures, pc, prov, count>> /\ mishaps' = mishaps + 1
        /\ \A q \in Provider \ {p} : circuit'[q] = circuit[q]
    BY <1>2 DEF EvictState, Mishap, SetCircuit, locals, TypeOK
  <2>2. ASSUME NEW q \in Provider \ {p} PROVE Settled(q)' = Settled(q)
    <3>1. RecorderOf(q)' = RecorderOf(q)
      BY <2>1 DEF RecorderOf
    <3> QED
      BY <2>1, <3>1, SettledElsewhere
  <2>3. [q \in Provider |-> Settled(q)]' \in [Provider -> {"ABSENT", "CLOSED", "OPEN"}]
    BY SettledType
  <2> QED
    BY <2>1, <2>2, <2>3 DEF Atomic!Mishap, Atomic!Others, Atomic!Leaves
<1> QED
  BY <1>1, <1>2

\* Each step is one of the atomic breaker, or a stutter.
LEMMA AtomicStep ==
    ASSUME TypeOK, TypeOK', [Next]_vars PROVE [Atomic!Next]_(Atomic!bvars)
<1>0. pc \in [Flow -> PC] /\ prov \in [Flow -> Provider] /\ count \in [Flow -> Nat]
  BY DEF TypeOK
<1>1. ASSUME NEW r \in Flow,
             \/ FailureIncr(r) \/ SuccessDelete(r) \/ FailureRead(r) \/ FailureExpire(r)
             \/ FailureTrip(r) \/ FailureInit(r) \/ SuccessClose(r) \/ Abort(r)
      PROVE  Atomic!Next
  <2>0. PICK p \in Provider : p = prov[r]
    BY <1>0
  <2>1. CASE FailureIncr(r)
    BY <2>0, <2>1, IncrRecords DEF Atomic!Next
  <2>2. CASE SuccessDelete(r)
    BY <2>0, <2>2, DeleteRecords DEF Atomic!Next
  <2>3. CASE FailureRead(r)
    BY <2>0, <2>3, ReadContends DEF Atomic!Next
  <2>4. CASE FailureTrip(r) \/ FailureInit(r) \/ SuccessClose(r)
    BY <2>0, <2>4, SetContends DEF Atomic!Next
  <2>5. CASE Abort(r)
    BY <2>0, <2>5, DeathIsMishap DEF Atomic!Next
  <2>6. CASE FailureExpire(r)
    <3>1. /\ UNCHANGED <<circuit, failures, count, prov, mishaps>> /\ pc[r] = "rf_expire"
          /\ pc'[r] = "rf_read" /\ \A f \in Flow \ {r} : pc'[f] = pc[f]
      BY <1>0, <2>6 DEF FailureExpire, locals
    <3>2. Due(r, p)' = Due(r, p)
      BY <3>1 DEF Due
    <3> QED
      BY <2>0, <3>1, <3>2, RecordsOn DEF Recording, FailPC, Atomic!Next
  <2> QED
    BY <1>1, <2>1, <2>2, <2>3, <2>4, <2>5, <2>6
<1>2. ASSUME NEW p \in Provider, WindowExpires(p) PROVE Atomic!Next
  <2>1. /\ UNCHANGED <<circuit, pc, prov, count, mishaps>>
        /\ failures' = [failures EXCEPT ![p] = 0]
    BY <1>2 DEF WindowExpires, DropCounter, locals
  <2>2. Atomic!WindowEnds(p)
    BY <2>1, CounterEnds DEF Atomic!WindowEnds, Atomic!Leaves
  <2> QED
    BY <2>2 DEF Atomic!Next
<1>3. ASSUME NEW p \in Provider, EvictCounter(p) \/ EvictState(p) PROVE Atomic!Next
  BY <1>3, EvictionIsMishap DEF Atomic!Next
<1>4. ASSUME NEW r \in Flow,
             Start(r) \/ (\E p \in Provider : StartForced(r, p))
                \/ (\E p \in Primary : ReadCircuit(r, p)) \/ Route(r)
                \/ CallFails(r) \/ CallSucceeds(r)
      PROVE  UNCHANGED Atomic!bvars
  <2>1. UNCHANGED <<circuit, failures, count, mishaps>> /\ pc[r] \in {"idle", "select", "call"}
    BY <1>4 DEF Start, StartForced, ReadCircuit, Route, CallFails, CallSucceeds, redis, locals
  <2>2. /\ \A f \in Flow \ {r} : pc'[f] = pc[f] /\ prov'[f] = prov[f]
        /\ pc'[r] \in {"select", "call", "rf_incr", "rs_del"}
    BY <1>0, <1>4 DEF Start, StartForced, ReadCircuit, Route, CallFails, CallSucceeds, locals
  <2> QED
    BY <2>1, <2>2, NotRecording DEF Recording, FailPC
<1>5. CASE UNCHANGED vars
  <2>1. UNCHANGED <<circuit, failures, pc, prov, count, mishaps>>
    BY <1>5 DEF vars, redis, locals
  <2>2. \A p \in Provider : RecorderOf(p)' = RecorderOf(p)
    BY <2>1 DEF RecorderOf
  <2> QED
    BY <2>1, <2>2, AllStay DEF Atomic!bvars
<1> QED
  BY <1>1, <1>2, <1>3, <1>4, <1>5 DEF Next, Progress

\* Nobody is at work, and every circuit is absent in both.
LEMMA AtomicInit == Init => Atomic!Init
<1> SUFFICES ASSUME Init PROVE Atomic!Init
  OBVIOUS
<1>1. \A p \in Provider : RecorderOf(p) = {}
  BY DEF Init, RecorderOf, FailPC
<1>2. Contended = {}
  BY <1>1 DEF Contended
<1>3. \A p \in Provider : Settled(p) = "ABSENT"
  BY <1>1 DEF Settled, Init
<1> QED
  BY <1>2, <1>3 DEF Init, Atomic!Init

\* On a provider for which one outcome at a time is being recorded nobody can
\* tell record_failure and record_success, awaits and all, from the atomic
\* operations their docstrings describe; that outcomes of other providers, or
\* earlier ones of this provider, overlapped does not matter, and the counter is
\* the atomic one even while they do.
THEOREM AtomicWhenAlone == Spec => ImplementsAtomic
<1>1. TypeOK /\ TypeOK' /\ [Next]_vars => [Atomic!Next]_(Atomic!bvars)
  BY AtomicStep
<1> QED
  BY <1>1, AtomicInit, Typing, PTL DEF Spec, ImplementsAtomic, Atomic!Spec
=============================================================================
