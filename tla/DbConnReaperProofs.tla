------------------------ MODULE DbConnReaperProofs ------------------------
(***************************************************************************)
(* What executeBatch promises, for every set of metrics, every interval    *)
(* and every order of results, when the pool has a second connection.      *)
(***************************************************************************)
EXTENDS DbConnReaper, Integers, FiniteSetTheorems, WellFoundedInduction, TLAPS

\* What remains of the tick: where a due metric that answers still is.
Pending ==
  /\ sound \subseteq {m \in applicable : Answers(m)}
  /\ pc = "scan" => due \cap sound \subseteq visit \cup batch \cup served
  /\ pc \in {"batch", "each"} => due \cap sound \subseteq queue \cup retries \cup served
  /\ pc = "each" => retries = {}
  /\ pc = "retry" => due \cap sound \subseteq retries \cup served
  /\ pc = "wait" => due \cap sound \subseteq served

\* Pending holds before the first tick.
LEMMA InitPending == Init => Pending
BY DEF Init, Pending

\* The environment can only make a metric unsound; it never loses one.
LEMMA EnvironmentPending == Pending /\ (Environment \/ Second) => Pending'
<1> SUFFICES ASSUME Pending, Environment \/ Second PROVE Pending'  OBVIOUS
<1> USE DEF Pending, Answers, envVars, scanVars, timeVars, histVars
<1>1. CASE ServerFailsOrRecovers  BY <1>1 DEF ServerFailsOrRecovers
<1>2. ASSUME NEW m \in Metric, QueryChanges(m) PROVE Pending'  BY <1>2 DEF QueryChanges
<1>3. ASSUME NEW m \in Metric, RoleChanges(m) PROVE Pending'  BY <1>3 DEF RoleChanges
<1>4. ASSUME NEW m \in Metric, SiblingPut(m) PROVE Pending'  BY <1>4 DEF SiblingPut
<1>5. CASE Second  BY <1>5 DEF Second
<1> QED  BY <1>1, <1>2, <1>3, <1>4, <1>5 DEF Environment

\* No step of the loop drops a metric that answers, if a retry can get a connection.
LEMMA ReapPending ==
  ASSUME MaxConns > 1, Pending, Reap PROVE Pending'
<1> USE DEF Pending, Answers, envVars, scanVars, timeVars, histVars
<1>1. CASE BeginTick  BY <1>1 DEF BeginTick
<1>2. CASE EndScan  BY <1>2 DEF EndScan
<1>3. CASE BatchRead  BY <1>3 DEF BatchRead
<1>4. CASE EndBatch  BY <1>4 DEF EndBatch
<1>5. CASE NextTick  BY <1>5 DEF NextTick
<1>6. ASSUME NEW m \in Metric, VisitInapplicable(m) PROVE Pending'
  BY <1>6 DEF VisitInapplicable, Visit
<1>7. ASSUME NEW m \in Metric, VisitDirect(m) PROVE Pending'
  BY <1>7 DEF VisitDirect, Visit
<1>8. ASSUME NEW m \in Metric, VisitCached(m) PROVE Pending'
  BY <1>8 DEF VisitCached, Visit
<1>9. ASSUME NEW m \in Metric, VisitUnsupported(m) PROVE Pending'
  BY <1>9 DEF VisitUnsupported, Visit
<1>10. ASSUME NEW m \in Metric, VisitDegraded(m) PROVE Pending'
  BY <1>10 DEF VisitDegraded, Visit, Dispatch
<1>11. ASSUME NEW m \in Metric, VisitBatched(m) PROVE Pending'
  BY <1>11 DEF VisitBatched, Visit
<1>12. ASSUME NEW m \in Metric, BatchResult(m) PROVE Pending'
  BY <1>12 DEF BatchResult, NeedsRetry, Dispatch
<1>13. ASSUME NEW m \in Metric, Retry(m) PROVE Pending'
  BY <1>13 DEF Retry, RetryWorks, Dispatch
<1>14. ASSUME NEW m \in Metric, FetchEach(m) PROVE Pending'
  BY <1>14 DEF FetchEach, Dispatch
<1> QED  BY <1>1, <1>2, <1>3, <1>4, <1>5, <1>6, <1>7, <1>8, <1>9, <1>10, <1>11,
            <1>12, <1>13, <1>14 DEF Reap

\* With more than one connection per database, the failure of one metric never
\* costs another its measurement, in whatever order a batch answers.
THEOREM MetricsAreIsolated == ASSUME MaxConns > 1 PROVE Spec => []Isolation
<1>1. Pending /\ UNCHANGED vars => Pending'
  BY DEF Pending, Answers, vars, envVars, scanVars, histVars
<1>2. Pending /\ [Next]_vars => Pending'
  BY <1>1, EnvironmentPending, ReapPending DEF Next
<1>3. Pending => Isolation  BY DEF Pending, Isolation
<1> QED  BY InitPending, <1>2, <1>3, PTL DEF Spec

\* With more than one connection per database, a metric is marked degraded only
\* by the failure of its own query.
THEOREM DegradedByOwnFailure == ASSUME MaxConns > 1 PROVE Spec => DegradedForCause
<1>1. ASSUME [Next]_vars, NEW m \in degraded' \ degraded PROVE ~Answers(m)
  <2>1. \/ UNCHANGED degraded
        \/ \E n \in Metric : VisitDegraded(n) \/ Retry(n)
    BY <1>1 DEF Next, Environment, Reap, vars, ServerFailsOrRecovers, QueryChanges,
       RoleChanges, SiblingPut, Second, BeginTick, EndScan, BatchRead, EndBatch, NextTick,
       VisitInapplicable, VisitDirect, VisitCached, VisitUnsupported, VisitBatched,
       BatchResult, FetchEach
  <2>2. CASE UNCHANGED degraded  BY <1>1, <2>2
  <2>3. ASSUME NEW n \in Metric, VisitDegraded(n) PROVE ~Answers(m)
    BY <1>1, <2>3 DEF VisitDegraded, Cleared
  <2>4. ASSUME NEW n \in Metric, Retry(n) PROVE ~Answers(m)
    BY <1>1, <2>4 DEF Retry, RetryWorks
  <2> QED  BY <2>1, <2>2, <2>3, <2>4
<1>2. [Next]_vars => [\A m \in degraded' \ degraded : ~Answers(m)]_vars  BY <1>1
<1> QED  BY <1>2, PTL DEF Spec, DegradedForCause

-----------------------------------------------------------------------------
(* No beat is skipped.                                                     *)

\* A set of naturals has a least member: of the intervals from 0 to each of
\* them, one is minimal for inclusion.
LEMMA LeastNat ==
  ASSUME NEW S \in SUBSET Nat, S # {}
  PROVE  \E i \in S : \A j \in S : i <= j
<1> DEFINE T == {0..i : i \in S}
<1>1. T \subseteq FiniteSubsetsOf(Nat) /\ T # {}
  <2>1. \A i \in S : IsFiniteSet(0..i) /\ 0..i \in SUBSET Nat
    BY FS_Interval
  <2> QED BY <2>1 DEF FiniteSubsetsOf
<1>2. \E t \in T : \A u \in T : <<u, t>> \notin StrictSubsetOrdering(Nat)
  <2> HIDE DEF T
  <2> QED BY <1>1, WFMin, FS_StrictSubsetOrderingWellFounded, Zenon
<1>3. PICK i \in S : \A j \in S : <<0..j, 0..i>> \notin StrictSubsetOrdering(Nat)
  BY <1>2
<1>4. ASSUME NEW j \in S PROVE i <= j
  <2>1. SUFFICES ASSUME j < i PROVE FALSE OBVIOUS
  <2>2. 0..j \subseteq 0..i /\ i \in 0..i /\ i \notin 0..j BY <2>1
  <2>3. 0..j # 0..i BY <2>2, Zenon
  <2>4. <<0..j, 0..i>> \in (SUBSET Nat) \X (SUBSET Nat) OBVIOUS
  <2> QED BY <2>2, <2>3, <2>4, <1>3 DEF StrictSubsetOrdering
<1> QED BY <1>4

\* A bounded set of naturals has a greatest member.
LEMMA GreatestNat ==
  ASSUME NEW N \in Nat, NEW S \in SUBSET (0..N), S # {}
  PROVE  \E i \in S : \A j \in S : i >= j
<1> DEFINE T == {N - i : i \in S}
<1>1. \A i \in S : i \in Int /\ N - i \in Nat OBVIOUS
<1>2. T \in SUBSET Nat /\ T # {} BY <1>1
<1>3. PICK t \in T : \A u \in T : t <= u
  <2> HIDE DEF T
  <2> QED BY <1>2, LeastNat
<1>4. PICK i \in S : t = N - i OBVIOUS
<1>5. \A j \in S : N - i <= N - j BY <1>3, <1>4
<1> HIDE DEF T
<1>6. \A j \in S : i >= j BY <1>1, <1>5
<1> QED BY <1>6

\* calcTickInterval returns a common divisor of the intervals.
LEMMA TickDivides ==
  /\ TickInterval \in Nat \ {0}
  /\ \A m \in Metric : Interval[m] > 0 => \E k \in Nat : TickInterval * k = Interval[m]
<1>1. CASE Metric = {}
  BY <1>1 DEF TickInterval
<1>2. CASE Metric # {}
  <2> DEFINE F == Floored(CHOOSE m \in Metric : TRUE)
             IsCommon(h) == \A m \in Metric : Divides(h, Floored(m))
             S == {h \in 1..F : IsCommon(h)}
  <2>1. \A m \in Metric : Floored(m) \in Nat \ {0} /\ (Interval[m] > 0 => Floored(m) = Interval[m])
    BY CollectorAssumption DEF Floored
  <2>2. F \in Nat \ {0}
    BY <1>2, <2>1
  <2>3. 1 \in S
    BY <2>1, <2>2 DEF Divides
  <2>4. \E g \in S : \A h \in S : g >= h
    <3> HIDE DEF IsCommon, F
    <3>1. S \in SUBSET (0..F) /\ F \in Nat /\ S # {}
      BY <2>2, <2>3
    <3> HIDE DEF S
    <3> QED
      BY <3>1, GreatestNat
  <2>5. PICK g \in 1..F : IsCommon(g) /\ \A h \in 1..F : IsCommon(h) => h <= g
    <3> HIDE DEF IsCommon, F
    <3> QED
      BY <2>2, <2>4
  <2>6. TickInterval = CHOOSE h \in 1..F : IsCommon(h) /\ \A i \in 1..F : IsCommon(i) => i <= h
    BY <1>2 DEF TickInterval
  <2>7. TickInterval \in 1..F /\ IsCommon(TickInterval)
    <3> HIDE DEF IsCommon, F
    <3> QED
      BY <2>5, <2>6
  <2> QED
    BY <2>1, <2>2, <2>7 DEF Divides
<1> QED
  BY <1>1, <1>2

\* A multiple of the tick below an interval is at least a tick below it.
LEMMA NextMultiple ==
  ASSUME NEW g \in Nat \ {0}, NEW b \in Nat, NEW k \in Nat, b * g < g * k
  PROVE  b * g + g <= g * k
<1>1. b < k
  <2>1. SUFFICES ASSUME k <= b
                 PROVE  g * k <= b * g
    OBVIOUS
  <2> QED
    BY <2>1
<1>2. PICK d \in Nat : k = b + 1 + d
  BY <1>1
<1>3. g * k = b * g + g + g * d /\ g * d \in Nat /\ b * g \in Nat
  BY <1>2
<1> QED
  BY <1>3

\* What the proof needs of the types.
Clocks ==
  /\ age \in [Metric -> Nat] /\ beats \in [Metric -> Nat] /\ timer \in Nat
  /\ visit \subseteq Metric /\ batch \subseteq Metric

\* At the next tick a metric is due, or as old as the beats it will have
\* missed by then; and it has missed at most as many as its interval has.
Waiting(m) ==
  /\ beats[m] * TickInterval + TickInterval <= Interval[m]
  /\ age[m] >= Interval[m] \/ age[m] + timer >= beats[m] * TickInterval + TickInterval

\* The same once the scan has visited the metric, or was not to visit it.
Passed(m) ==
  /\ beats[m] * TickInterval + TickInterval <= Interval[m]
  /\ m \in batch => beats[m] = 0
  /\ age[m] >= Interval[m] \/ age[m] >= beats[m] * TickInterval

InStep(m) ==
  /\ pc \in {"tick", "wait"} => Waiting(m)
  /\ (pc = "scan" /\ m \in visit) => beats[m] * TickInterval <= Interval[m] /\ age[m] >= Interval[m]
  /\ (pc = "scan" /\ m \notin visit) => Passed(m)
  /\ pc \in {"batch", "each", "retry"} => Passed(m)

BInv ==
  /\ Clocks
  /\ pc \in {"tick", "scan", "batch", "retry", "each", "wait"}
  /\ pc = "tick" => timer = 0
  /\ \A m \in Metric : Interval[m] > 0 => InStep(m)

LEMMA TickFacts ==
  ASSUME NEW m \in Metric, Interval[m] > 0, Clocks
  PROVE  /\ TickInterval \in Nat /\ TickInterval > 0 /\ TickInterval <= Interval[m] /\ Interval[m] \in Nat
         /\ beats[m] \in Nat /\ age[m] \in Nat /\ timer \in Nat /\ beats[m] * TickInterval \in Nat
         /\ beats[m] = 0 => beats[m] * TickInterval = 0
         /\ beats[m] * TickInterval < Interval[m] => beats[m] * TickInterval + TickInterval <= Interval[m]
<1>1. /\ TickInterval \in Nat \ {0} /\ Interval[m] \in Nat
      /\ beats[m] \in Nat /\ age[m] \in Nat /\ timer \in Nat
  BY TickDivides, CollectorAssumption DEF Clocks
<1>2. PICK k \in Nat : TickInterval * k = Interval[m]
  BY TickDivides
<1>3. beats[m] * TickInterval < Interval[m] => beats[m] * TickInterval + TickInterval <= Interval[m]
  BY <1>1, <1>2, NextMultiple
<1>4. 0 * TickInterval + TickInterval <= Interval[m]
  <2>1. 0 * TickInterval = 0
    BY <1>1
  <2> QED
    BY <1>1, <1>2, <2>1, NextMultiple
<1>5. beats[m] * TickInterval \in Nat /\ 0 * TickInterval = 0
  BY <1>1
<1> QED
  BY <1>1, <1>3, <1>4, <1>5

\* The steps that leave the clocks of the loop alone.
LEMMA BeatFrame ==
  ASSUME BInv, UNCHANGED <<pc, visit, batch, age, timer, beats>>
  PROVE  BInv'
BY DEF BInv, Clocks, InStep, Waiting, Passed

\* A visit resets the beats of its metric.
LEMMA VisitBeats ==
  ASSUME BInv, NEW n \in Metric, Visit(n), Interval[n] > 0,
         \/ Fetched(n) /\ batch' = batch
         \/ age' = age /\ batch' = batch
         \/ age' = age /\ batch' = batch \cup {n}
  PROVE  BInv'
<1>1. /\ pc = "scan" /\ pc' = "scan" /\ timer' = timer /\ n \in visit /\ visit' = visit \ {n}
      /\ beats' = [beats EXCEPT ![n] = 0]
  BY DEF Visit
<1>2. Clocks' /\ beats'[n] = 0 /\ \A m \in Metric \ {n} : beats'[m] = beats[m] /\ age'[m] = age[m]
  BY <1>1 DEF BInv, Clocks, Fetched
<1>3. ASSUME NEW m \in Metric, Interval[m] > 0
      PROVE  InStep(m)'
  <2>1. CASE m = n
    <3>1. /\ beats'[n] * TickInterval = 0 /\ age'[n] >= 0 /\ TickInterval <= Interval[n]
          /\ TickInterval \in Nat /\ age'[n] \in Nat
      BY <1>2, <1>3, <2>1, TickFacts DEF BInv, Clocks
    <3>2. Passed(n)'
      BY <1>2, <3>1 DEF Passed
    <3> QED
      BY <1>1, <2>1, <3>2 DEF InStep
  <2>2. CASE m # n
    <3>1. InStep(m)
      BY <1>3 DEF BInv
    <3>2. m \in visit' <=> m \in visit
      BY <1>1, <2>2
    <3>3. m \in batch' <=> m \in batch
      BY <2>2
    <3> QED
      BY <1>1, <1>2, <2>2, <3>1, <3>2, <3>3 DEF InStep, Passed
  <2> QED
    BY <2>1, <2>2
<1> QED
  BY <1>1, <1>2, <1>3 DEF BInv

LEMMA BeatsKept ==
  ASSUME BInv, visit \subseteq {m \in Metric : Interval[m] > 0}, [Next]_vars
  PROVE  BInv'
<1>1. CASE UNCHANGED vars
  BY <1>1, BeatFrame DEF vars, scanVars, timeVars, histVars
<1>2. CASE Environment
  <2>1. UNCHANGED <<pc, visit, batch, age, timer, beats>>
    BY <1>2 DEF Environment, ServerFailsOrRecovers, QueryChanges, RoleChanges, SiblingPut,
                scanVars, timeVars, histVars
  <2> QED
    BY <2>1, BeatFrame
<1>3. CASE Second
  <2>1. /\ age' = [m \in Metric |-> IF age[m] < Interval[m] THEN age[m] + 1 ELSE age[m]]
        /\ timer' = (IF timer > 0 THEN timer - 1 ELSE 0)
        /\ UNCHANGED <<pc, visit, batch, beats>>
    BY <1>3 DEF Second, scanVars, histVars
  <2>2. Clocks'
    BY <2>1 DEF BInv, Clocks
  <2>3. ASSUME NEW m \in Metric, Interval[m] > 0
        PROVE  InStep(m)'
    <3>1. /\ InStep(m) /\ Interval[m] \in Nat /\ age[m] \in Nat /\ timer \in Nat /\ TickInterval \in Nat
          /\ beats[m] * TickInterval \in Nat
      BY <2>3, TickFacts DEF BInv
    <3>2. age'[m] >= age[m] /\ (age'[m] >= Interval[m] \/ age'[m] = age[m] + 1) /\ age'[m] \in Nat
      BY <2>1, <3>1
    <3>3. timer' \in Nat /\ timer' + 1 >= timer
      BY <2>1, <3>1
    <3>4. Waiting(m) => Waiting(m)'
      BY <2>1, <3>1, <3>2, <3>3 DEF Waiting
    <3>5. Passed(m) => Passed(m)'
      BY <2>1, <3>1, <3>2 DEF Passed
    <3>6. age[m] >= Interval[m] => age'[m] >= Interval[m]
      BY <3>1, <3>2
    <3> QED
      BY <2>1, <3>1, <3>4, <3>5, <3>6 DEF InStep
  <2> QED
    BY <2>1, <2>2, <2>3 DEF BInv
<1>4. CASE BeginTick
  <2>1. /\ pc = "tick" /\ pc' = "scan" /\ visit' = {m \in Metric : IsDue(m)} /\ batch' = {}
        /\ beats' = [m \in Metric |-> IF Interval[m] > 0 THEN beats[m] + 1 ELSE 0]
        /\ UNCHANGED <<age, timer>>
    BY <1>4 DEF BeginTick, timeVars
  <2>2. Clocks'
    BY <2>1 DEF BInv, Clocks
  <2>3. ASSUME NEW m \in Metric, Interval[m] > 0
        PROVE  InStep(m)'
    <3>1. /\ Interval[m] \in Nat /\ age[m] \in Nat /\ timer = 0 /\ TickInterval \in Nat
          /\ beats[m] \in Nat /\ beats[m] * TickInterval \in Nat
      BY <2>1, <2>3, TickFacts DEF BInv
    <3>2. Waiting(m)
      BY <2>1, <2>3 DEF BInv, InStep
    <3>3. beats'[m] * TickInterval = beats[m] * TickInterval + TickInterval /\ beats'[m] \in Nat
      <4>1. beats'[m] = beats[m] + 1
        BY <2>1, <2>3
      <4>2. (beats[m] + 1) * TickInterval = beats[m] * TickInterval + TickInterval
        BY <3>1
      <4> QED
        BY <3>1, <4>1, <4>2
    <3>4. CASE IsDue(m)
      <4>1. m \in visit' /\ age'[m] >= Interval[m]
        BY <2>1, <3>4 DEF IsDue
      <4> QED
        BY <2>1, <3>2, <3>3, <4>1 DEF InStep, Waiting
    <3>5. CASE ~IsDue(m)
      <4>1. m \notin visit' /\ age[m] < Interval[m]
        BY <2>1, <2>3, <3>1, <3>5 DEF IsDue
      <4>2. age[m] >= beats'[m] * TickInterval /\ beats'[m] * TickInterval < Interval[m]
        BY <3>1, <3>2, <3>3, <4>1 DEF Waiting
      <4>3. beats'[m] * TickInterval + TickInterval <= Interval[m]
        <5>1. TickInterval \in Nat \ {0} /\ \E k \in Nat : TickInterval * k = Interval[m]
          BY <2>3, TickDivides
        <5> QED
          BY <3>3, <4>2, <5>1, NextMultiple
      <4> QED
        BY <2>1, <4>1, <4>2, <4>3 DEF InStep, Passed
    <3> QED
      BY <3>4, <3>5
  <2> QED
    BY <2>1, <2>2, <2>3 DEF BInv
<1>5. ASSUME NEW n \in Metric,
             \/ VisitInapplicable(n) \/ VisitDirect(n) \/ VisitCached(n)
             \/ VisitUnsupported(n) \/ VisitDegraded(n) \/ VisitBatched(n)
      PROVE  BInv'
  <2>1. Visit(n)
    BY <1>5 DEF VisitInapplicable, VisitDirect, VisitCached, VisitUnsupported, VisitDegraded, VisitBatched
  <2>2. Interval[n] > 0
    BY <2>1 DEF Visit
  <2>3. \/ Fetched(n) /\ batch' = batch
        \/ age' = age /\ batch' = batch
        \/ age' = age /\ batch' = batch \cup {n}
    BY <1>5 DEF VisitInapplicable, VisitDirect, VisitCached, VisitUnsupported, VisitDegraded, VisitBatched
  <2> QED
    BY <2>1, <2>2, <2>3, VisitBeats
<1>6. CASE EndScan
  <2>1. /\ pc = "scan" /\ visit = {} /\ UNCHANGED <<visit, batch, age, beats>>
        /\ \/ batch # {} /\ pc' \in {"batch", "each"} /\ timer' = timer
           \/ batch = {} /\ pc' = "wait" /\ timer' = TickInterval
    BY <1>6 DEF EndScan, histVars
  <2>2. Clocks'
    BY <2>1, TickDivides DEF BInv, Clocks
  <2>3. ASSUME NEW m \in Metric, Interval[m] > 0
        PROVE  InStep(m)'
    <3>1. /\ Passed(m) /\ Interval[m] \in Nat /\ age[m] \in Nat /\ TickInterval \in Nat
          /\ beats[m] * TickInterval \in Nat
      BY <2>1, <2>3, TickFacts DEF BInv, InStep
    <3>2. CASE pc' = "wait"
      <4>1. Waiting(m)'
        BY <2>1, <3>1, <3>2 DEF Passed, Waiting
      <4> QED
        BY <3>2, <4>1 DEF InStep
    <3>3. CASE pc' \in {"batch", "each"}
      BY <2>1, <3>1, <3>3 DEF InStep, Passed
    <3> QED
      BY <2>1, <3>2, <3>3
  <2> QED
    BY <2>1, <2>2, <2>3 DEF BInv
<1>7. CASE BatchRead \/ \E n \in Metric : BatchResult(n) \/ Retry(n) \/ FetchEach(n)
  <2>1. /\ pc \in {"batch", "each", "retry"} /\ pc' \in {"batch", "each", "retry"}
        /\ UNCHANGED <<visit, batch, age, timer, beats>>
    BY <1>7 DEF BatchRead, BatchResult, Retry, FetchEach, scanVars, timeVars, histVars
  <2> QED
    BY <2>1 DEF BInv, Clocks, InStep, Passed
<1>8. CASE EndBatch
  <2>1. /\ pc \in {"each", "retry"} /\ pc' = "wait" /\ timer' = TickInterval
        /\ age' = [m \in Metric |-> IF m \in batch THEN 0 ELSE age[m]]
        /\ UNCHANGED <<visit, batch, beats>>
    BY <1>8 DEF EndBatch, scanVars, histVars
  <2>2. Clocks'
    BY <2>1, TickDivides DEF BInv, Clocks
  <2>3. ASSUME NEW m \in Metric, Interval[m] > 0
        PROVE  InStep(m)'
    <3>1. /\ Passed(m) /\ Interval[m] \in Nat /\ age[m] \in Nat /\ TickInterval \in Nat
          /\ beats[m] * TickInterval \in Nat /\ (beats[m] = 0 => beats[m] * TickInterval = 0)
      BY <2>1, <2>3, TickFacts DEF BInv, InStep
    <3>2. IF m \in batch THEN age'[m] = 0 /\ beats[m] * TickInterval = 0 ELSE age'[m] = age[m]
      BY <2>1, <3>1 DEF Passed
    <3>3. Waiting(m)'
      BY <2>1, <3>1, <3>2 DEF Passed, Waiting
    <3> QED
      BY <2>1, <3>3 DEF InStep
  <2> QED
    BY <2>1, <2>2, <2>3 DEF BInv
<1>9. CASE NextTick
  BY <1>9 DEF NextTick, BInv, Clocks, InStep, Waiting, scanVars, timeVars, histVars
<1> QED
  BY <1>1, <1>2, <1>3, <1>4, <1>5, <1>6, <1>7, <1>8, <1>9 DEF Next, Reap

\* The scan only visits metrics that are switched on.
VisitsOn == visit \subseteq {m \in Metric : Interval[m] > 0}

\* However long fetching takes, a metric whose interval is k ticks is visited
\* at the latest k ticks after the previous visit, for all intervals.
THEOREM EveryBeatIsKept == Spec => []NoBeatSkipped
<1>1. Init => BInv /\ VisitsOn
  <2> SUFFICES ASSUME Init
               PROVE  BInv /\ VisitsOn
    OBVIOUS
  <2>1. Clocks
    BY CollectorAssumption DEF Init, Clocks
  <2>2. ASSUME NEW m \in Metric, Interval[m] > 0
        PROVE  Waiting(m)
    BY <2>1, <2>2, TickFacts DEF Init, Waiting
  <2> QED
    BY <2>1, <2>2 DEF Init, BInv, InStep, VisitsOn
<1>2. VisitsOn /\ [Next]_vars => VisitsOn'
  <2> SUFFICES ASSUME VisitsOn, [Next]_vars
               PROVE  visit' \subseteq visit \/ visit' \subseteq {m \in Metric : IsDue(m)}
    BY DEF VisitsOn, IsDue
  <2>1. CASE \E m \in Metric : Visit(m)
    BY <2>1 DEF Visit
  <2>2. CASE BeginTick
    BY <2>2 DEF BeginTick
  <2>3. CASE UNCHANGED visit
    BY <2>3
  <2> QED
    BY <2>1, <2>2, <2>3 DEF Next, Environment, Reap, vars, ServerFailsOrRecovers, QueryChanges,
       RoleChanges, SiblingPut, Second, EndScan, BatchRead, EndBatch, NextTick,
       VisitInapplicable, VisitDirect, VisitCached, VisitUnsupported, VisitDegraded, VisitBatched,
       BatchResult, Retry, FetchEach, scanVars
<1>3. BInv /\ VisitsOn /\ [Next]_vars => BInv'
  BY BeatsKept DEF VisitsOn
<1>4. BInv => NoBeatSkipped
  <2> SUFFICES ASSUME BInv, NEW m \in Metric, Interval[m] > 0
               PROVE  beats[m] * TickInterval <= Interval[m]
    BY DEF NoBeatSkipped
  <2>1. TickInterval \in Nat /\ beats[m] * TickInterval \in Nat /\ Interval[m] \in Nat /\ InStep(m)
    BY TickFacts DEF BInv
  <2> QED
    BY <2>1 DEF BInv, InStep, Waiting, Passed
<1> QED
  BY <1>1, <1>2, <1>3, <1>4, PTL DEF Spec

-----------------------------------------------------------------------------
(* Types.                                                                  *)

\* What a fetch gives goes to the sinks and, if cacheable, into the cache.
LEMMA DispatchType ==
  ASSUME TypeOK, NEW m \in Metric, Dispatch(m) \/ UNCHANGED <<served, cacheAge>>
  PROVE  served' \in SUBSET Metric /\ cacheAge' \in [Metric -> Nat]
BY DEF TypeOK, Dispatch

LEMMA EnvironmentType == TypeOK /\ (Environment \/ Second) => TypeOK'
<1> SUFFICES ASSUME TypeOK, Environment \/ Second PROVE TypeOK'  OBVIOUS
<1> USE DEF TypeOK, envVars, scanVars, timeVars, histVars
<1>1. CASE ServerFailsOrRecovers
  <2>1. up' \in BOOLEAN  BY <1>1, Zenon DEF ServerFailsOrRecovers
  <2>2. sound' \in SUBSET Metric  BY <1>1 DEF ServerFailsOrRecovers
  <2> QED  BY <1>1, <2>1, <2>2 DEF ServerFailsOrRecovers
<1>2. ASSUME NEW m \in Metric, QueryChanges(m) PROVE TypeOK'  BY <1>2 DEF QueryChanges
<1>3. ASSUME NEW m \in Metric, RoleChanges(m) PROVE TypeOK'  BY <1>3 DEF RoleChanges
<1>4. ASSUME NEW m \in Metric, SiblingPut(m) PROVE TypeOK'  BY <1>4 DEF SiblingPut
<1>5. CASE Second
  <2>1. age' \in [Metric -> Nat] /\ timer' \in Nat  BY <1>5 DEF Second
  <2>2. cacheAge' \in [Metric -> Nat]  BY <1>5 DEF Second
  <2> QED  BY <1>5, <2>1, <2>2 DEF Second
<1> QED  BY <1>1, <1>2, <1>3, <1>4, <1>5 DEF Environment

LEMMA VisitType ==
  ASSUME TypeOK, NEW m \in Metric, Visit(m), age' = age \/ Fetched(m), batch' \in {batch, batch \cup {m}},
         served' \in SUBSET Metric, cacheAge' \in [Metric -> Nat], degraded' \in SUBSET Metric
  PROVE  TypeOK'
<1>1. age' \in [Metric -> Nat]  BY DEF TypeOK, Fetched
<1>2. visit' \in SUBSET Metric /\ batch' \in SUBSET Metric /\ beats' \in [Metric -> Nat]  BY DEF TypeOK, Visit
<1> QED  BY <1>1, <1>2 DEF TypeOK, Visit, envVars

LEMMA ReapType == TypeOK /\ Reap => TypeOK'
<1> SUFFICES ASSUME TypeOK, Reap PROVE TypeOK'  OBVIOUS
<1>1. CASE BeginTick
  <2>1. /\ visit' \in SUBSET Metric /\ due' \in SUBSET Metric /\ batch' \in SUBSET Metric
        /\ served' \in SUBSET Metric /\ sound' \in SUBSET Metric
    BY <1>1 DEF BeginTick, TypeOK
  <2>2. beats' \in [Metric -> Nat]  BY <1>1 DEF BeginTick, TypeOK
  <2> QED  BY <1>1, <2>1, <2>2 DEF BeginTick, TypeOK, envVars, timeVars
<1>2. CASE EndScan
  <2>1. timer' \in Nat  BY <1>2, TickDivides DEF EndScan, TypeOK
  <2>2. pc' \in {"wait", "batch", "each"}  BY <1>2 DEF EndScan
  <2> QED  BY <1>2, <2>1, <2>2 DEF EndScan, TypeOK, envVars, histVars
<1>3. CASE BatchRead  BY <1>3 DEF BatchRead, TypeOK, envVars, scanVars, timeVars, histVars
<1>4. CASE EndBatch
  <2>1. timer' \in Nat /\ age' \in [Metric -> Nat]  BY <1>4, TickDivides DEF EndBatch, TypeOK
  <2> QED  BY <1>4, <2>1 DEF EndBatch, TypeOK, envVars, scanVars, histVars
<1>5. CASE NextTick  BY <1>5 DEF NextTick, TypeOK, envVars, scanVars, timeVars, histVars
<1>6. ASSUME NEW m \in Metric, VisitInapplicable(m) \/ VisitUnsupported(m) PROVE TypeOK'
  BY <1>6, VisitType DEF VisitInapplicable, VisitUnsupported, TypeOK
<1>7. ASSUME NEW m \in Metric, VisitDirect(m) \/ VisitCached(m) PROVE TypeOK'
  <2>1. served' \in SUBSET Metric  BY <1>7 DEF VisitDirect, VisitCached, TypeOK
  <2> QED  BY <1>7, <2>1, VisitType DEF VisitDirect, VisitCached, TypeOK
<1>8. ASSUME NEW m \in Metric, VisitDegraded(m) PROVE TypeOK'
  <2>1. served' \in SUBSET Metric /\ cacheAge' \in [Metric -> Nat]  BY <1>8, DispatchType DEF VisitDegraded
  <2>2. degraded' \in SUBSET Metric  BY <1>8 DEF VisitDegraded, Cleared, TypeOK
  <2> QED  BY <1>8, <2>1, <2>2, VisitType DEF VisitDegraded
<1>9. ASSUME NEW m \in Metric, VisitBatched(m) PROVE TypeOK'
  BY <1>9, VisitType DEF VisitBatched, TypeOK
<1>10. ASSUME NEW m \in Metric, BatchResult(m) PROVE TypeOK'
  <2>1. served' \in SUBSET Metric /\ cacheAge' \in [Metric -> Nat]  BY <1>10, DispatchType DEF BatchResult
  <2>2. aborted' \in BOOLEAN
    <3>1. aborted' = (aborted \/ ~Answers(m))  BY <1>10 DEF BatchResult
    <3> QED  BY <3>1, Zenon
  <2>3. queue' \in SUBSET Metric /\ retries' \in SUBSET Metric  BY <1>10 DEF BatchResult, TypeOK
  <2> QED  BY <1>10, <2>1, <2>2, <2>3 DEF BatchResult, TypeOK, envVars
<1>11. ASSUME NEW m \in Metric, Retry(m) PROVE TypeOK'
  <2>1. served' \in SUBSET Metric /\ cacheAge' \in [Metric -> Nat]  BY <1>11, DispatchType DEF Retry
  <2>2. retries' \in SUBSET Metric /\ degraded' \in SUBSET Metric  BY <1>11 DEF Retry, TypeOK
  <2> QED  BY <1>11, <2>1, <2>2 DEF Retry, TypeOK, envVars
<1>12. ASSUME NEW m \in Metric, FetchEach(m) PROVE TypeOK'
  <2>1. served' \in SUBSET Metric /\ cacheAge' \in [Metric -> Nat]  BY <1>12, DispatchType DEF FetchEach
  <2> QED  BY <1>12, <2>1 DEF FetchEach, TypeOK, envVars
<1> QED  BY <1>1, <1>2, <1>3, <1>4, <1>5, <1>6, <1>7, <1>8, <1>9, <1>10, <1>11, <1>12 DEF Reap

\* For any metrics, intervals and cache age the variables of the loop keep their
\* types: only configured metrics are visited, queued, retried or degraded, and
\* the timer never runs below zero.
THEOREM TypeCorrect == Spec => []TypeOK
<1>1. Init => TypeOK
  <2> SUFFICES ASSUME Init PROVE TypeOK  OBVIOUS
  <2>1. up \in BOOLEAN /\ aborted \in BOOLEAN /\ isPostgres \in BOOLEAN  BY Zenon DEF Init
  <2>2. /\ health \in [Metric -> Outcome] /\ age \in [Metric -> Nat] /\ timer \in Nat
        /\ cacheAge \in [Metric -> Nat] /\ beats \in [Metric -> Nat]
    BY CollectorAssumption DEF Init, Outcome
  <2> QED  BY <2>1, <2>2 DEF Init, TypeOK
<1>2. TypeOK /\ UNCHANGED vars => TypeOK'
  <2> SUFFICES ASSUME TypeOK, UNCHANGED vars PROVE TypeOK'  OBVIOUS
  <2>1. UNCHANGED <<envVars, pc, scanVars, degraded, timeVars, histVars>>  BY DEF vars
  <2> QED  BY <2>1 DEF TypeOK, envVars, scanVars, timeVars, histVars
<1>3. TypeOK /\ [Next]_vars => TypeOK'  BY <1>2, EnvironmentType, ReapType DEF Next
<1> QED  BY <1>1, <1>3, PTL DEF Spec
=============================================================================
