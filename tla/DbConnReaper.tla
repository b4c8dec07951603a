--------------------------- MODULE DbConnReaper ---------------------------
(***************************************************************************)
(* The tick loop of one database worker (DbConnReaper.Reap in              *)
(* internal/reaper/database.go): which metrics are due, the batch, the     *)
(* individual retries, the degraded metrics and the cache of instance-     *)
(* level metrics, which workers of other databases of the instance share.  *)
(*                                                                         *)
(* Time is kept as ages that saturate where the code stops telling them    *)
(* apart, so no bound on the length of a behaviour is needed.  How a       *)
(* worker is started and cancelled is in module Reaper.  The map of        *)
(* metrics is iterated in arbitrary order: sets stand for its slices.      *)
(* Every answer has rows; the restart event that db_stats may add and the  *)
(* log parser, which runs beside this loop once started, are left out.     *)
(*                                                                         *)
(* A definition Defect_X is not part of the specification: it is a slip    *)
(* the definition below it could have, kept to show that the properties    *)
(* notice it.                                                              *)
(***************************************************************************)
EXTENDS Naturals, FiniteSets

CONSTANTS
  Metric,        \* names of the metrics that are configured for the source
  Interval,      \* [Metric -> Nat]: seconds; 0 switches a metric off
  InstanceLevel, \* the metrics shared through the cache
  Direct,        \* OS metrics, change_events, instance_up: never in a batch
  Fragile,       \* the metrics whose query may fail
  RoleBound,     \* the metrics that may be undefined or excluded by role
  CacheAge,      \* --instance-level-cache-max-seconds
  MaxConns       \* --max-parallel-connections-per-db

Divides(d, n) == \E q \in 0..n : d * q = n
Floored(m) == IF Interval[m] < 1 THEN 1 ELSE Interval[m]

Defect_LongestInterval ==
  CHOOSE i \in {Floored(m) : m \in Metric} : \A m \in Metric : Floored(m) <= i

\* calcTickInterval: the GCD of the intervals, each floored to a second.
TickInterval ==
  IF Metric = {} THEN 1
  ELSE CHOOSE g \in 1..Floored(CHOOSE m \in Metric : TRUE) :
         LET IsCommon(h) == \A m \in Metric : Divides(h, Floored(m))
         IN IsCommon(g) /\ \A h \in 1..Floored(CHOOSE m \in Metric : TRUE) : IsCommon(h) => h <= g

ASSUME CollectorAssumption ==
  /\ Interval \in [Metric -> Nat]
  /\ InstanceLevel \subseteq Metric /\ Direct \subseteq Metric
  /\ Fragile \subseteq Metric /\ RoleBound \subseteq Metric
  /\ CacheAge \in Nat /\ MaxConns \in Nat \ {0}

VARIABLES
  isPostgres, \* the kind of the source: FALSE for pgbouncer and pgpool
  up,         \* the server answers
  health,     \* [Metric -> Outcome]: what the query of a metric does by itself
  applicable, \* metrics that are defined and not excluded by the role
  pc,         \* where the loop is
  visit,      \* due metrics the scan has not visited yet
  batch,      \* metrics collected for the batch of this tick
  queue,      \* entries of the batch whose result was not read yet
  retries,    \* entries to fetch individually
  aborted,    \* an entry failed: the server skips the rest of the batch
  degraded,   \* degradedMetrics
  age,        \* [Metric -> Nat]: seconds since lastFetch, saturating
  timer,      \* seconds until the next tick
  cacheAge,   \* [Metric -> Nat]: seconds since the cached data was fetched
  \* history
  due,        \* metrics due in this tick
  sound,      \* metrics that would have answered throughout this tick
  served,     \* metrics whose data was fetched in this tick
  beats       \* [Metric -> Nat]: ticks since the last visit

envVars   == <<isPostgres, up, health, applicable>>
scanVars  == <<visit, batch, queue, retries, aborted>>
timeVars  == <<age, timer, cacheAge>>
histVars  == <<due, sound, served, beats>>
vars == <<envVars, pc, scanVars, degraded, timeVars, histVars>>

Outcome == {"ok", "query", "rows", "nosql"}

TypeOK ==
  /\ isPostgres \in BOOLEAN
  /\ up \in BOOLEAN /\ health \in [Metric -> Outcome] /\ applicable \in SUBSET Metric
  /\ pc \in {"tick", "scan", "batch", "retry", "each", "wait"}
  /\ visit \in SUBSET Metric /\ batch \in SUBSET Metric
  /\ queue \in SUBSET Metric /\ retries \in SUBSET Metric /\ aborted \in BOOLEAN
  /\ degraded \in SUBSET Metric
  /\ age \in [Metric -> Nat] /\ timer \in Nat /\ cacheAge \in [Metric -> Nat]
  /\ due \in SUBSET Metric /\ sound \in SUBSET Metric /\ served \in SUBSET Metric
  /\ beats \in [Metric -> Nat]

Init ==
  /\ isPostgres \in BOOLEAN
  /\ up = TRUE /\ health = [m \in Metric |-> "ok"] /\ applicable = Metric
  /\ pc = "tick"
  /\ visit = {} /\ batch = {} /\ queue = {} /\ retries = {} /\ aborted = FALSE
  /\ degraded = {}
  /\ age = Interval /\ timer = 0
  /\ cacheAge = [m \in Metric |-> CacheAge + 1]
  /\ due = {} /\ sound = {} /\ served = {} /\ beats = [m \in Metric |-> 0]

-----------------------------------------------------------------------------
(* The environment: the server, sibling workers, time.                     *)

Answers(m) == up /\ health[m] = "ok"

ServerFailsOrRecovers ==
  /\ up' = ~up /\ sound' = IF up THEN {} ELSE sound
  /\ UNCHANGED <<isPostgres, health, applicable, pc, scanVars, degraded, timeVars, due, served, beats>>

\* A query starts or stops failing: a missing extension or privilege, a
\* statement timeout, an error in one row, no SQL for the server's version.
QueryChanges(m) ==
  /\ m \in Fragile
  /\ \E r \in Outcome \ {health[m]} : health' = [health EXCEPT ![m] = r]
  /\ sound' = sound \ {m}
  /\ UNCHANGED <<isPostgres, up, applicable, pc, scanVars, degraded, timeVars, due, served, beats>>

\* A failover, or a new metric definition.
RoleChanges(m) ==
  /\ m \in RoleBound
  /\ applicable' = IF m \in applicable THEN applicable \ {m} ELSE applicable \cup {m}
  /\ sound' = sound \ {m}
  /\ UNCHANGED <<isPostgres, up, health, pc, scanVars, degraded, timeVars, due, served, beats>>

\* The worker of another database of the instance fills the cache.
SiblingPut(m) ==
  /\ m \in InstanceLevel
  /\ cacheAge' = [cacheAge EXCEPT ![m] = 0]
  /\ UNCHANGED <<envVars, pc, scanVars, degraded, age, timer, histVars>>

\* A second passes, whatever the worker is doing.
Second ==
  /\ age' = [m \in Metric |-> IF age[m] < Interval[m] THEN age[m] + 1 ELSE age[m]]
  /\ cacheAge' = [m \in Metric |-> IF cacheAge[m] <= CacheAge THEN cacheAge[m] + 1 ELSE cacheAge[m]]
  /\ timer' = IF timer > 0 THEN timer - 1 ELSE 0
  /\ UNCHANGED <<envVars, pc, scanVars, degraded, histVars>>

-----------------------------------------------------------------------------
(* The scan over the active metrics.                                       *)

\* A metric is due when it was never fetched or not within its interval; the
\* moment is taken once for the whole scan.
IsDue(m) == Interval[m] > 0 /\ age[m] >= Interval[m]

BeginTick ==
  /\ pc = "tick"
  /\ pc' = "scan"
  /\ visit' = {m \in Metric : IsDue(m)} /\ due' = visit'
  /\ batch' = {} /\ served' = {}
  /\ sound' = {m \in applicable : Answers(m)}
  /\ beats' = [m \in Metric |-> IF Interval[m] > 0 THEN beats[m] + 1 ELSE 0]
  /\ UNCHANGED <<envVars, queue, retries, aborted, degraded, timeVars>>

\* Cacheable(m) is cacheKey(m) # "", CacheHit(m) that Get finds fresh data.
Cacheable(m) == m \in InstanceLevel /\ CacheAge > 0 /\ Interval[m] < CacheAge
CacheHit(m)  == Cacheable(m) /\ cacheAge[m] <= CacheAge

\* Everything the visit of one metric does besides what it fetched.
Visit(m) ==
  /\ pc = "scan" /\ m \in visit
  /\ visit' = visit \ {m}
  /\ beats' = [beats EXCEPT ![m] = 0]
  /\ UNCHANGED <<envVars, pc, queue, retries, aborted, timer, due, sound>>

\* lastFetch[m] = time.Now()
Fetched(m) == age' = [age EXCEPT ![m] = 0]

\* dispatchMetricData: into the cache and to measurementCh.
Dispatch(m) ==
  /\ served' = served \cup {m}
  /\ cacheAge' = IF Cacheable(m) THEN [cacheAge EXCEPT ![m] = 0] ELSE cacheAge

\* Undefined or excluded by its role: not even lastFetch is set.
VisitInapplicable(m) ==
  /\ Visit(m) /\ m \notin applicable
  /\ UNCHANGED <<batch, degraded, age, cacheAge, served>>

VisitDirect(m) ==
  /\ Visit(m) /\ m \in applicable \cap Direct
  /\ Fetched(m)
  /\ served' = IF Answers(m) THEN served \cup {m} ELSE served
  /\ UNCHANGED <<batch, degraded, cacheAge>>

VisitCached(m) ==
  /\ Visit(m) /\ m \in applicable \ Direct /\ CacheHit(m)
  /\ Fetched(m)
  /\ served' = served \cup {m}
  /\ UNCHANGED <<batch, degraded, cacheAge>>

VisitUnsupported(m) ==
  /\ Visit(m) /\ m \in applicable \ Direct /\ ~CacheHit(m) /\ health[m] = "nosql"
  /\ Fetched(m)
  /\ UNCHANGED <<batch, degraded, cacheAge, served>>

Defect_MarkStays(m) == degraded

\* clearDegraded
Cleared(m) == degraded \ {m}

\* fetchMetric on its own connection; a success clears the mark.
VisitDegraded(m) ==
  /\ Visit(m) /\ m \in (applicable \cap degraded) \ Direct
  /\ ~CacheHit(m) /\ health[m] # "nosql"
  /\ Fetched(m)
  /\ IF Answers(m)
     THEN Dispatch(m) /\ degraded' = Cleared(m)
     ELSE UNCHANGED <<served, cacheAge, degraded>>
  /\ UNCHANGED batch

VisitBatched(m) ==
  /\ Visit(m) /\ m \in (applicable \ degraded) \ Direct
  /\ ~CacheHit(m) /\ health[m] # "nosql"
  /\ batch' = batch \cup {m}
  /\ UNCHANGED <<degraded, age, cacheAge, served>>

\* The batch is sent, or each entry fetched by itself, or there is nothing.
EndScan ==
  /\ pc = "scan" /\ visit = {}
  /\ pc' = IF batch = {} THEN "wait" ELSE IF isPostgres THEN "batch" ELSE "each"
  /\ timer' = IF batch = {} THEN TickInterval ELSE timer
  /\ queue' = batch /\ retries' = {} /\ aborted' = FALSE
  /\ UNCHANGED <<envVars, visit, batch, degraded, age, cacheAge, histVars>>

-----------------------------------------------------------------------------
(* executeBatch: results are read in order on one connection of the pool,  *)
(* which is released when executeBatch returns.                            *)

\* Query fails: for the entry itself, or because an earlier one aborted the batch.
QueryFails(m) == aborted \/ ~up \/ health[m] \in {"query", "nosql"}

Defect_FirstErrorOnly(m) == QueryFails(m) /\ ~aborted

\* Which entries are fetched again: all those whose Query returned an error, not
\* those whose error only shows while the rows are read.
NeedsRetry(m) == QueryFails(m)

BatchResult(m) ==
  /\ pc = "batch" /\ m \in queue
  /\ queue' = queue \ {m}
  /\ aborted' = (aborted \/ ~Answers(m))
  /\ retries' = IF NeedsRetry(m) THEN retries \cup {m} ELSE retries
  /\ IF ~QueryFails(m) /\ Answers(m) THEN Dispatch(m) ELSE UNCHANGED <<served, cacheAge>>
  /\ UNCHANGED <<envVars, pc, visit, batch, degraded, age, timer, due, sound, beats>>

BatchRead ==
  /\ pc = "batch" /\ queue = {}
  /\ pc' = "retry"
  /\ UNCHANGED <<envVars, scanVars, degraded, timeVars, histVars>>

Defect_CascadeIsFailure(m) == Answers(m) /\ MaxConns > 1 /\ ~aborted

\* A retry needs a second connection: the batch still holds the first.
RetryWorks(m) == Answers(m) /\ MaxConns > 1

Retry(m) ==
  /\ pc = "retry" /\ m \in retries
  /\ retries' = retries \ {m}
  /\ IF RetryWorks(m)
     THEN Dispatch(m) /\ UNCHANGED degraded
     ELSE degraded' = degraded \cup {m} /\ UNCHANGED <<served, cacheAge>>
  /\ UNCHANGED <<envVars, pc, visit, batch, queue, aborted, age, timer, due, sound, beats>>

\* pgbouncer and pgpool: fetchMetric for each entry, nothing is degraded.
FetchEach(m) ==
  /\ pc = "each" /\ m \in queue
  /\ queue' = queue \ {m}
  /\ IF Answers(m) THEN Dispatch(m) ELSE UNCHANGED <<served, cacheAge>>
  /\ UNCHANGED <<envVars, pc, visit, batch, retries, aborted, degraded, age, timer,
                 due, sound, beats>>

\* The entries of the batch get their lastFetch, then the select starts its timer.
EndBatch ==
  /\ \/ pc = "retry" /\ retries = {}
     \/ pc = "each" /\ queue = {}
  /\ pc' = "wait"
  /\ age' = [m \in Metric |-> IF m \in batch THEN 0 ELSE age[m]]
  /\ timer' = TickInterval
  /\ UNCHANGED <<envVars, scanVars, degraded, cacheAge, histVars>>

NextTick ==
  /\ pc = "wait" /\ timer = 0
  /\ pc' = "tick"
  /\ UNCHANGED <<envVars, scanVars, degraded, timeVars, histVars>>

-----------------------------------------------------------------------------
Environment ==
  \/ ServerFailsOrRecovers
  \/ \E m \in Metric : QueryChanges(m) \/ RoleChanges(m) \/ SiblingPut(m)

Reap ==
  \/ BeginTick \/ EndScan \/ BatchRead \/ EndBatch \/ NextTick
  \/ \E m \in Metric :
       \/ VisitInapplicable(m) \/ VisitDirect(m) \/ VisitCached(m)
       \/ VisitUnsupported(m) \/ VisitDegraded(m) \/ VisitBatched(m)
       \/ BatchResult(m) \/ Retry(m) \/ FetchEach(m)

Next == Environment \/ Second \/ Reap

Spec == Init /\ [][Next]_vars

\* The worker runs, and time passes.
FairSpec == Spec /\ WF_vars(Reap) /\ WF_vars(Second)

-----------------------------------------------------------------------------
(* Properties.                                                             *)

\* The failure of one metric never costs another its measurement: when the
\* tick is over, every due metric that would have answered throughout it was
\* served, from the batch, by a retry, from the cache or individually.
Isolation ==
  pc = "wait" => due \cap sound \subseteq served

\* A metric is marked degraded only when its own query failed: a victim of an
\* aborted batch is not (executeBatch, "to isolate real failures from cascade
\* failures").
DegradedForCause ==
  [][\A m \in degraded' \ degraded : ~Answers(m)]_vars

\* Whatever time fetching takes, no metric skips a beat: one whose interval is
\* k ticks is visited at the latest k ticks after the previous visit, because
\* lastFetch is taken before the timer of the next tick starts.
NoBeatSkipped ==
  \A m \in Metric : Interval[m] > 0 => beats[m] * TickInterval <= Interval[m]

\* A degraded metric that answers again returns to the batch for good.
DegradedRecovers ==
  \A m \in Metric \ InstanceLevel :
    <>[](Answers(m) /\ m \in applicable /\ Interval[m] > 0) => <>[](m \notin degraded)
====
