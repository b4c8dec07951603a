--------------------------- MODULE PostgresSink ---------------------------
(***************************************************************************)
(* The PostgreSQL sink (internal/sinks/postgres.go): poll and its cache,   *)
(* the flush with its check of the time partitions and its cursor over the *)
(* sorted envelopes, beside the retention job and an operator who may drop *)
(* partitions.  Storage schema "postgres".                                 *)
(*                                                                         *)
(* Metric names are numbers, ordered as strings are; time is counted in    *)
(* partitions (the day, by default).  CopyFrom streams rows from the       *)
(* cursor while the server may report an error at any moment; a copy is    *)
(* stored as a whole or not at all.  Indexes start at 0, as in the code.   *)
(* The tables exist: SyncMetric and the ensure function create them.       *)
(*                                                                         *)
(* A definition Defect_X is not part of the specification: it is a slip    *)
(* the definition below it could have, kept to show that the properties    *)
(* notice it.                                                              *)
(***************************************************************************)
EXTENDS Naturals, Integers, Sequences, FiniteSets

CONSTANTS
  Metric,      \* names of the metrics
  Fragile,     \* the metrics whose copy may fail for reasons of its own
  RowCounts,   \* how many measurements an envelope may hold
  CacheLimit,  \* envelopes that make poll flush before its ticker (256)
  Precreate,   \* partitions_to_precreate (3 in the SQL function)
  Retention,   \* --retention, in partitions
  MaxDelay,    \* how old a measurement may be when it is written
  LastDay,     \* bound on time
  MayFail,     \* the connection to the database may fail
  MayDrop      \* an operator may drop partitions

NoMetric == 0
Day == 0..LastDay + Precreate

ASSUME SinkAssumption ==
  /\ Metric \subseteq Nat \ {NoMetric} /\ Fragile \subseteq Metric
  /\ RowCounts \subseteq Nat
  /\ CacheLimit \in Nat \ {0}
  /\ Precreate \in Nat /\ Retention \in Nat /\ MaxDelay \in Nat /\ LastDay \in Nat
  /\ MayFail \in BOOLEAN /\ MayDrop \in BOOLEAN
  /\ MaxDelay <= Retention    \* data is younger than what retention drops

VARIABLES
  \* the environment
  today,          \* the current partition of time
  parts,          \* [Metric -> SUBSET Day]: the partitions that exist
  \* the writer
  cache,          \* sequence of envelopes, sorted from the flush on
  pc,             \* where poll is
  todo,           \* metrics whose partitions are still to be ensured
  half,           \* the metric whose start is ensured and whose end is not
  ensured,        \* EnsureMetricTimePartsExist returned no error in this flush
  partitionMap,   \* [Metric -> Day \cup {-1}]: partitionMapMetric, -1 if absent
  force,          \* forceRecreatePartitions
  \* copyFromMeasurements
  envelopeIdx, measurementIdx, metricName,
  copying,        \* the metric CopyFrom is called for
  \* history: of the current flush,
  sent,           \* rows streamed in the current copy
  stored,         \* [Metric -> sequence of rows]: what was committed
  failed,         \* metrics whose copy failed
  jumped,         \* metrics whose batch starts past the partition in the cache
  \* and across flushes, until the metric is ensured by force,
  dropped         \* [Metric -> DropState]: the partitions were dropped by hand

envVars    == <<today, parts>>
ensureVars == <<todo, half, ensured, partitionMap, force>>
cursorVars == <<envelopeIdx, measurementIdx, metricName>>
copyVars   == <<copying, sent, stored, failed, jumped, dropped>>
vars == <<envVars, cache, pc, ensureVars, cursorVars, copyVars>>

\* "noticed" once a copy has failed for it.
DropState == {"no", "unnoticed", "noticed"}
Envelope == [metric: Metric, day: 0..LastDay, rows: RowCounts]
\* A row is known by the place of its envelope and its own place in it.
Row == Nat \X Nat

TypeOK ==
  /\ today \in 0..LastDay
  /\ parts \in [Metric -> SUBSET Day] /\ dropped \in [Metric -> DropState]
  /\ cache \in Seq(Envelope) /\ Len(cache) <= CacheLimit
  /\ pc \in {"poll", "flush", "ensure", "copy", "stream", "drained", "returned"}
  /\ todo \in SUBSET Metric /\ half \in Metric \cup {NoMetric}
  /\ ensured \in BOOLEAN /\ force \in BOOLEAN
  /\ partitionMap \in [Metric -> Day \cup {-1}]
  /\ envelopeIdx \in Int /\ -1 <= envelopeIdx /\ envelopeIdx <= Len(cache)
  /\ measurementIdx \in Int
  /\ metricName \in Metric \cup {NoMetric} /\ copying \in Metric \cup {NoMetric}
  /\ sent \in Seq(Row) /\ stored \in [Metric -> Seq(Row)]
  /\ failed \in SUBSET Metric /\ jumped \in SUBSET Metric

Init ==
  /\ today = 0
  /\ parts = [m \in Metric |-> {}] /\ dropped = [m \in Metric |-> "no"]
  /\ cache = <<>> /\ pc = "poll"
  /\ todo = {} /\ half = NoMetric /\ ensured = FALSE /\ force = FALSE
  /\ partitionMap = [m \in Metric |-> -1]
  /\ envelopeIdx = -1 /\ measurementIdx = -1 /\ metricName = NoMetric
  /\ copying = NoMetric
  /\ sent = <<>> /\ stored = [m \in Metric |-> <<>>]
  /\ failed = {} /\ jumped = {}

-----------------------------------------------------------------------------
(* The environment.                                                        *)

\* Time moves on, unless that would make a measurement on its way too old.  No
\* metric need be stored in every partition: sources pause and go down.
NextDay ==
  /\ today < LastDay
  /\ \A i \in DOMAIN cache : cache[i].day > today - MaxDelay
  /\ today' = today + 1
  /\ UNCHANGED <<parts, cache, pc, ensureVars, cursorVars, copyVars>>

\* The upper bound of the partition lies before now - older_than.
Expired(d) == d + 1 <= today - Retention

\* DeleteOldPartitions, a job beside poll.  The locks of a copy hold it up.
DeleteOldPartitions ==
  /\ copying = NoMetric /\ pc # "returned"
  /\ \E m \in Metric, d \in Day : d \in parts[m] /\ Expired(d)
  /\ parts' = [m \in Metric |-> {d \in parts[m] : ~Expired(d)}]
  /\ UNCHANGED <<today, cache, pc, ensureVars, cursorVars, copyVars>>

\* An operator drops the partitions of a metric by hand.
PartitionsDropped(m) ==
  /\ MayDrop /\ copying = NoMetric /\ parts[m] # {}
  /\ parts' = [parts EXCEPT ![m] = {}]
  /\ dropped' = [dropped EXCEPT ![m] = "unnoticed"]
  /\ UNCHANGED <<today, cache, pc, ensureVars, cursorVars, copying, sent, stored, failed, jumped>>

-----------------------------------------------------------------------------
(* Write and poll.                                                         *)

\* poll takes an envelope that Write put on the channel.  What waits there is
\* any envelope of the last MaxDelay days: Write blocks while the channel is
\* full and drops its envelope after highLoadTimeout.
Received(m) ==
  \E d \in 0..today, n \in RowCounts :
    /\ d >= today - MaxDelay
    /\ cache' = Append(cache, [metric |-> m, day |-> d, rows |-> n])

Defect_LimitOff(m) ==
  /\ pc = "poll" /\ Received(m)
  /\ pc' = IF Len(cache') <= CacheLimit THEN "poll" ELSE "flush"
  /\ UNCHANGED <<envVars, ensureVars, cursorVars, copyVars>>

PollReceive(m) ==
  /\ pc = "poll" /\ Received(m)
  /\ pc' = IF Len(cache') < CacheLimit THEN "poll" ELSE "flush"
  /\ UNCHANGED <<envVars, ensureVars, cursorVars, copyVars>>

\* The ticker; flush returns at once when there is nothing to flush.
PollTick ==
  /\ pc = "poll" /\ cache # <<>>
  /\ pc' = "flush"
  /\ UNCHANGED <<envVars, cache, ensureVars, cursorVars, copyVars>>

\* The context is done: poll returns, and what it has cached is never written.
PollReturns ==
  /\ pc = "poll"
  /\ pc' = "returned"
  /\ UNCHANGED <<envVars, cache, ensureVars, cursorVars, copyVars>>

-----------------------------------------------------------------------------
(* flush, up to the copies.                                                *)

\* slices.SortFunc by metric name; envelopes of one metric in any order.
SortedBy(s) ==
  {[i \in DOMAIN s |-> s[p[i]]] : p \in
     {q \in [DOMAIN s -> DOMAIN s] :
        /\ \A i, j \in DOMAIN s : i # j => q[i] # q[j]
        /\ \A i, j \in DOMAIN s : i < j => s[q[i]].metric <= s[q[j]].metric}}

\* The days of the data of m, the first and the last of them: pgPartBounds.
DaysOf(m)  == {cache[i].day : i \in {j \in DOMAIN cache : cache[j].metric = m /\ cache[j].rows > 0}}
StartOf(m) == CHOOSE d \in DaysOf(m) : \A e \in DaysOf(m) : d <= e
EndOf(m)   == CHOOSE d \in DaysOf(m) : \A e \in DaysOf(m) : d >= e

BeginFlush ==
  /\ pc = "flush"
  /\ cache' \in SortedBy(cache)
  /\ pc' = "ensure"
  /\ todo' = {m \in Metric : DaysOf(m)' # {}} /\ ensured' = TRUE
  /\ UNCHANGED <<envVars, half, partitionMap, force, cursorVars, copyVars>>

\* admin.ensure_partition_metric_time: if no partition holds the day, one is
\* created and Precreate more after it.
PartitionsWith(m, d) ==
  IF d \in parts[m] THEN parts
  ELSE [parts EXCEPT ![m] = @ \cup (d..d + Precreate)]

Ensure(m, d) ==
  /\ parts' = PartitionsWith(m, d)
  /\ partitionMap' = [partitionMap EXCEPT ![m] = d]

NeedsStart(m) == partitionMap[m] = -1 \/ StartOf(m) < partitionMap[m] \/ force

Defect_EndInclusive(m) == EndOf(m) > partitionMap[m] + 1 \/ force

\* The cached partition ends where the next one starts.
NeedsEnd(m) == EndOf(m) >= partitionMap[m] + 1 \/ force

EnsureStart(m) ==
  /\ pc = "ensure" /\ half = NoMetric /\ m \in todo
  /\ \/ NeedsStart(m) /\ Ensure(m, StartOf(m))
     \/ ~NeedsStart(m) /\ UNCHANGED <<parts, partitionMap>>
  /\ half' = m
  /\ jumped' = IF NeedsStart(m) \/ StartOf(m) = partitionMap[m] THEN jumped ELSE jumped \cup {m}
  /\ dropped' = IF force THEN [dropped EXCEPT ![m] = "no"] ELSE dropped
  /\ UNCHANGED <<today, cache, pc, todo, ensured, force, cursorVars, copying, sent, stored, failed>>

EnsureEnd(m) ==
  /\ pc = "ensure" /\ half = m
  /\ \/ NeedsEnd(m) /\ Ensure(m, EndOf(m))
     \/ ~NeedsEnd(m) /\ UNCHANGED <<parts, partitionMap>>
  /\ half' = NoMetric /\ todo' = todo \ {m}
  /\ UNCHANGED <<today, cache, pc, ensured, force, cursorVars, copyVars>>

\* An error, of the database or of the context, ends the loop over the metrics;
\* the copies are tried all the same.
EnsureFails(m) ==
  /\ pc = "ensure" /\ MayFail
  /\ \/ half = NoMetric /\ m \in todo /\ NeedsStart(m)
     \/ half = m /\ NeedsEnd(m)
  /\ half' = NoMetric /\ todo' = {} /\ ensured' = FALSE
  /\ pc' = "copy" /\ force' = FALSE
  /\ UNCHANGED <<envVars, cache, partitionMap, cursorVars, copyVars>>

EnsureDone ==
  /\ pc = "ensure" /\ half = NoMetric /\ todo = {}
  /\ pc' = "copy" /\ force' = FALSE
  /\ UNCHANGED <<envVars, cache, todo, half, ensured, partitionMap, cursorVars, copyVars>>

-----------------------------------------------------------------------------
(* copyFromMeasurements: a cursor over the sorted envelopes.               *)

Size == Len(cache)
MetricAt(i) == cache[i + 1].metric
RowsAt(i)   == cache[i + 1].rows
EOF == envelopeIdx >= Size

Least(S) == CHOOSE i \in S : \A j \in S : i <= j

\* The metric of the next envelope; NoMetric is the empty identifier.
MetricName == IF envelopeIdx + 1 < Size THEN MetricAt(envelopeIdx + 1) ELSE NoMetric

\* Next goes to the first envelope that has rows, or is of another metric, or
\* is past the end.
CurrentName == IF metricName = NoMetric THEN MetricName ELSE metricName
Landing == Least({i \in envelopeIdx + 1..Size :
                    i < Size => MetricAt(i) # CurrentName \/ RowsAt(i) > 0})

WithinEnvelope == envelopeIdx >= 0 /\ measurementIdx + 1 < RowsAt(envelopeIdx)

\* Next returns TRUE, at a row.
NextRow ==
  \/ /\ WithinEnvelope
     /\ measurementIdx' = measurementIdx + 1
     /\ UNCHANGED <<envelopeIdx, metricName>>
  \/ /\ ~WithinEnvelope
     /\ Landing < Size /\ MetricAt(Landing) = CurrentName
     /\ envelopeIdx' = Landing /\ measurementIdx' = 0 /\ metricName' = CurrentName

\* Next returns FALSE: at the end, or before an envelope of another metric.
NextNone ==
  /\ ~WithinEnvelope
  /\ \/ /\ Landing = Size
        /\ envelopeIdx' = Size /\ measurementIdx' = -1 /\ metricName' = CurrentName
     \/ /\ Landing < Size /\ MetricAt(Landing) # CurrentName
        /\ envelopeIdx' = Landing - 1
        /\ measurementIdx' = RowsAt(Landing - 1)
        /\ metricName' = NoMetric

Defect_SkipOneEnvelope(m) ==
  /\ envelopeIdx' = IF envelopeIdx + 2 >= Size THEN Size ELSE envelopeIdx + 1
  /\ measurementIdx' = IF envelopeIdx' = Size THEN measurementIdx ELSE RowsAt(envelopeIdx')
  /\ metricName' = NoMetric

Defect_SkipBack(m) ==
  /\ envelopeIdx' = Least({i \in 0..Size - 1 : MetricAt(i) = m}) - 1
  /\ measurementIdx' = IF envelopeIdx' = -1 THEN -1 ELSE RowsAt(envelopeIdx')
  /\ metricName' = NoMetric

\* Past the envelopes of metric m that follow; to the end if none is left.
SkipMetric(m) ==
  LET others == {i \in envelopeIdx + 1..Size - 1 : MetricAt(i) # m}
  IN IF m = NoMetric THEN UNCHANGED cursorVars
     ELSE /\ IF others = {}
             THEN envelopeIdx' = Size /\ UNCHANGED measurementIdx
             ELSE /\ envelopeIdx' = Least(others) - 1
                  /\ measurementIdx' = RowsAt(envelopeIdx')
          /\ metricName' = NoMetric

-----------------------------------------------------------------------------
(* flush: the copies.                                                      *)

FlushOver ==
  /\ pc' = "poll" /\ cache' = <<>> /\ ensured' = FALSE
  /\ envelopeIdx' = -1 /\ measurementIdx' = -1 /\ metricName' = NoMetric
  /\ stored' = [m \in Metric |-> <<>>] /\ failed' = {} /\ jumped' = {}

\* CopyFrom gets a connection and starts to stream the rows of a metric.
BeginCopy ==
  /\ pc = "copy" /\ ~EOF
  /\ copying' = MetricName /\ sent' = <<>>
  /\ pc' = "stream"
  /\ UNCHANGED <<envVars, cache, ensureVars, cursorVars, stored, failed, jumped, dropped>>

\* It gets none: whatever is left of the flush is dropped.
ConnectFails ==
  /\ pc = "copy" /\ ~EOF /\ MayFail
  /\ FlushOver
  /\ UNCHANGED <<envVars, todo, half, partitionMap, force, copying, sent, dropped>>

StreamRow ==
  /\ pc = "stream"
  /\ NextRow
  /\ sent' = Append(sent, <<envelopeIdx', measurementIdx'>>)
  /\ UNCHANGED <<envVars, cache, pc, ensureVars, copying, stored, failed, jumped, dropped>>

StreamEnd ==
  /\ pc = "stream"
  /\ NextNone
  /\ pc' = "drained"
  /\ UNCHANGED <<envVars, cache, ensureVars, copyVars>>

\* The table of the metric has a partition for every row it was sent.
Routable == \A k \in DOMAIN sent : cache[sent[k][1] + 1].day \in parts[copying]

StoredWithSent == [stored EXCEPT ![copying] = @ \o sent]

CopySucceeds ==
  /\ pc = "drained" /\ Routable
  /\ stored' = StoredWithSent
  /\ copying' = NoMetric /\ sent' = <<>> /\ pc' = "copy"
  /\ UNCHANGED <<envVars, cache, ensureVars, cursorVars, failed, jumped, dropped>>

\* What the flush does after any error but a failure to connect.
CopyFailed ==
  /\ SkipMetric(copying)
  /\ failed' = failed \cup {copying}
  /\ copying' = NoMetric /\ sent' = <<>> /\ pc' = "copy"
  /\ UNCHANGED <<envVars, cache, todo, half, ensured, partitionMap, jumped>>

\* PgError 23514: a row has no partition.
PartitionMissing ==
  /\ pc \in {"stream", "drained"} /\ ~Routable
  /\ CopyFailed
  /\ force' = TRUE
  /\ dropped' = IF dropped[copying] = "no" THEN dropped ELSE [dropped EXCEPT ![copying] = "noticed"]
  /\ UNCHANGED stored

\* Any other PgError.
CopyRefused ==
  /\ pc \in {"stream", "drained"} /\ copying \in Fragile
  /\ CopyFailed
  /\ force' = FALSE
  /\ UNCHANGED <<stored, dropped>>

\* The connection breaks, perhaps between the commit and the answer.
ConnectionLost ==
  /\ pc \in {"stream", "drained"} /\ MayFail
  /\ CopyFailed
  /\ \/ UNCHANGED stored
     \/ pc = "drained" /\ Routable /\ stored' = StoredWithSent
  /\ UNCHANGED <<force, dropped>>

EndFlush ==
  /\ pc = "copy" /\ EOF
  /\ FlushOver
  /\ UNCHANGED <<envVars, todo, half, partitionMap, force, copying, sent, dropped>>

-----------------------------------------------------------------------------
Poll  == (\E m \in Metric : PollReceive(m)) \/ PollTick \/ PollReturns
Flush ==
  \/ BeginFlush \/ EnsureDone
  \/ \E m \in Metric : EnsureStart(m) \/ EnsureEnd(m) \/ EnsureFails(m)
  \/ BeginCopy \/ ConnectFails \/ StreamRow \/ StreamEnd
  \/ CopySucceeds \/ PartitionMissing \/ CopyRefused \/ ConnectionLost \/ EndFlush

Next ==
  \/ NextDay \/ DeleteOldPartitions \/ \E m \in Metric : PartitionsDropped(m)
  \/ Poll \/ Flush

Spec == Init /\ [][Next]_vars
FairSpec == Spec /\ WF_vars(Flush)

-----------------------------------------------------------------------------
(* Properties.                                                             *)

\* Once EnsureMetricTimePartsExist has returned no error, the partition of the
\* end of a metric's batch exists, and so does that of its start: whatever the
\* partition cache let it skip, however long the metric was not stored, and
\* whichever partitions retention dropped beside it.  Two cases are left out:
\* an operator dropped partitions and forceRecreatePartitions has not overridden
\* the cache since, and the batch starts past the end of the partition in the
\* cache, which the code does not compare it with.
PartitionsReady ==
  (pc \in {"copy", "stream", "drained"} /\ ensured) =>
    \A m \in Metric : (dropped[m] = "no" /\ DaysOf(m) # {}) =>
      /\ EndOf(m) \in parts[m]
      /\ StartOf(m) \in parts[m] \/ m \in jumped

\* "A subpartition physically covering the new timestamp must exist, otherwise
\* the CopyFrom insert would fail": PartitionsReady of a batch after a forward
\* time jump too.
ForwardJumpCovered ==
  (pc \in {"copy", "stream", "drained"} /\ ensured) =>
    \A m \in jumped : (dropped[m] = "no" /\ DaysOf(m) # {}) => StartOf(m) \in parts[m]

RowsOf(m) == UNION {{i} \X (0..RowsAt(i) - 1) : i \in {j \in 0..Size - 1 : MetricAt(j) = m}}

\* When the cursor is at its end, a metric whose copy did not fail has all its
\* rows in its own table, each once, and one whose copy failed has none or all
\* of them: the failure of a copy, at any row, costs no other metric anything.
CopiesAreExact ==
  (pc = "copy" /\ EOF) =>
    \A m \in Metric :
      LET rows == {stored[m][k] : k \in DOMAIN stored[m]}
      IN /\ Cardinality(rows) = Len(stored[m])
         /\ rows = RowsOf(m) \/ (m \in failed /\ rows = {})

\* Every flush comes to an end, however often its copies fail, so that the
\* writer goes on emptying the queue.
FlushEnds == pc = "flush" ~> pc = "poll"

\* "Trying to re-create all needed partitions on next run": the next flush
\* that has rows for a metric whose partitions were found dropped, and that could
\* ask for partitions, has created them.
RecreatedOnNextRun ==
  (pc = "copy" /\ ensured /\ envelopeIdx = -1) =>
    \A m \in Metric : dropped[m] = "noticed" => DaysOf(m) \subseteq parts[m]
=============================================================================
