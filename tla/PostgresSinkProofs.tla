------------------------ MODULE PostgresSinkProofs ------------------------
(***************************************************************************)
(* Proofs about PostgresSink: its types, that a flush copies every row of  *)
(* every metric once (CopiesAreExact), and that the partitions a batch     *)
(* needs exist when its copies start (PartitionsReady).                    *)
(***************************************************************************)
EXTENDS PostgresSink, FiniteSetTheorems, WellFoundedInduction, TLAPS

-----------------------------------------------------------------------------
(* The inductive invariant of the cursor.                                  *)

InCopies == pc \in {"copy", "stream", "drained"}

Elements(s) == {s[k] : k \in DOMAIN s}
NoRepeats(s) == \A j, k \in DOMAIN s : s[j] = s[k] => j = k

Sorted == \A i, j \in DOMAIN cache : i < j => cache[i].metric <= cache[j].metric

\* What holds of the steps of poll and flush that come before the copies.
Phase ==
  /\ pc = "poll" => Len(cache) < CacheLimit
  /\ pc \notin {"poll", "returned"} => cache # <<>>
  /\ (pc = "ensure" \/ InCopies) => Sorted
  /\ pc # "ensure" => todo = {} /\ half = NoMetric
  /\ half # NoMetric => half \in todo
  /\ \A m \in todo : DaysOf(m) # {}
  /\ ~InCopies =>
       /\ envelopeIdx = -1 /\ measurementIdx = -1 /\ metricName = NoMetric
       /\ \A m \in Metric : stored[m] = <<>>
  /\ pc \notin {"stream", "drained"} => copying = NoMetric /\ sent = <<>>

\* The cursor is at the end, or before the first envelope of a metric, done
\* with the envelope before it.
Boundary ==
  \/ envelopeIdx = Size
  \/ /\ envelopeIdx + 1 < Size
     /\ metricName = NoMetric
     /\ envelopeIdx # -1 => measurementIdx = RowsAt(envelopeIdx)
     /\ \A i \in 0..envelopeIdx : MetricAt(i) < MetricAt(envelopeIdx + 1)

\* The cursor is before the first envelope of the metric that is copied, or at
\* a row of it.
Streaming ==
  /\ envelopeIdx < Size
  /\ metricName = NoMetric => Boundary /\ MetricAt(envelopeIdx + 1) = copying
  /\ metricName # NoMetric =>
       /\ metricName = copying /\ envelopeIdx \in 0..Size - 1
       /\ MetricAt(envelopeIdx) = copying
       /\ measurementIdx \in 0..RowsAt(envelopeIdx) - 1

Behind(m) == \A i \in 0..Size - 1 : MetricAt(i) = m => i <= envelopeIdx
Ahead(m)  == \A i \in 0..Size - 1 : MetricAt(i) = m => i > envelopeIdx

Cursor ==
  /\ pc = "copy" => Boundary
  /\ pc = "stream" => copying \in Metric /\ Streaming
  /\ pc = "drained" => copying \in Metric /\ Boundary /\ 0 <= envelopeIdx /\ Behind(copying)

\* The rows of the metric that is copied up to the cursor.
SentSoFar ==
  {r \in RowsOf(copying) :
     r[1] < envelopeIdx \/ (r[1] = envelopeIdx /\ r[2] <= measurementIdx)}

Copied(m) == Elements(stored[m]) = RowsOf(m) \/ (m \in failed /\ stored[m] = <<>>)

Settled(m) ==
  /\ NoRepeats(stored[m])
  /\ m = copying => stored[m] = <<>>
  /\ m # copying => (Behind(m) /\ Copied(m)) \/ (Ahead(m) /\ stored[m] = <<>>)

Contents ==
  /\ InCopies => \A m \in Metric : Settled(m)
  /\ pc = "stream" => NoRepeats(sent) /\ Elements(sent) = SentSoFar
  /\ pc = "drained" => NoRepeats(sent) /\ Elements(sent) = RowsOf(copying)

CInv == TypeOK /\ Phase /\ Cursor /\ Contents

-----------------------------------------------------------------------------
(* The inductive invariant of the partitions.                              *)

\* What is cached is as old as the delay allows, and so beyond retention.
Recent == \A i \in DOMAIN cache : cache[i].day >= today - MaxDelay /\ cache[i].day <= today

\* The partition of the day remembered exists, unless somebody dropped it.
Anchored ==
  \A m \in Metric :
    (dropped[m] = "no" /\ partitionMap[m] # -1) =>
      partitionMap[m] \in parts[m] \/ Expired(partitionMap[m])

StartReady(m) == StartOf(m) \in parts[m] \/ m \in jumped
BatchReady(m) == EndOf(m) \in parts[m] /\ StartReady(m)

\* How far the flush has come with the partitions of its metrics.  Between its
\* two calls the day remembered is no later than the start of the batch.
Ensured ==
  pc = "ensure" =>
    \A m \in Metric : (dropped[m] = "no" /\ DaysOf(m) # {}) =>
      /\ m \notin todo => BatchReady(m)
      /\ m = half => StartReady(m) /\ partitionMap[m] # -1 /\ partitionMap[m] <= StartOf(m)

PInv == Recent /\ Anchored /\ Ensured /\ PartitionsReady

-----------------------------------------------------------------------------
(* Facts about the operators.                                              *)

\* A set of naturals has a least member: of the intervals from 0 to each of
\* them, one is minimal for inclusion.
LEMMA LeastNat ==
  ASSUME NEW S \in SUBSET Nat, S # {}
  PROVE  \E i \in S : \A j \in S : i <= j
<1> DEFINE T == {0..i : i \in S}
<1>1. T \subseteq FiniteSubsetsOf(Nat) /\ T # {}
  <2>1. \A i \in S : IsFiniteSet(0..i) /\ 0..i \in SUBSET Nat
    BY FS_Interval
  <2> QED BY <2>1 DEF FiniteSubsetsOf
<1>2. \E t \in T : \A u \in T : <<u, t>> \notin StrictSubsetOrdering(Nat)
  <2> HIDE DEF T
  <2> QED BY <1>1, WFMin, FS_StrictSubsetOrderingWellFounded, Zenon
<1>3. PICK i \in S : \A j \in S : <<0..j, 0..i>> \notin StrictSubsetOrdering(Nat)
  BY <1>2
<1>4. ASSUME NEW j \in S PROVE i <= j
  <2>1. SUFFICES ASSUME j < i PROVE FALSE OBVIOUS
  <2>2. 0..j \subseteq 0..i /\ i \in 0..i /\ i \notin 0..j BY <2>1
  <2>3. 0..j # 0..i BY <2>2, Zenon
  <2>4. <<0..j, 0..i>> \in (SUBSET Nat) \X (SUBSET Nat) OBVIOUS
  <2> QED BY <2>2, <2>3, <2>4, <1>3 DEF StrictSubsetOrdering
<1> QED BY <1>4

\* A bounded set of naturals has a greatest member.
LEMMA GreatestNat ==
  ASSUME NEW N \in Nat, NEW S \in SUBSET (0..N), S # {}
  PROVE  \E i \in S : \A j \in S : i >= j
<1> DEFINE T == {N - i : i \in S}
<1>1. \A i \in S : i \in Int /\ N - i \in Nat OBVIOUS
<1>2. T \in SUBSET Nat /\ T # {} BY <1>1
<1>3. PICK t \in T : \A u \in T : t <= u
  <2> HIDE DEF T
  <2> QED BY <1>2, LeastNat
<1>4. PICK i \in S : t = N - i OBVIOUS
<1>5. \A j \in S : N - i <= N - j BY <1>3, <1>4
<1> HIDE DEF T
<1>6. \A j \in S : i >= j BY <1>1, <1>5
<1> QED BY <1>6

\* Least picks the least member.
LEMMA LeastIs ==
  ASSUME NEW S \in SUBSET Nat, S # {}
  PROVE  Least(S) \in S /\ \A j \in S : Least(S) <= j
BY LeastNat DEF Least

LEMMA CachedAre ==
  ASSUME TypeOK
  PROVE  /\ Len(cache) \in Nat /\ DOMAIN cache = 1..Len(cache)
         /\ \A i \in DOMAIN cache :
              /\ cache[i].metric \in Metric /\ cache[i].metric \in Nat /\ cache[i].metric # NoMetric
              /\ cache[i].day \in 0..LastDay /\ cache[i].rows \in Nat
<1>1. Len(cache) \in Nat /\ DOMAIN cache = 1..Len(cache) /\ \A i \in DOMAIN cache : cache[i] \in Envelope
  BY DEF TypeOK
<1>2. \A e \in Envelope : /\ e.metric \in Metric /\ e.metric \in Nat /\ e.metric # NoMetric
                          /\ e.day \in 0..LastDay /\ e.rows \in Nat
  BY SinkAssumption DEF Envelope
<1> QED
  BY <1>1, <1>2

\* The bounds that pgPartBounds keeps are days of the batch.
LEMMA BoundsAre ==
  ASSUME TypeOK, NEW m \in Metric, DaysOf(m) # {}
  PROVE  /\ StartOf(m) \in DaysOf(m) /\ \A e \in DaysOf(m) : StartOf(m) <= e
         /\ EndOf(m) \in DaysOf(m) /\ \A e \in DaysOf(m) : EndOf(m) >= e
         /\ DaysOf(m) \subseteq 0..LastDay
<1>1. DaysOf(m) \in SUBSET (0..LastDay)
  BY CachedAre DEF DaysOf
<1>2. \E d \in DaysOf(m) : \A e \in DaysOf(m) : d <= e
  BY <1>1, LeastNat
<1>3. \E d \in DaysOf(m) : \A e \in DaysOf(m) : d >= e
  BY <1>1, GreatestNat, SinkAssumption
<1> QED
  BY <1>1, <1>2, <1>3 DEF StartOf, EndOf

\* The envelopes, by the indexes of the code.
LEMMA EnvelopesAre ==
  ASSUME TypeOK
  PROVE  /\ Size \in Nat
         /\ \A i \in 0..Size - 1 :
              /\ i + 1 \in DOMAIN cache
              /\ MetricAt(i) \in Metric /\ MetricAt(i) \in Nat /\ MetricAt(i) # NoMetric
              /\ RowsAt(i) \in Nat
BY CachedAre DEF Size, MetricAt, RowsAt

LEMMA EnvelopesInOrder ==
  ASSUME TypeOK, Sorted, NEW i \in 0..Size - 1, NEW j \in 0..Size - 1, i <= j
  PROVE  MetricAt(i) <= MetricAt(j)
<1>1. CASE i = j
  BY <1>1, EnvelopesAre
<1>2. CASE i < j
  BY <1>2, EnvelopesAre DEF Sorted, MetricAt
<1> QED
  BY <1>1, <1>2, EnvelopesAre

LEMMA RowsAre ==
  ASSUME TypeOK, NEW m \in Metric
  PROVE  \A r : r \in RowsOf(m) <=>
           \E i \in 0..Size - 1 : \E k \in 0..RowsAt(i) - 1 : MetricAt(i) = m /\ r = <<i, k>>
<1>1. ASSUME NEW r \in RowsOf(m)
      PROVE  \E i \in 0..Size - 1 : \E k \in 0..RowsAt(i) - 1 : MetricAt(i) = m /\ r = <<i, k>>
  <2>1. PICK i \in {j \in 0..Size - 1 : MetricAt(j) = m} : r \in {i} \X (0..RowsAt(i) - 1)
    BY DEF RowsOf
  <2> QED
    BY <2>1
<1>2. ASSUME NEW i \in 0..Size - 1, NEW k \in 0..RowsAt(i) - 1, MetricAt(i) = m
      PROVE  <<i, k>> \in RowsOf(m)
  <2>1. <<i, k>> \in {i} \X (0..RowsAt(i) - 1)
    OBVIOUS
  <2> QED
    BY <1>2, <2>1 DEF RowsOf
<1> QED
  BY <1>1, <1>2

\* The envelopes up to the cursor are of earlier metrics or of the one that is
\* copied, the ones after it of that one or of later ones.
LEMMA StreamingSplits ==
  ASSUME TypeOK, Sorted, copying \in Metric, Streaming, NEW i \in 0..Size - 1
  PROVE  /\ i <= envelopeIdx => MetricAt(i) <= copying
         /\ i > envelopeIdx => MetricAt(i) >= copying
<1>1. Size \in Nat /\ envelopeIdx \in Int /\ -1 <= envelopeIdx /\ envelopeIdx < Size
  BY EnvelopesAre DEF TypeOK, Size, Streaming
<1>2. CASE metricName = NoMetric
  <2>1. /\ envelopeIdx + 1 \in 0..Size - 1 /\ MetricAt(envelopeIdx + 1) = copying
        /\ \A k \in 0..envelopeIdx : MetricAt(k) < MetricAt(envelopeIdx + 1)
    BY <1>1, <1>2 DEF Streaming, Boundary
  <2>2. i <= envelopeIdx => MetricAt(i) <= copying
    BY <1>1, <2>1, EnvelopesAre
  <2>3. i > envelopeIdx => MetricAt(i) >= copying
    BY <1>1, <2>1, EnvelopesInOrder, EnvelopesAre
  <2> QED
    BY <2>2, <2>3
<1>3. CASE metricName # NoMetric
  <2>1. envelopeIdx \in 0..Size - 1 /\ MetricAt(envelopeIdx) = copying
    BY <1>3 DEF Streaming
  <2>2. i <= envelopeIdx => MetricAt(i) <= copying
    BY <1>1, <2>1, EnvelopesInOrder
  <2>3. i > envelopeIdx => MetricAt(i) >= copying
    BY <1>1, <2>1, EnvelopesInOrder, EnvelopesAre
  <2> QED
    BY <2>2, <2>3
<1> QED
  BY <1>2, <1>3

\* Where Next lands: past envelopes of the metric that is copied, all empty.
LEMMA LandingIs ==
  ASSUME TypeOK, Sorted, copying \in Metric, Streaming
  PROVE  /\ CurrentName = copying
         /\ Landing \in envelopeIdx + 1..Size
         /\ Landing < Size => MetricAt(Landing) # copying \/ RowsAt(Landing) > 0
         /\ \A i \in envelopeIdx + 1..Landing - 1 : MetricAt(i) = copying /\ RowsAt(i) = 0
         /\ 0 <= envelopeIdx \/ (Size > 0 /\ MetricAt(0) = copying)
<1> USE DEF Streaming
<1>1. NoMetric \notin Metric
  BY SinkAssumption
<1>2. envelopeIdx \in Int /\ -1 <= envelopeIdx /\ envelopeIdx < Size /\ Size \in Nat
  BY EnvelopesAre DEF TypeOK, Size
<1>3. CurrentName = copying
  <2>1. CASE metricName = NoMetric
    BY <2>1, <1>2 DEF CurrentName, MetricName, Boundary
  <2>2. CASE metricName # NoMetric
    BY <2>2 DEF CurrentName
  <2> QED
    BY <2>1, <2>2
<1> DEFINE Stops == {i \in envelopeIdx + 1..Size : i < Size => MetricAt(i) # CurrentName \/ RowsAt(i) > 0}
<1>4. Stops \in SUBSET Nat /\ Size \in Stops
  BY <1>2
<1>5. Landing \in Stops /\ \A j \in Stops : Landing <= j
  <2>1. Landing = Least(Stops)
    BY DEF Landing
  <2> HIDE DEF Stops
  <2> QED
    BY <2>1, <1>4, LeastIs
<1>6. ASSUME NEW i \in envelopeIdx + 1..Landing - 1
      PROVE  MetricAt(i) = copying /\ RowsAt(i) = 0
  <2>1. i \in 0..Size - 1 /\ i \notin Stops
    BY <1>2, <1>5
  <2>2. RowsAt(i) \in Nat
    BY <2>1, EnvelopesAre
  <2> QED
    BY <1>2, <1>3, <2>1, <2>2
<1>7. 0 <= envelopeIdx \/ (Size > 0 /\ MetricAt(0) = copying)
  <2>1. CASE metricName = NoMetric /\ envelopeIdx = -1
    <3>1. envelopeIdx + 1 = 0
      BY <2>1
    <3> QED
      BY <2>1, <3>1, <1>2 DEF Boundary
  <2> QED
    BY <2>1, <1>2
<1> QED
  BY <1>3, <1>5, <1>6, <1>7

-----------------------------------------------------------------------------
(* Types and phases.                                                       *)

LEMMA MetricsAre == NoMetric \notin Metric /\ Metric \subseteq Nat
BY SinkAssumption

LEMMA EnsureTypes ==
  ASSUME TypeOK, NEW m \in Metric, NEW d \in 0..LastDay, Ensure(m, d)
  PROVE  /\ parts' \in [Metric -> SUBSET Day]
         /\ partitionMap' \in [Metric -> Day \cup {-1}]
<1>1. d \in Day /\ d..d + Precreate \subseteq Day
  BY SinkAssumption DEF Day
<1>2. parts' \in [Metric -> SUBSET Day]
  BY <1>1 DEF TypeOK, Ensure, PartitionsWith
<1> QED
  BY <1>1, <1>2 DEF TypeOK, Ensure

\* SkipMetric leaves the cursor before the next metric, or at the end.
LEMMA SkipLands ==
  ASSUME TypeOK, Sorted, copying \in Metric, SkipMetric(copying),
         \/ Streaming
         \/ Boundary /\ 0 <= envelopeIdx /\ Behind(copying)
  PROVE  /\ envelopeIdx' \in Int /\ envelopeIdx <= envelopeIdx' /\ envelopeIdx' <= Size
         /\ measurementIdx' \in Int /\ metricName' = NoMetric
         /\ \A i \in 0..Size - 1 : (envelopeIdx < i /\ i <= envelopeIdx') => MetricAt(i) = copying
         /\ \A i \in 0..Size - 1 : MetricAt(i) = copying => i <= envelopeIdx'
         /\ \/ envelopeIdx' = Size
            \/ /\ 0 <= envelopeIdx' /\ envelopeIdx' + 1 < Size
               /\ measurementIdx' = RowsAt(envelopeIdx')
               /\ \A i \in 0..envelopeIdx' : MetricAt(i) < MetricAt(envelopeIdx' + 1)
<1> DEFINE others == {i \in envelopeIdx + 1..Size - 1 : MetricAt(i) # copying}
<1>1. /\ Size \in Nat /\ envelopeIdx \in Int /\ -1 <= envelopeIdx /\ envelopeIdx <= Size
      /\ measurementIdx \in Int
  BY EnvelopesAre DEF TypeOK, Size
<1>2. copying # NoMetric /\ copying \in Nat
  BY MetricsAre
<1>3. 0 <= envelopeIdx \/ (Size > 0 /\ MetricAt(0) = copying)
  BY LandingIs
<1>4. metricName' = NoMetric
  BY <1>2 DEF SkipMetric
<1>5. CASE others = {}
  <2>1. envelopeIdx' = Size /\ measurementIdx' = measurementIdx
    BY <1>2, <1>5 DEF SkipMetric
  <2>2. \A i \in 0..Size - 1 : envelopeIdx < i => MetricAt(i) = copying
    BY <1>1, <1>5
  <2> QED
    BY <1>1, <1>4, <2>1, <2>2
<1>6. CASE others # {}
  <2> DEFINE n == Least(others)
  <2>1. n \in others /\ \A j \in others : n <= j
    <3>1. others \in SUBSET Nat
      BY <1>1
    <3> HIDE DEF others
    <3> QED
      BY <1>6, <3>1, LeastIs
  <2>2. envelopeIdx' = n - 1 /\ measurementIdx' = RowsAt(envelopeIdx')
    BY <1>2, <1>6 DEF SkipMetric
  <2> HIDE DEF n
  <2>3. n \in 0..Size - 1 /\ envelopeIdx + 1 <= n /\ MetricAt(n) # copying
    BY <1>1, <2>1
  <2>4. n # 0
    BY <1>1, <1>3, <2>3
  <2>5. \A i \in 0..Size - 1 : (envelopeIdx < i /\ i < n) => MetricAt(i) = copying
    BY <1>1, <2>1, <2>3
  <2>6. CASE Streaming
    <3>1. MetricAt(n) > copying
      BY <1>1, <1>2, <2>3, <2>6, StreamingSplits, EnvelopesAre
    <3>2. \A i \in 0..n - 1 : MetricAt(i) <= copying
      <4> TAKE i \in 0..n - 1
      <4>1. i \in 0..Size - 1
        BY <1>1, <2>3
      <4>2. CASE envelopeIdx < i
        BY <1>1, <1>2, <2>3, <2>5, <4>1, <4>2
      <4>3. CASE i <= envelopeIdx
        BY <1>1, <2>6, <4>1, <4>3, StreamingSplits
      <4> QED
        BY <1>1, <4>1, <4>2, <4>3
    <3>3. \A i \in 0..n - 1 : MetricAt(i) < MetricAt(n)
      BY <1>1, <1>2, <2>3, <3>1, <3>2, EnvelopesAre
    <3>4. \A i \in 0..Size - 1 : MetricAt(i) = copying => i <= n - 1
      <4> SUFFICES ASSUME NEW i \in 0..Size - 1, n <= i
                   PROVE  MetricAt(i) # copying
        BY <1>1, <2>3
      <4>1. MetricAt(n) <= MetricAt(i)
        BY <2>3, EnvelopesInOrder
      <4> QED
        BY <1>2, <2>3, <3>1, <4>1, EnvelopesAre
    <3> QED
      BY <1>1, <1>4, <2>2, <2>3, <2>4, <2>5, <3>3, <3>4, EnvelopesAre, SMTT(30)
  <2>7. CASE Boundary /\ 0 <= envelopeIdx /\ Behind(copying)
    <3>1. envelopeIdx + 1 = n
      <4>1. SUFFICES ASSUME envelopeIdx + 1 < n
                     PROVE  FALSE
        BY <1>1, <2>3
      <4>2. envelopeIdx + 1 \in 0..Size - 1 /\ MetricAt(envelopeIdx + 1) = copying
        BY <1>1, <2>3, <2>5, <4>1
      <4> QED
        BY <1>1, <2>7, <4>2 DEF Behind
    <3>2. envelopeIdx' = envelopeIdx /\ envelopeIdx' + 1 = n /\ envelopeIdx # Size
      BY <1>1, <2>2, <2>3, <3>1
    <3>3. \A i \in 0..envelopeIdx : MetricAt(i) < MetricAt(envelopeIdx + 1)
      BY <2>7, <3>2 DEF Boundary
    <3>4. \A i \in 0..Size - 1 : MetricAt(i) = copying => i <= envelopeIdx
      BY <2>7 DEF Behind
    <3>5. RowsAt(envelopeIdx) \in Nat
      BY <1>1, <2>7, <3>2, EnvelopesAre
    <3> QED
      BY <1>1, <1>4, <2>2, <2>3, <2>5, <2>7, <3>2, <3>3, <3>4, <3>5
  <2> QED
    BY <2>6, <2>7
<1> QED
  BY <1>5, <1>6

\* Next returns a row of the metric that is copied.
LEMMA NextRowIs ==
  ASSUME TypeOK, Sorted, copying \in Metric, Streaming, NextRow
  PROVE  /\ envelopeIdx' \in 0..Size - 1 /\ envelopeIdx <= envelopeIdx'
         /\ MetricAt(envelopeIdx') = copying /\ metricName' = copying
         /\ measurementIdx' \in 0..RowsAt(envelopeIdx') - 1
         /\ \A i \in 0..Size - 1 : (envelopeIdx < i /\ i <= envelopeIdx') => MetricAt(i) = copying
         /\ \/ envelopeIdx' = envelopeIdx /\ measurementIdx' = measurementIdx + 1
            \/ /\ envelopeIdx < envelopeIdx' /\ measurementIdx' = 0 /\ ~WithinEnvelope
               /\ \A i \in envelopeIdx + 1..envelopeIdx' - 1 : RowsAt(i) = 0
<1>1. /\ Size \in Nat /\ envelopeIdx \in Int /\ -1 <= envelopeIdx /\ envelopeIdx < Size
      /\ measurementIdx \in Int
  BY EnvelopesAre DEF TypeOK, Size, Streaming
<1>2. CASE WithinEnvelope
  <2>1. envelopeIdx \in 0..Size - 1 /\ RowsAt(envelopeIdx) \in Nat
    BY <1>1, <1>2, EnvelopesAre DEF WithinEnvelope
  <2>2. metricName # NoMetric
    BY <1>1, <1>2, <2>1 DEF WithinEnvelope, Streaming, Boundary
  <2>3. /\ metricName = copying /\ MetricAt(envelopeIdx) = copying
        /\ measurementIdx \in 0..RowsAt(envelopeIdx) - 1
    BY <2>2 DEF Streaming
  <2>4. envelopeIdx' = envelopeIdx /\ metricName' = metricName /\ measurementIdx' = measurementIdx + 1
    BY <1>2 DEF NextRow
  <2>5. measurementIdx + 1 < RowsAt(envelopeIdx)
    BY <1>2 DEF WithinEnvelope
  <2> QED
    BY <1>1, <2>1, <2>3, <2>4, <2>5
<1>3. CASE ~WithinEnvelope
  <2>1. /\ Landing < Size /\ MetricAt(Landing) = CurrentName
        /\ envelopeIdx' = Landing /\ measurementIdx' = 0 /\ metricName' = CurrentName
    BY <1>3 DEF NextRow
  <2>2. /\ CurrentName = copying /\ Landing \in envelopeIdx + 1..Size
        /\ MetricAt(Landing) # copying \/ RowsAt(Landing) > 0
        /\ \A i \in envelopeIdx + 1..Landing - 1 : MetricAt(i) = copying /\ RowsAt(i) = 0
    BY <2>1, LandingIs
  <2>3. Landing \in 0..Size - 1 /\ RowsAt(Landing) \in Nat
    BY <1>1, <2>1, <2>2, EnvelopesAre
  <2>4. \A i \in 0..Size - 1 : (envelopeIdx < i /\ i <= Landing) => MetricAt(i) = copying
    BY <1>1, <2>1, <2>2, <2>3
  <2> QED
    BY <1>1, <1>3, <2>1, <2>2, <2>3, <2>4
<1> QED
  BY <1>2, <1>3

\* Next returns no more rows when it has returned the last row of the metric.
LEMMA NextNoneIs ==
  ASSUME TypeOK, Sorted, copying \in Metric, Streaming, NextNone
  PROVE  /\ envelopeIdx' \in 0..Size /\ envelopeIdx <= envelopeIdx'
         /\ measurementIdx' \in Int /\ metricName' \in {NoMetric, copying}
         /\ ~WithinEnvelope
         /\ \A i \in 0..Size - 1 : (envelopeIdx < i /\ i <= envelopeIdx') => MetricAt(i) = copying /\ RowsAt(i) = 0
         /\ \A i \in 0..Size - 1 : MetricAt(i) = copying => i <= envelopeIdx'
         /\ \/ envelopeIdx' = Size
            \/ /\ envelopeIdx' + 1 < Size /\ metricName' = NoMetric
               /\ measurementIdx' = RowsAt(envelopeIdx')
               /\ \A i \in 0..envelopeIdx' : MetricAt(i) < MetricAt(envelopeIdx' + 1)
<1>1. /\ Size \in Nat /\ envelopeIdx \in Int /\ -1 <= envelopeIdx /\ envelopeIdx < Size
      /\ measurementIdx \in Int /\ copying \in Nat
  BY EnvelopesAre, MetricsAre DEF TypeOK, Size, Streaming
<1>2. /\ CurrentName = copying /\ Landing \in envelopeIdx + 1..Size
      /\ \A i \in envelopeIdx + 1..Landing - 1 : MetricAt(i) = copying /\ RowsAt(i) = 0
      /\ 0 <= envelopeIdx \/ (Size > 0 /\ MetricAt(0) = copying)
  BY LandingIs
<1>3. ~WithinEnvelope
  BY DEF NextNone
<1>4. CASE Landing = Size
  <2>1. envelopeIdx' = Size /\ measurementIdx' = -1 /\ metricName' = CurrentName
    BY <1>1, <1>4 DEF NextNone
  <2> QED
    BY <1>1, <1>2, <1>3, <1>4, <2>1
<1>5. CASE Landing < Size /\ MetricAt(Landing) # CurrentName
  <2>1. envelopeIdx' = Landing - 1 /\ measurementIdx' = RowsAt(Landing - 1) /\ metricName' = NoMetric
    BY <1>1, <1>2, <1>5 DEF NextNone
  <2>2. Landing \in 1..Size - 1 /\ Landing - 1 \in 0..Size - 1 /\ RowsAt(Landing - 1) \in Nat
    BY <1>1, <1>2, <1>5, EnvelopesAre
  <2>3. MetricAt(Landing) > copying
    BY <1>1, <1>2, <1>5, <2>2, StreamingSplits, EnvelopesAre
  <2>4. \A i \in 0..Landing - 1 : MetricAt(i) <= copying
    <3> TAKE i \in 0..Landing - 1
    <3>1. i \in 0..Size - 1
      BY <1>1, <2>2
    <3>2. CASE envelopeIdx < i
      BY <1>1, <1>2, <2>2, <3>1, <3>2
    <3>3. CASE i <= envelopeIdx
      BY <1>1, <3>1, <3>3, StreamingSplits
    <3> QED
      BY <1>1, <3>1, <3>2, <3>3
  <2>5. \A i \in 0..Landing - 1 : MetricAt(i) < MetricAt(Landing)
    BY <1>1, <2>2, <2>3, <2>4, EnvelopesAre
  <2>6. \A i \in 0..Size - 1 : MetricAt(i) = copying => i <= Landing - 1
    <3> SUFFICES ASSUME NEW i \in 0..Size - 1, Landing <= i
                 PROVE  MetricAt(i) # copying
      BY <1>1, <2>2
    <3>1. MetricAt(Landing) <= MetricAt(i)
      BY <2>2, EnvelopesInOrder
    <3> QED
      BY <1>1, <2>2, <2>3, <3>1, EnvelopesAre
  <2>7. \A i \in 0..Size - 1 : (envelopeIdx < i /\ i <= Landing - 1) => MetricAt(i) = copying /\ RowsAt(i) = 0
    BY <1>1, <1>2, <2>2
  <2> DEFINE e == Landing - 1
  <2>8. e + 1 = Landing /\ e \in 0..Size - 1 /\ envelopeIdx <= e
    BY <1>1, <1>2, <2>2
  <2> QED
    BY <1>1, <1>3, <2>1, <2>2, <2>5, <2>6, <2>7, <2>8
<1> QED
  BY <1>1, <1>2, <1>4, <1>5 DEF NextNone

LEMMA SortKeeps ==
  ASSUME TypeOK, cache' \in SortedBy(cache)
  PROVE  /\ cache' \in Seq(Envelope) /\ Len(cache') = Len(cache)
         /\ \A i \in DOMAIN cache' : \E j \in DOMAIN cache : cache'[i] = cache[j]
         /\ \A i, j \in DOMAIN cache' : i < j => cache'[i].metric <= cache'[j].metric
<1>1. Len(cache) \in Nat /\ DOMAIN cache = 1..Len(cache) /\ \A i \in DOMAIN cache : cache[i] \in Envelope
  BY DEF TypeOK
<1>2. PICK q \in [DOMAIN cache -> DOMAIN cache] :
        /\ \A i, j \in DOMAIN cache : i < j => cache[q[i]].metric <= cache[q[j]].metric
        /\ cache' = [i \in DOMAIN cache |-> cache[q[i]]]
  BY DEF SortedBy
<1>3. cache' \in [1..Len(cache) -> Envelope]
  BY <1>1, <1>2
<1>4. cache' \in Seq(Envelope) /\ Len(cache') = Len(cache)
  BY <1>1, <1>3
<1> QED
  BY <1>1, <1>2, <1>4

LEMMA ReceivedTypes ==
  ASSUME TypeOK, NEW m \in Metric, Received(m)
  PROVE  /\ cache' \in Seq(Envelope) /\ Len(cache') = Len(cache) + 1
         /\ \E d \in 0..today, n \in RowCounts : /\ d >= today - MaxDelay
                                                 /\ cache' = Append(cache, [metric |-> m, day |-> d, rows |-> n])
<1>1. PICK d \in 0..today, n \in RowCounts : /\ d >= today - MaxDelay
                                             /\ cache' = Append(cache, [metric |-> m, day |-> d, rows |-> n])
  BY DEF Received
<1>2. d \in 0..LastDay
  BY SinkAssumption DEF TypeOK
<1>3. [metric |-> m, day |-> d, rows |-> n] \in Envelope
  BY <1>2 DEF Envelope
<1> QED
  BY <1>1, <1>3 DEF TypeOK

LEMMA CopyFailedTypes ==
  ASSUME TypeOK, Sorted, copying \in Metric, CopyFailed,
         \/ Streaming
         \/ Boundary /\ 0 <= envelopeIdx /\ Behind(copying)
  PROVE  /\ envelopeIdx' \in Int /\ -1 <= envelopeIdx' /\ envelopeIdx' <= Len(cache')
         /\ measurementIdx' \in Int /\ metricName' = NoMetric
         /\ failed' \in SUBSET Metric /\ copying' = NoMetric /\ sent' \in Seq(Row)
BY SkipLands DEF CopyFailed, TypeOK, Size

LEMMA TypesKept ==
  ASSUME CInv, [Next]_vars
  PROVE  TypeOK'
<1> USE DEF CInv
<1>1. CASE UNCHANGED vars
  BY <1>1 DEF TypeOK, vars, envVars, ensureVars, cursorVars, copyVars
<1>2. CASE NextDay
  BY <1>2, SinkAssumption DEF NextDay, TypeOK, ensureVars, cursorVars, copyVars
<1>3. CASE DeleteOldPartitions
  <2>1. parts' \in [Metric -> SUBSET Day]
    BY <1>3 DEF DeleteOldPartitions, TypeOK
  <2> QED
    BY <1>3, <2>1 DEF DeleteOldPartitions, TypeOK, ensureVars, cursorVars, copyVars
<1>4. CASE \E m \in Metric : PartitionsDropped(m)
  BY <1>4 DEF PartitionsDropped, TypeOK, DropState, ensureVars, cursorVars
<1>5. ASSUME NEW m \in Metric, PollReceive(m)
      PROVE  TypeOK'
  <2>1. cache' \in Seq(Envelope) /\ Len(cache') = Len(cache) + 1 /\ Len(cache) \in Nat
    BY <1>5, ReceivedTypes, CachedAre DEF PollReceive
  <2>2. Len(cache) < CacheLimit /\ envelopeIdx = -1
    BY <1>5 DEF Phase, PollReceive, InCopies
  <2>3. /\ Len(cache') <= CacheLimit /\ -1 <= envelopeIdx /\ envelopeIdx <= Len(cache')
        /\ pc' \in {"poll", "flush"}
    BY <1>5, <2>1, <2>2, SinkAssumption DEF PollReceive
  <2>4. UNCHANGED <<envVars, ensureVars, cursorVars, copyVars>>
    BY <1>5 DEF PollReceive
  <2> QED
    BY <2>1, <2>3, <2>4 DEF TypeOK, envVars, ensureVars, cursorVars, copyVars
<1>6. CASE PollTick \/ PollReturns
  BY <1>6 DEF PollTick, PollReturns, TypeOK, envVars, ensureVars, cursorVars, copyVars
<1>7. CASE BeginFlush
  <2>1. cache' \in Seq(Envelope) /\ Len(cache') = Len(cache)
    BY <1>7, SortKeeps DEF BeginFlush
  <2>2. todo' \in SUBSET Metric
    BY <1>7 DEF BeginFlush
  <2> QED
    BY <1>7, <2>1, <2>2 DEF BeginFlush, TypeOK, envVars, cursorVars, copyVars
<1>8. CASE EnsureDone
  BY <1>8 DEF EnsureDone, TypeOK, envVars, cursorVars, copyVars
<1>9. ASSUME NEW m \in Metric, EnsureStart(m)
      PROVE  TypeOK'
  <2>1. DaysOf(m) # {}
    BY <1>9 DEF EnsureStart, Phase
  <2>2. StartOf(m) \in 0..LastDay
    BY <2>1, BoundsAre
  <2>3. parts' \in [Metric -> SUBSET Day] /\ partitionMap' \in [Metric -> Day \cup {-1}]
    BY <1>9, <2>2, EnsureTypes DEF EnsureStart, TypeOK
  <2>4. dropped' \in [Metric -> DropState]
    BY <1>9 DEF EnsureStart, TypeOK, DropState
  <2> QED
    BY <1>9, <2>3, <2>4 DEF EnsureStart, TypeOK, cursorVars
<1>10. ASSUME NEW m \in Metric, EnsureEnd(m)
       PROVE  TypeOK'
  <2>1. DaysOf(m) # {}
    BY <1>10, MetricsAre DEF EnsureEnd, Phase
  <2>2. EndOf(m) \in 0..LastDay
    BY <2>1, BoundsAre
  <2>3. parts' \in [Metric -> SUBSET Day] /\ partitionMap' \in [Metric -> Day \cup {-1}]
    BY <1>10, <2>2, EnsureTypes DEF EnsureEnd, TypeOK
  <2> QED
    BY <1>10, <2>3 DEF EnsureEnd, TypeOK, cursorVars, copyVars
<1>11. CASE \E m \in Metric : EnsureFails(m)
  BY <1>11 DEF EnsureFails, TypeOK, envVars, cursorVars, copyVars
<1>12. CASE BeginCopy
  <2>1. MetricName \in Metric \cup {NoMetric}
    <3>1. envelopeIdx + 1 < Size => envelopeIdx + 1 \in 0..Size - 1
      BY EnvelopesAre DEF TypeOK
    <3> QED
      BY <3>1, EnvelopesAre DEF MetricName
  <2> QED
    BY <1>12, <2>1 DEF BeginCopy, TypeOK, envVars, ensureVars, cursorVars
<1>13. CASE ConnectFails \/ EndFlush
  <2>1. /\ FlushOver
        /\ UNCHANGED <<envVars, todo, half, partitionMap, force, copying, sent, dropped>>
    BY <1>13, Zenon DEF ConnectFails, EndFlush
  <2>2. /\ pc' = "poll" /\ cache' = <<>> /\ ensured' = FALSE
        /\ envelopeIdx' = -1 /\ measurementIdx' = -1 /\ metricName' = NoMetric
        /\ stored' = [m \in Metric |-> <<>>] /\ failed' = {} /\ jumped' = {}
    BY <2>1 DEF FlushOver
  <2>3. <<>> \in Seq(Envelope) /\ Len(<<>>) = 0 /\ <<>> \in Seq(Row)
    OBVIOUS
  <2>4. stored' \in [Metric -> Seq(Row)]
    BY <2>2, <2>3
  <2>5. cache' \in Seq(Envelope) /\ Len(cache') = 0 /\ Len(cache') <= CacheLimit
    BY <2>2, <2>3, SinkAssumption
  <2>6. envelopeIdx' = -1 /\ measurementIdx' = -1 /\ metricName' = NoMetric /\ pc' = "poll"
        /\ ensured' = FALSE /\ failed' = {} /\ jumped' = {}
    BY <2>2
  <2>7. UNCHANGED <<today, parts, dropped, todo, half, force, partitionMap, copying, sent>>
    BY <2>1 DEF envVars
  <2>8. ensured' \in BOOLEAN /\ metricName' \in Metric \cup {NoMetric}
    BY <2>6
  <2> QED
    BY <2>4, <2>5, <2>6, <2>7, <2>8 DEF TypeOK
<1>14. CASE StreamRow
  <2>1. Sorted /\ copying \in Metric /\ Streaming /\ NextRow
    BY <1>14 DEF StreamRow, Phase, Cursor, InCopies
  <2>2. /\ envelopeIdx' \in 0..Size - 1 /\ metricName' = copying
        /\ measurementIdx' \in 0..RowsAt(envelopeIdx') - 1
    BY <2>1, NextRowIs
  <2>3. Size \in Nat /\ RowsAt(envelopeIdx') \in Nat /\ Size = Len(cache)
    BY <2>2, EnvelopesAre DEF Size
  <2>4. <<envelopeIdx', measurementIdx'>> \in Row
    BY <2>2, <2>3 DEF Row
  <2>5. sent' \in Seq(Row)
    BY <1>14, <2>4 DEF StreamRow, TypeOK
  <2>6. envelopeIdx' \in Int /\ -1 <= envelopeIdx' /\ envelopeIdx' <= Len(cache) /\ measurementIdx' \in Int
    BY <2>2, <2>3
  <2> QED
    BY <1>14, <2>1, <2>2, <2>5, <2>6 DEF StreamRow, TypeOK, envVars, ensureVars
<1>15. CASE StreamEnd
  <2>1. Sorted /\ copying \in Metric /\ Streaming /\ NextNone
    BY <1>15 DEF StreamEnd, Phase, Cursor, InCopies
  <2>2. envelopeIdx' \in 0..Size /\ measurementIdx' \in Int /\ metricName' \in {NoMetric, copying}
    BY <2>1, NextNoneIs
  <2>3. envelopeIdx' \in Int /\ -1 <= envelopeIdx' /\ envelopeIdx' <= Len(cache)
    BY <2>2, EnvelopesAre DEF Size
  <2> QED
    BY <1>15, <2>1, <2>2, <2>3 DEF StreamEnd, TypeOK, envVars, ensureVars, copyVars
<1>16. CASE CopySucceeds
  <2>1. copying \in Metric
    BY <1>16 DEF CopySucceeds, Cursor
  <2>2. stored' \in [Metric -> Seq(Row)]
    BY <1>16, <2>1 DEF CopySucceeds, StoredWithSent, TypeOK
  <2> QED
    BY <1>16, <2>2 DEF CopySucceeds, TypeOK, envVars, ensureVars, cursorVars
<1>17. CASE PartitionMissing \/ CopyRefused \/ ConnectionLost
  <2>1. CopyFailed /\ pc \in {"stream", "drained"}
    BY <1>17 DEF PartitionMissing, CopyRefused, ConnectionLost
  <2>2. /\ Sorted /\ copying \in Metric
        /\ Streaming \/ (Boundary /\ 0 <= envelopeIdx /\ Behind(copying))
    BY <2>1 DEF Phase, Cursor, InCopies
  <2>3. /\ envelopeIdx' \in Int /\ -1 <= envelopeIdx' /\ envelopeIdx' <= Len(cache')
        /\ measurementIdx' \in Int /\ metricName' = NoMetric
        /\ failed' \in SUBSET Metric /\ copying' = NoMetric /\ sent' \in Seq(Row)
    BY <2>1, <2>2, CopyFailedTypes
  <2>4. stored' \in [Metric -> Seq(Row)]
    <3>1. StoredWithSent \in [Metric -> Seq(Row)]
      BY <2>2 DEF StoredWithSent, TypeOK
    <3>2. stored' = stored \/ stored' = StoredWithSent
      BY <1>17, Zenon DEF PartitionMissing, CopyRefused, ConnectionLost
    <3> QED
      BY <3>1, <3>2 DEF TypeOK
  <2>5. dropped' \in [Metric -> DropState] /\ force' \in BOOLEAN
    BY <1>17, <2>2 DEF PartitionMissing, CopyRefused, ConnectionLost, TypeOK, DropState
  <2> QED
    BY <2>1, <2>3, <2>4, <2>5 DEF CopyFailed, TypeOK, envVars
<1> QED
  BY <1>1, <1>2, <1>3, <1>4, <1>5, <1>6, <1>7, <1>8, <1>9, <1>10, <1>11, <1>12, <1>13, <1>14,
     <1>15, <1>16, <1>17 DEF Next, Poll, Flush

LEMMA PhaseKept ==
  ASSUME CInv, [Next]_vars
  PROVE  Phase'
<1> USE DEF CInv
<1>1. CASE UNCHANGED <<cache, pc, todo, half, cursorVars, copying, sent, stored>>
  BY <1>1 DEF Phase, InCopies, Sorted, DaysOf, cursorVars
<1>2. CASE UNCHANGED vars \/ NextDay \/ DeleteOldPartitions \/ \E m \in Metric : PartitionsDropped(m)
  <2>1. UNCHANGED <<cache, pc, todo, half, cursorVars, copying, sent, stored>>
    BY <1>2 DEF vars, NextDay, DeleteOldPartitions, PartitionsDropped, ensureVars, copyVars
  <2> QED
    BY <1>1, <2>1
<1>3. ASSUME NEW m \in Metric, PollReceive(m)
      PROVE  Phase'
  <2>1. Len(cache') = Len(cache) + 1 /\ Len(cache) \in Nat /\ cache' \in Seq(Envelope)
    BY <1>3, ReceivedTypes, CachedAre DEF PollReceive
  <2>2. cache' # <<>>
    BY <2>1
  <2>3. pc = "poll" /\ pc' = (IF Len(cache') < CacheLimit THEN "poll" ELSE "flush")
        /\ UNCHANGED <<todo, half, cursorVars, copying, sent, stored>>
    BY <1>3 DEF PollReceive, ensureVars, copyVars
  <2>4. todo = {} /\ half = NoMetric
    BY <2>3 DEF Phase
  <2> QED
    BY <2>2, <2>3, <2>4 DEF Phase, InCopies, cursorVars
<1>4. CASE PollTick \/ PollReturns
  BY <1>4 DEF PollTick, PollReturns, Phase, InCopies, DaysOf, cursorVars, ensureVars, copyVars
<1>5. CASE BeginFlush
  <2>1. /\ Len(cache') = Len(cache) /\ Sorted' /\ cache' \in Seq(Envelope)
    BY <1>5, SortKeeps DEF BeginFlush, Sorted
  <2>2. cache' # <<>>
    <3>1. Len(cache) # 0
      BY <1>5 DEF Phase, BeginFlush, TypeOK
    <3> QED
      BY <2>1, <3>1
  <2>3. /\ pc = "flush" /\ pc' = "ensure" /\ UNCHANGED <<half, cursorVars, copying, sent, stored>>
        /\ todo' = {m \in Metric : DaysOf(m)' # {}}
    BY <1>5 DEF BeginFlush, copyVars
  <2>4. half = NoMetric
    BY <2>3 DEF Phase
  <2>5. \A m \in todo' : DaysOf(m)' # {}
    BY <2>3
  <2> QED
    BY <2>1, <2>2, <2>3, <2>4, <2>5 DEF Phase, InCopies, cursorVars
<1>6. ASSUME NEW m \in Metric, EnsureStart(m)
      PROVE  Phase'
  BY <1>6 DEF EnsureStart, Phase, InCopies, Sorted, DaysOf, cursorVars
<1>7. ASSUME NEW m \in Metric, EnsureEnd(m)
      PROVE  Phase'
  BY <1>7 DEF EnsureEnd, Phase, InCopies, Sorted, DaysOf, cursorVars, copyVars
<1>8. CASE EnsureDone \/ \E m \in Metric : EnsureFails(m)
  <2>1. /\ pc = "ensure" /\ pc' = "copy" /\ todo' = {} /\ half' = NoMetric
        /\ UNCHANGED <<cache, cursorVars, copying, sent, stored>>
    BY <1>8 DEF EnsureDone, EnsureFails, copyVars
  <2> QED
    BY <2>1 DEF Phase, InCopies, Sorted, cursorVars
<1>9. CASE BeginCopy \/ StreamRow \/ StreamEnd
  BY <1>9 DEF BeginCopy, StreamRow, StreamEnd, Phase, InCopies, Sorted, ensureVars, copyVars
<1>10. CASE ConnectFails \/ EndFlush
  <2>1. /\ FlushOver /\ pc = "copy"
        /\ UNCHANGED <<todo, half, copying, sent>>
    BY <1>10 DEF ConnectFails, EndFlush
  <2>2. /\ pc' = "poll" /\ cache' = <<>>
        /\ envelopeIdx' = -1 /\ measurementIdx' = -1 /\ metricName' = NoMetric
        /\ \A m \in Metric : stored'[m] = <<>>
    BY <2>1 DEF FlushOver
  <2>3. Len(cache') < CacheLimit
    BY <2>2, SinkAssumption
  <2>4. todo = {} /\ half = NoMetric /\ copying = NoMetric /\ sent = <<>>
    BY <2>1 DEF Phase
  <2> QED
    BY <2>1, <2>2, <2>3, <2>4 DEF Phase, InCopies
<1>11. CASE CopySucceeds \/ PartitionMissing \/ CopyRefused \/ ConnectionLost
  <2>1. /\ pc \in {"stream", "drained"} /\ pc' = "copy" /\ copying' = NoMetric /\ sent' = <<>>
        /\ UNCHANGED <<cache, todo, half>>
    BY <1>11 DEF CopySucceeds, PartitionMissing, CopyRefused, ConnectionLost, CopyFailed, ensureVars
  <2> QED
    BY <2>1 DEF Phase, InCopies, Sorted
<1> QED
  BY <1>2, <1>3, <1>4, <1>5, <1>6, <1>7, <1>8, <1>9, <1>10, <1>11 DEF Next, Poll, Flush

-----------------------------------------------------------------------------
(* The cursor and what is stored.                                          *)

LEMMA CursorKept ==
  ASSUME CInv, [Next]_vars
  PROVE  Cursor'
<1> USE DEF CInv
<1>1. CASE UNCHANGED vars \/ NextDay \/ DeleteOldPartitions \/ \E m \in Metric : PartitionsDropped(m)
  <2>1. UNCHANGED <<cache, pc, cursorVars, copying>>
    BY <1>1 DEF vars, NextDay, DeleteOldPartitions, PartitionsDropped, copyVars
  <2> QED
    BY <2>1 DEF Cursor, Boundary, Streaming, Behind, Size, MetricAt, RowsAt, cursorVars
<1>2. CASE Poll \/ BeginFlush \/ ConnectFails \/ EndFlush
           \/ \E m \in Metric : EnsureStart(m) \/ EnsureEnd(m)
  <2>1. pc' \notin {"copy", "stream", "drained"}
    BY <1>2 DEF Poll, PollReceive, PollTick, PollReturns, BeginFlush, ConnectFails, EndFlush, FlushOver,
                EnsureStart, EnsureEnd
  <2> QED
    BY <2>1 DEF Cursor
<1>3. CASE EnsureDone \/ \E m \in Metric : EnsureFails(m)
  <2>1. pc = "ensure" /\ pc' = "copy" /\ UNCHANGED <<cache, cursorVars>>
    BY <1>3 DEF EnsureDone, EnsureFails
  <2>2. envelopeIdx = -1 /\ metricName = NoMetric /\ Len(cache) > 0
    BY <2>1 DEF Phase, InCopies, TypeOK
  <2> QED
    BY <2>1, <2>2 DEF Cursor, Boundary, Size, cursorVars
<1>4. CASE BeginCopy
  <2>1. /\ pc = "copy" /\ pc' = "stream" /\ ~EOF /\ copying' = MetricName
        /\ UNCHANGED <<cache, cursorVars>>
    BY <1>4 DEF BeginCopy
  <2>2. Size \in Nat /\ envelopeIdx \in Int /\ -1 <= envelopeIdx
    BY EnvelopesAre DEF TypeOK
  <2>3. Boundary /\ envelopeIdx # Size /\ envelopeIdx + 1 \in 0..Size - 1 /\ envelopeIdx < Size
    BY <2>1, <2>2 DEF Cursor, EOF, Boundary
  <2>4. metricName = NoMetric /\ MetricName = MetricAt(envelopeIdx + 1) /\ MetricName \in Metric
    BY <2>2, <2>3, EnvelopesAre DEF Boundary, MetricName
  <2>5. Boundary'
    BY <2>1, <2>3 DEF Boundary, Size, MetricAt, RowsAt, cursorVars
  <2> QED
    BY <2>1, <2>3, <2>4, <2>5 DEF Cursor, Streaming, Size, MetricAt, cursorVars
<1>5. CASE StreamRow
  <2>1. Sorted /\ copying \in Metric /\ Streaming /\ NextRow
    BY <1>5 DEF StreamRow, Phase, Cursor, InCopies
  <2>2. pc' = "stream" /\ cache' = cache /\ copying' = copying
    BY <1>5 DEF StreamRow
  <2>3. /\ envelopeIdx' \in 0..Size - 1 /\ MetricAt(envelopeIdx') = copying /\ metricName' = copying
        /\ measurementIdx' \in 0..RowsAt(envelopeIdx') - 1
    BY <2>1, NextRowIs
  <2>4. copying # NoMetric /\ Size \in Nat
    BY <2>1, MetricsAre, EnvelopesAre
  <2> QED
    BY <2>1, <2>2, <2>3, <2>4 DEF Cursor, Streaming, Size, MetricAt, RowsAt
<1>6. CASE StreamEnd
  <2>1. Sorted /\ copying \in Metric /\ Streaming /\ NextNone
    BY <1>6 DEF StreamEnd, Phase, Cursor, InCopies
  <2>2. pc' = "drained" /\ cache' = cache /\ copying' = copying
    BY <1>6 DEF StreamEnd, copyVars
  <2>3. /\ envelopeIdx' \in 0..Size
        /\ \A i \in 0..Size - 1 : MetricAt(i) = copying => i <= envelopeIdx'
        /\ \/ envelopeIdx' = Size
           \/ /\ envelopeIdx' + 1 < Size /\ metricName' = NoMetric
              /\ measurementIdx' = RowsAt(envelopeIdx')
              /\ \A i \in 0..envelopeIdx' : MetricAt(i) < MetricAt(envelopeIdx' + 1)
    BY <2>1, NextNoneIs
  <2>4. Boundary'
    BY <2>2, <2>3 DEF Boundary, Size, MetricAt, RowsAt
  <2>5. Behind(copying)' /\ 0 <= envelopeIdx'
    BY <2>2, <2>3 DEF Behind, Size, MetricAt
  <2> QED
    BY <2>1, <2>2, <2>4, <2>5 DEF Cursor
<1>7. CASE CopySucceeds
  <2>1. pc = "drained" /\ pc' = "copy" /\ UNCHANGED <<cache, cursorVars>>
    BY <1>7 DEF CopySucceeds
  <2> QED
    BY <2>1 DEF Cursor, Boundary, Size, MetricAt, RowsAt, cursorVars
<1>8. CASE PartitionMissing \/ CopyRefused \/ ConnectionLost
  <2>1. CopyFailed /\ pc \in {"stream", "drained"} /\ SkipMetric(copying) /\ pc' = "copy" /\ cache' = cache
    BY <1>8 DEF PartitionMissing, CopyRefused, ConnectionLost, CopyFailed
  <2>2. /\ Sorted /\ copying \in Metric
        /\ Streaming \/ (Boundary /\ 0 <= envelopeIdx /\ Behind(copying))
    BY <2>1 DEF Phase, Cursor, InCopies
  <2>3. /\ metricName' = NoMetric
        /\ \/ envelopeIdx' = Size
           \/ /\ 0 <= envelopeIdx' /\ envelopeIdx' + 1 < Size
              /\ measurementIdx' = RowsAt(envelopeIdx')
              /\ \A i \in 0..envelopeIdx' : MetricAt(i) < MetricAt(envelopeIdx' + 1)
    BY <2>1, <2>2, SkipLands
  <2> QED
    BY <2>1, <2>3 DEF Cursor, Boundary, Size, MetricAt, RowsAt
<1> QED
  BY <1>1, <1>2, <1>3, <1>4, <1>5, <1>6, <1>7, <1>8 DEF Next, Flush

\* Each row returned by Next is the next one of the metric.
LEMMA SentGrows ==
  ASSUME TypeOK, Sorted, copying \in Metric, Streaming, NextRow,
         cache' = cache, copying' = copying
  PROVE  /\ SentSoFar' = SentSoFar \cup {<<envelopeIdx', measurementIdx'>>}
         /\ <<envelopeIdx', measurementIdx'>> \notin SentSoFar
<1> DEFINE e == envelopeIdx  f == envelopeIdx'  k == measurementIdx  l == measurementIdx'
           R == RowsOf(copying)
<1>1. /\ f \in 0..Size - 1 /\ e <= f /\ MetricAt(f) = copying /\ l \in 0..RowsAt(f) - 1
      /\ \/ f = e /\ l = k + 1
         \/ e < f /\ l = 0 /\ ~WithinEnvelope /\ \A i \in e + 1..f - 1 : RowsAt(i) = 0
  BY NextRowIs
<1>2. /\ Size \in Nat /\ e \in Int /\ -1 <= e /\ k \in Int
      /\ \A i \in 0..Size - 1 : RowsAt(i) \in Nat
  BY EnvelopesAre DEF TypeOK
<1>3. \A r : r \in R <=> \E i \in 0..Size - 1 : \E n \in 0..RowsAt(i) - 1 : MetricAt(i) = copying /\ r = <<i, n>>
  BY RowsAre
<1>4. RowsOf(copying)' = R
  BY DEF RowsOf, Size, MetricAt, RowsAt
<1>5. SentSoFar' = {r \in R : r[1] < f \/ (r[1] = f /\ r[2] <= l)}
  BY <1>4 DEF SentSoFar
<1>6. SentSoFar = {r \in R : r[1] < e \/ (r[1] = e /\ r[2] <= k)}
  BY DEF SentSoFar
<1>7. <<f, l>> \in R
  BY <1>1, <1>3
<1> HIDE DEF e, f, k, l, R
<1>8. <<f, l>> \notin SentSoFar
  BY <1>1, <1>2, <1>6
<1>9. ASSUME NEW i \in 0..Size - 1, NEW n \in 0..RowsAt(i) - 1
      PROVE  (i < f \/ (i = f /\ n <= l)) <=> (i < e \/ (i = e /\ n <= k) \/ (i = f /\ n = l))
  <2>1. RowsAt(i) \in Nat /\ i \in Nat /\ n \in Nat /\ n < RowsAt(i)
    BY <1>2
  <2>2. CASE f = e /\ l = k + 1
    BY <1>1, <1>2, <2>1, <2>2
  <2>3. CASE e < f /\ l = 0 /\ ~WithinEnvelope /\ \A j \in e + 1..f - 1 : RowsAt(j) = 0
    <3>1. i = e => n <= k
      BY <1>2, <2>1, <2>3 DEF WithinEnvelope, e, k
    <3>2. ~(e < i /\ i < f)
      BY <1>1, <1>2, <2>1, <2>3
    <3> QED
      BY <1>1, <1>2, <2>1, <2>3, <3>1, <3>2
  <2> QED
    BY <1>1, <2>2, <2>3
<1>10. \A r \in R : (r[1] < f \/ (r[1] = f /\ r[2] <= l)) <=> (r[1] < e \/ (r[1] = e /\ r[2] <= k) \/ r = <<f, l>>)
  <2> TAKE r \in R
  <2>1. PICK i \in 0..Size - 1 : \E n \in 0..RowsAt(i) - 1 : MetricAt(i) = copying /\ r = <<i, n>>
    BY <1>3
  <2>2. PICK n \in 0..RowsAt(i) - 1 : r = <<i, n>>
    BY <2>1
  <2>3. r[1] = i /\ r[2] = n /\ (r = <<f, l>> <=> i = f /\ n = l)
    BY <2>2
  <2> QED
    BY <2>3, <1>9
<1>11. SentSoFar' = SentSoFar \cup {<<f, l>>}
  BY <1>5, <1>6, <1>7, <1>10
<1> QED
  BY <1>8, <1>11 DEF f, l

\* When Next returns no row, every row of the metric has been sent.
LEMMA SentAll ==
  ASSUME TypeOK, Sorted, copying \in Metric, Streaming, NextNone
  PROVE  SentSoFar = RowsOf(copying)
<1>1. /\ ~WithinEnvelope
      /\ \A i \in 0..Size - 1 : (envelopeIdx < i /\ i <= envelopeIdx') => RowsAt(i) = 0
      /\ \A i \in 0..Size - 1 : MetricAt(i) = copying => i <= envelopeIdx'
  BY NextNoneIs
<1>2. /\ Size \in Nat /\ envelopeIdx \in Int /\ -1 <= envelopeIdx /\ measurementIdx \in Int
      /\ \A i \in 0..Size - 1 : RowsAt(i) \in Nat
  BY EnvelopesAre DEF TypeOK
<1>3. ASSUME NEW r \in RowsOf(copying)
      PROVE  r[1] < envelopeIdx \/ (r[1] = envelopeIdx /\ r[2] <= measurementIdx)
  <2>1. PICK i \in 0..Size - 1 : \E n \in 0..RowsAt(i) - 1 : MetricAt(i) = copying /\ r = <<i, n>>
    BY RowsAre
  <2>2. PICK n \in 0..RowsAt(i) - 1 : MetricAt(i) = copying /\ r = <<i, n>>
    BY <2>1
  <2>3. r[1] = i /\ r[2] = n /\ i \in Nat /\ n \in Nat /\ RowsAt(i) \in Nat /\ n < RowsAt(i)
    BY <2>2, <1>2
  <2>4. ~(envelopeIdx < i)
    BY <1>1, <2>2, <2>3
  <2>5. i = envelopeIdx => n <= measurementIdx
    BY <1>1, <1>2, <2>3 DEF WithinEnvelope
  <2> QED
    BY <1>2, <2>3, <2>4, <2>5
<1> QED
  BY <1>3 DEF SentSoFar

\* A cursor that moves over envelopes of one metric passes no other metric.
LEMMA PlaceKept ==
  ASSUME TypeOK, NEW c, NEW m \in Metric, m # c, cache' = cache,
         envelopeIdx' \in Int, envelopeIdx <= envelopeIdx',
         \A i \in 0..Size - 1 : (envelopeIdx < i /\ i <= envelopeIdx') => MetricAt(i) = c
  PROVE  /\ Behind(m) => Behind(m)'
         /\ Ahead(m) => Ahead(m)'
<1>1. Size \in Nat /\ Size' = Size /\ envelopeIdx \in Int /\ \A i : MetricAt(i)' = MetricAt(i)
  BY EnvelopesAre DEF TypeOK, Size, MetricAt
<1>2. Behind(m) => Behind(m)'
  BY <1>1 DEF Behind
<1>3. Ahead(m) => Ahead(m)'
  BY <1>1 DEF Ahead
<1> QED
  BY <1>2, <1>3

LEMMA SettledKept ==
  ASSUME TypeOK, NEW c, NEW m \in Metric, m # c, m # copying, m # copying', Settled(m), cache' = cache,
         envelopeIdx' \in Int, envelopeIdx <= envelopeIdx',
         \A i \in 0..Size - 1 : (envelopeIdx < i /\ i <= envelopeIdx') => MetricAt(i) = c,
         stored'[m] = stored[m], failed \subseteq failed'
  PROVE  Settled(m)'
<1>1. (Behind(m) => Behind(m)') /\ (Ahead(m) => Ahead(m)')
  BY PlaceKept
<1>2. RowsOf(m)' = RowsOf(m)
  BY DEF RowsOf, Size, MetricAt, RowsAt
<1>3. Copied(m) => Copied(m)'
  BY <1>2 DEF Copied, Elements
<1> QED
  BY <1>1, <1>3 DEF Settled, NoRepeats

LEMMA ContentsKept ==
  ASSUME CInv, [Next]_vars
  PROVE  Contents'
<1> USE DEF CInv
<1>1. CASE UNCHANGED vars \/ NextDay \/ DeleteOldPartitions \/ \E m \in Metric : PartitionsDropped(m)
  <2>1. UNCHANGED <<cache, pc, cursorVars, copying, sent, stored, failed>>
    BY <1>1 DEF vars, NextDay, DeleteOldPartitions, PartitionsDropped, copyVars
  <2>2. \A m : RowsOf(m)' = RowsOf(m)
    BY <2>1 DEF RowsOf, Size, MetricAt, RowsAt
  <2>3. \A m \in Metric : Settled(m) => Settled(m)'
    BY <2>1, <2>2 DEF Settled, Behind, Ahead, Copied, NoRepeats, Elements, Size, MetricAt, cursorVars
  <2>4. RowsOf(copying)' = RowsOf(copying) /\ SentSoFar' = SentSoFar
    BY <2>1 DEF SentSoFar, RowsOf, Size, MetricAt, RowsAt, cursorVars
  <2> QED
    BY <2>1, <2>3, <2>4 DEF Contents, InCopies, NoRepeats, Elements
<1>2. CASE Poll \/ BeginFlush \/ ConnectFails \/ EndFlush
           \/ \E m \in Metric : EnsureStart(m) \/ EnsureEnd(m)
  <2>1. pc' \notin {"copy", "stream", "drained"}
    BY <1>2 DEF Poll, PollReceive, PollTick, PollReturns, BeginFlush, ConnectFails, EndFlush, FlushOver,
                EnsureStart, EnsureEnd
  <2> QED
    BY <2>1 DEF Contents, InCopies
<1>3. CASE EnsureDone \/ \E m \in Metric : EnsureFails(m)
  <2>1. pc = "ensure" /\ pc' = "copy" /\ UNCHANGED <<cache, cursorVars, copying, stored>>
    BY <1>3 DEF EnsureDone, EnsureFails, copyVars
  <2>2. envelopeIdx = -1 /\ copying = NoMetric /\ \A m \in Metric : stored[m] = <<>>
    BY <2>1 DEF Phase, InCopies
  <2>3. \A m \in Metric : Settled(m)'
    BY <2>1, <2>2, MetricsAre, EnvelopesAre DEF Settled, NoRepeats, Ahead, Size, cursorVars
  <2> QED
    BY <2>1, <2>3 DEF Contents
<1>4. CASE BeginCopy
  <2>1. /\ pc = "copy" /\ pc' = "stream" /\ ~EOF /\ copying' = MetricName /\ sent' = <<>>
        /\ UNCHANGED <<cache, cursorVars, stored, failed>>
    BY <1>4 DEF BeginCopy
  <2>2. Size \in Nat /\ envelopeIdx \in Int /\ -1 <= envelopeIdx
    BY EnvelopesAre DEF TypeOK
  <2>3. envelopeIdx + 1 \in 0..Size - 1 /\ MetricName = MetricAt(envelopeIdx + 1) /\ MetricName \in Metric
    BY <2>1, <2>2, EnvelopesAre DEF Cursor, EOF, Boundary, MetricName
  <2>4. copying = NoMetric /\ \A m \in Metric : Settled(m)
    BY <2>1 DEF Phase, Contents, InCopies
  <2>5. ~Behind(MetricName)
    BY <2>2, <2>3 DEF Behind
  <2>6. stored[MetricName] = <<>> /\ Ahead(MetricName)
    BY <2>3, <2>4, <2>5, MetricsAre DEF Settled
  <2>7. ASSUME NEW m \in Metric
        PROVE  Settled(m)'
    <3>1. CASE m = MetricName
      BY <2>1, <2>6, <3>1 DEF Settled, NoRepeats
    <3>2. CASE m # MetricName
      <4>1. /\ envelopeIdx' \in Int /\ envelopeIdx <= envelopeIdx'
            /\ \A i \in 0..Size - 1 : (envelopeIdx < i /\ i <= envelopeIdx') => MetricAt(i) = NoMetric
        BY <2>1, <2>2 DEF cursorVars
      <4>2. m # NoMetric /\ m # copying' /\ m # copying /\ Settled(m)
        BY <2>1, <2>4, <3>2, MetricsAre
      <4> QED
        BY <2>1, <4>1, <4>2, SettledKept
    <3> QED
      BY <3>1, <3>2
  <2>8. SentSoFar' = {}
    <3>1. RowsOf(copying)' = RowsOf(MetricName)
      BY <2>1 DEF RowsOf, Size, MetricAt, RowsAt
    <3>2. \A r \in RowsOf(MetricName) : r[1] > envelopeIdx /\ r[1] \in Nat
      BY <2>2, <2>3, <2>6, RowsAre DEF Ahead
    <3> QED
      BY <2>1, <2>2, <3>1, <3>2 DEF SentSoFar, cursorVars
  <2>9. NoRepeats(sent)' /\ Elements(sent)' = {}
    BY <2>1 DEF NoRepeats, Elements
  <2> QED
    BY <2>1, <2>7, <2>8, <2>9 DEF Contents
<1>5. CASE StreamRow
  <2>1. Sorted /\ copying \in Metric /\ Streaming /\ NextRow
    BY <1>5 DEF StreamRow, Phase, Cursor, InCopies
  <2>2. /\ pc = "stream" /\ pc' = "stream" /\ UNCHANGED <<cache, copying, stored, failed>>
        /\ sent' = Append(sent, <<envelopeIdx', measurementIdx'>>)
    BY <1>5 DEF StreamRow
  <2>3. /\ envelopeIdx' \in 0..Size - 1 /\ envelopeIdx <= envelopeIdx'
        /\ \A i \in 0..Size - 1 : (envelopeIdx < i /\ i <= envelopeIdx') => MetricAt(i) = copying
    BY <2>1, NextRowIs
  <2>4. ASSUME NEW m \in Metric
        PROVE  Settled(m)'
    <3>1. Settled(m)
      BY <2>2 DEF Contents, InCopies
    <3>2. CASE m = copying
      BY <2>2, <3>1, <3>2 DEF Settled, NoRepeats
    <3>3. CASE m # copying
      <4>1. envelopeIdx' \in Int
        BY <2>3, EnvelopesAre
      <4> QED
        BY <2>2, <2>3, <3>1, <3>3, <4>1, SettledKept
    <3> QED
      BY <3>2, <3>3
  <2> DEFINE r == <<envelopeIdx', measurementIdx'>>
  <2>5. SentSoFar' = SentSoFar \cup {r} /\ r \notin SentSoFar
    BY <2>1, <2>2, SentGrows
  <2>6. NoRepeats(sent) /\ Elements(sent) = SentSoFar /\ sent \in Seq(Row)
    BY <2>2 DEF Contents, TypeOK
  <2>7. NoRepeats(sent') /\ Elements(sent') = Elements(sent) \cup {r}
    <3>1. sent' = Append(sent, r)
      BY <2>2
    <3>2. \A k \in DOMAIN sent : sent[k] # r
      BY <2>5, <2>6 DEF Elements
    <3> HIDE DEF r
    <3>3. /\ DOMAIN sent' = 1..Len(sent) + 1 /\ DOMAIN sent = 1..Len(sent) /\ Len(sent) \in Nat
          /\ sent'[Len(sent) + 1] = r /\ \A k \in DOMAIN sent : sent'[k] = sent[k]
      BY <2>6, <3>1
    <3>4. Elements(sent') = Elements(sent) \cup {r}
      BY <3>3 DEF Elements
    <3>5. NoRepeats(sent')
      BY <2>6, <3>2, <3>3 DEF NoRepeats
    <3> QED
      BY <3>4, <3>5
  <2> QED
    BY <2>2, <2>4, <2>5, <2>6, <2>7 DEF Contents, NoRepeats, Elements
<1>6. CASE StreamEnd
  <2>1. Sorted /\ copying \in Metric /\ Streaming /\ NextNone
    BY <1>6 DEF StreamEnd, Phase, Cursor, InCopies
  <2>2. pc = "stream" /\ pc' = "drained" /\ UNCHANGED <<cache, copying, sent, stored, failed>>
    BY <1>6 DEF StreamEnd, copyVars
  <2>3. /\ envelopeIdx' \in 0..Size /\ envelopeIdx <= envelopeIdx'
        /\ \A i \in 0..Size - 1 : (envelopeIdx < i /\ i <= envelopeIdx') => MetricAt(i) = copying
    BY <2>1, NextNoneIs
  <2>4. ASSUME NEW m \in Metric
        PROVE  Settled(m)'
    <3>1. Settled(m)
      BY <2>2 DEF Contents, InCopies
    <3>2. CASE m = copying
      BY <2>2, <3>1, <3>2 DEF Settled, NoRepeats
    <3>3. CASE m # copying
      <4>1. envelopeIdx' \in Int
        BY <2>3, EnvelopesAre
      <4> QED
        BY <2>2, <2>3, <3>1, <3>3, <4>1, SettledKept
    <3> QED
      BY <3>2, <3>3
  <2>5. Elements(sent) = RowsOf(copying) /\ NoRepeats(sent)
    BY <2>1, <2>2, SentAll DEF Contents
  <2>6. RowsOf(copying)' = RowsOf(copying)
    BY <2>2 DEF RowsOf, Size, MetricAt, RowsAt
  <2> QED
    BY <2>2, <2>4, <2>5, <2>6 DEF Contents, NoRepeats, Elements
<1>7. CASE CopySucceeds
  <2>1. /\ pc = "drained" /\ pc' = "copy" /\ copying' = NoMetric /\ copying \in Metric
        /\ stored' = StoredWithSent /\ UNCHANGED <<cache, cursorVars, failed>>
    BY <1>7 DEF CopySucceeds, Cursor
  <2>2. Behind(copying) /\ NoRepeats(sent) /\ Elements(sent) = RowsOf(copying) /\ stored[copying] = <<>>
    BY <2>1 DEF Cursor, Contents, InCopies, Settled
  <2>3. stored'[copying] = sent /\ \A m \in Metric : m # copying => stored'[m] = stored[m]
    BY <2>1, <2>2 DEF StoredWithSent, TypeOK
  <2>4. ASSUME NEW m \in Metric
        PROVE  Settled(m)'
    <3>1. Settled(m)
      BY <2>1 DEF Contents, InCopies
    <3>2. CASE m = copying
      <4>1. RowsOf(m)' = RowsOf(m) /\ Behind(m)'
        BY <2>1, <2>2, <3>2 DEF RowsOf, Behind, Size, MetricAt, RowsAt, cursorVars
      <4> QED
        BY <2>1, <2>2, <2>3, <3>2, <4>1, MetricsAre DEF Settled, NoRepeats, Copied, Elements
    <3>3. CASE m # copying
      <4>1. /\ envelopeIdx' \in Int /\ envelopeIdx <= envelopeIdx'
            /\ \A i \in 0..Size - 1 : (envelopeIdx < i /\ i <= envelopeIdx') => MetricAt(i) = NoMetric
        BY <2>1 DEF cursorVars, TypeOK
      <4>2. m # NoMetric /\ m # copying'
        BY <2>1, MetricsAre
      <4> QED
        BY <2>1, <2>3, <3>1, <3>3, <4>1, <4>2, SettledKept
    <3> QED
      BY <3>2, <3>3
  <2> QED
    BY <2>1, <2>4 DEF Contents
<1>8. CASE PartitionMissing \/ CopyRefused \/ ConnectionLost
  <2>1. /\ CopyFailed /\ pc \in {"stream", "drained"} /\ SkipMetric(copying)
        /\ pc' = "copy" /\ cache' = cache /\ copying' = NoMetric /\ failed' = failed \cup {copying}
        /\ stored' = stored \/ (pc = "drained" /\ stored' = StoredWithSent)
    BY <1>8 DEF PartitionMissing, CopyRefused, ConnectionLost, CopyFailed
  <2>2. /\ Sorted /\ copying \in Metric
        /\ Streaming \/ (Boundary /\ 0 <= envelopeIdx /\ Behind(copying))
    BY <2>1 DEF Phase, Cursor, InCopies
  <2>3. /\ envelopeIdx' \in Int /\ envelopeIdx <= envelopeIdx'
        /\ \A i \in 0..Size - 1 : (envelopeIdx < i /\ i <= envelopeIdx') => MetricAt(i) = copying
        /\ \A i \in 0..Size - 1 : MetricAt(i) = copying => i <= envelopeIdx'
    BY <2>1, <2>2, SkipLands
  <2>4. stored[copying] = <<>>
    BY <2>1, <2>2 DEF Contents, InCopies, Settled
  <2>5. /\ \A m \in Metric : m # copying => stored'[m] = stored[m]
        /\ stored'[copying] = <<>> \/ (pc = "drained" /\ stored'[copying] = sent)
    BY <2>1, <2>2, <2>4 DEF StoredWithSent, TypeOK
  <2>6. ASSUME NEW m \in Metric
        PROVE  Settled(m)'
    <3>1. Settled(m)
      BY <2>1 DEF Contents, InCopies
    <3>2. CASE m = copying
      <4>1. RowsOf(m)' = RowsOf(m) /\ Behind(m)'
        BY <2>1, <2>3, <3>2 DEF RowsOf, Behind, Size, MetricAt, RowsAt
      <4>2. pc = "drained" => NoRepeats(sent) /\ Elements(sent) = RowsOf(m)
        BY <3>2 DEF Contents
      <4>3. m \in failed' /\ m # copying'
        BY <2>1, <3>2, MetricsAre
      <4>4. NoRepeats(stored'[m]) /\ Copied(m)'
        BY <2>5, <3>2, <4>1, <4>2, <4>3 DEF NoRepeats, Copied, Elements
      <4> QED
        BY <4>1, <4>3, <4>4 DEF Settled, NoRepeats
    <3>3. CASE m # copying
      BY <2>1, <2>3, <2>5, <3>1, <3>3, SettledKept, MetricsAre
    <3> QED
      BY <3>2, <3>3
  <2> QED
    BY <2>1, <2>6 DEF Contents
<1> QED
  BY <1>1, <1>2, <1>3, <1>4, <1>5, <1>6, <1>7, <1>8 DEF Next, Flush

-----------------------------------------------------------------------------
(* The theorems about the copies.                                          *)

\* The cursor of copyFromMeasurements is at a row of the metric that is copied
\* or between two metrics, and what is stored is what it has passed.
THEOREM Invariance == Spec => []CInv
<1>1. Init => CInv
  <2> SUFFICES ASSUME Init
               PROVE  CInv
    OBVIOUS
  <2>1. <<>> \in Seq(Envelope) /\ <<>> \in Seq(Row) /\ Len(<<>>) = 0
    OBVIOUS
  <2>2. TypeOK
    <3>1. /\ parts \in [Metric -> SUBSET Day] /\ dropped \in [Metric -> DropState]
          /\ partitionMap \in [Metric -> Day \cup {-1}] /\ stored \in [Metric -> Seq(Row)]
      BY <2>1 DEF Init, DropState
    <3>2. /\ today \in 0..LastDay /\ envelopeIdx \in Int /\ -1 <= envelopeIdx
          /\ envelopeIdx <= Len(cache) /\ measurementIdx \in Int
          /\ cache \in Seq(Envelope) /\ Len(cache) <= CacheLimit /\ sent \in Seq(Row)
      BY <2>1, SinkAssumption DEF Init
    <3> QED
      BY <3>1, <3>2 DEF Init, TypeOK
  <2>3. Phase
    BY <2>1, SinkAssumption DEF Init, Phase, InCopies
  <2> QED
    BY <2>2, <2>3 DEF Init, CInv, Cursor, Contents, InCopies
<1>2. CInv /\ [Next]_vars => CInv'
  BY TypesKept, PhaseKept, CursorKept, ContentsKept DEF CInv
<1> QED
  BY <1>1, <1>2, PTL DEF Spec

\* The variables keep their types; above all no flush holds more envelopes than
\* the cache limit, and the cursor stays within the batch.
THEOREM WithinTheBatch == Spec => []TypeOK
BY Invariance, PTL DEF CInv

LEMMA NoRepeatsCounts ==
  ASSUME NEW s \in Seq(Row), NoRepeats(s)
  PROVE  Cardinality(Elements(s)) = Len(s)
<1>1. Len(s) \in Nat /\ DOMAIN s = 1..Len(s)
  OBVIOUS
<1>2. s \in Bijection(1..Len(s), Elements(s))
  BY <1>1 DEF NoRepeats, Elements, Bijection, Injection, Surjection, IsInjective
<1>3. ExistsBijection(1..Len(s), Elements(s))
  BY <1>2 DEF ExistsBijection
<1>4. IsFiniteSet(1..Len(s)) /\ Cardinality(1..Len(s)) = Len(s)
  BY <1>1, FS_Interval
<1> QED
  BY <1>3, <1>4, FS_Bijection

\* A flush copies every row of every metric exactly once, but for a metric whose
\* copy failed, which has none or all: for any number of metrics, envelopes and
\* rows, wherever the copies fail.
THEOREM CopiesAreComplete == Spec => []CopiesAreExact
<1>1. CInv => CopiesAreExact
  <2> SUFFICES ASSUME CInv, pc = "copy", EOF, NEW m \in Metric
               PROVE  /\ Cardinality(Elements(stored[m])) = Len(stored[m])
                      /\ Elements(stored[m]) = RowsOf(m) \/ (m \in failed /\ Elements(stored[m]) = {})
    BY DEF CopiesAreExact, Elements
  <2>1. TypeOK /\ Settled(m) /\ m # copying /\ stored[m] \in Seq(Row)
    BY MetricsAre DEF CInv, Contents, Phase, InCopies, TypeOK
  <2>2. Cardinality(Elements(stored[m])) = Len(stored[m])
    BY <2>1, NoRepeatsCounts DEF Settled
  <2>3. CASE Copied(m)
    BY <2>2, <2>3 DEF Copied, Elements
  <2>4. CASE Ahead(m) /\ stored[m] = <<>>
    <3>1. \A i \in 0..Size - 1 : MetricAt(i) # m
      BY <2>1, <2>4, EnvelopesAre DEF Ahead, EOF, TypeOK
    <3>2. RowsOf(m) = {} /\ Elements(stored[m]) = {}
      BY <2>1, <2>4, <3>1, RowsAre DEF Elements
    <3> QED
      BY <2>2, <3>2
  <2> QED
    BY <2>1, <2>3, <2>4 DEF Settled
<1> QED
  BY <1>1, Invariance, PTL

-----------------------------------------------------------------------------
(* The partitions.                                                         *)

LEMMA DaysAre ==
  ASSUME TypeOK, Recent, NEW m \in Metric, NEW d \in DaysOf(m)
  PROVE  /\ d \in Day /\ d \in 0..today /\ d >= today - MaxDelay
         /\ ~Expired(d)
<1>1. PICK i \in DOMAIN cache : d = cache[i].day
  BY DEF DaysOf
<1>2. d \in 0..LastDay /\ d >= today - MaxDelay /\ d <= today
  BY <1>1, CachedAre DEF Recent
<1> QED
  BY <1>2, SinkAssumption DEF Expired, Day, TypeOK

\* What a call of ensure_partition_metric_time leaves.
LEMMA EnsureKeeps ==
  ASSUME TypeOK, NEW m \in Metric, NEW d \in Day, Ensure(m, d)
  PROVE  /\ d \in parts'[m] /\ parts[m] \subseteq parts'[m] /\ partitionMap'[m] = d
         /\ \A n \in Metric \ {m} : parts'[n] = parts[n] /\ partitionMap'[n] = partitionMap[n]
<1>1. /\ Precreate \in Nat /\ d \in Nat
      /\ parts \in [Metric -> SUBSET Day] /\ partitionMap \in [Metric -> Day \cup {-1}]
  BY SinkAssumption DEF TypeOK, Day
<1>2. partitionMap'[m] = d /\ \A n \in Metric \ {m} : partitionMap'[n] = partitionMap[n]
  BY <1>1 DEF Ensure
<1>3. /\ \A n \in Metric \ {m} : parts'[n] = parts[n]
      /\ \/ d \in parts[m] /\ parts'[m] = parts[m]
         \/ d \notin parts[m] /\ parts'[m] = parts[m] \cup (d..d + Precreate)
  BY <1>1 DEF Ensure, PartitionsWith
<1> QED
  BY <1>1, <1>2, <1>3

\* The bounds of a batch, and that retention does not reach them.
LEMMA BatchIs ==
  ASSUME TypeOK, Recent, NEW m \in Metric, DaysOf(m) # {}
  PROVE  /\ StartOf(m) \in Day /\ EndOf(m) \in Day
         /\ StartOf(m) \in Nat /\ EndOf(m) \in Nat /\ StartOf(m) <= EndOf(m)
         /\ ~Expired(StartOf(m)) /\ ~Expired(EndOf(m))
<1>1. StartOf(m) \in DaysOf(m) /\ EndOf(m) \in DaysOf(m) /\ StartOf(m) <= EndOf(m)
  BY BoundsAre
<1>2. Day \subseteq Nat
  BY SinkAssumption DEF Day
<1> QED
  BY <1>1, <1>2, DaysAre

\* The step of a metric that ends with its batch ready.
LEMMA EndIsReady ==
  ASSUME TypeOK, Recent, Anchored, NEW m \in Metric, DaysOf(m) # {}, dropped[m] = "no",
         StartReady(m), partitionMap[m] # -1, partitionMap[m] <= StartOf(m), EnsureEnd(m)
  PROVE  EndOf(m) \in parts'[m] /\ (StartOf(m) \in parts'[m] \/ m \in jumped)
<1>1. /\ EndOf(m) \in Day /\ StartOf(m) \in Nat /\ EndOf(m) \in Nat /\ StartOf(m) <= EndOf(m)
      /\ ~Expired(EndOf(m)) /\ partitionMap[m] \in Int
  <2>1. partitionMap[m] \in Int
    BY SinkAssumption DEF TypeOK, Day
  <2> QED
    BY <2>1, BatchIs
<1>2. CASE NeedsEnd(m)
  <2>1. Ensure(m, EndOf(m))
    BY <1>2 DEF EnsureEnd
  <2> QED
    BY <1>1, <2>1, EnsureKeeps DEF StartReady
<1>3. CASE ~NeedsEnd(m)
  <2>1. parts' = parts
    BY <1>3 DEF EnsureEnd
  <2>2. partitionMap[m] = EndOf(m)
    BY <1>1, <1>3 DEF NeedsEnd
  <2>3. EndOf(m) \in parts[m]
    BY <1>1, <2>2 DEF Anchored
  <2> QED
    BY <2>1, <2>3 DEF StartReady
<1> QED
  BY <1>2, <1>3

LEMMA PartitionsKept ==
  ASSUME CInv, PInv, [Next]_vars
  PROVE  PInv'
<1> USE DEF CInv, PInv
<1>1. /\ today \in Nat /\ MaxDelay \in Nat /\ Retention \in Nat /\ Day \subseteq Nat
      /\ parts \in [Metric -> SUBSET Day] /\ partitionMap \in [Metric -> Day \cup {-1}]
      /\ dropped \in [Metric -> DropState]
      /\ \A m \in Metric : partitionMap[m] \in Int
  BY SinkAssumption DEF TypeOK, Day
<1>2. ASSUME UNCHANGED cache
      PROVE  \A m : DaysOf(m)' = DaysOf(m) /\ StartOf(m)' = StartOf(m) /\ EndOf(m)' = EndOf(m)
  BY <1>2 DEF DaysOf, StartOf, EndOf
<1>3. CASE NextDay
  <2>1. /\ today' = today + 1
        /\ UNCHANGED <<parts, cache, pc, todo, half, ensured, partitionMap, jumped, dropped>>
        /\ \A i \in DOMAIN cache : cache[i].day > today - MaxDelay
    BY <1>3 DEF NextDay, ensureVars, copyVars
  <2>2. Recent'
    BY <1>1, <2>1, CachedAre DEF Recent
  <2>3. Anchored'
    <3>1. \A m \in Metric : Expired(partitionMap[m]) => Expired(partitionMap[m])'
      BY <1>1, <2>1 DEF Expired
    <3> QED
      BY <2>1, <3>1 DEF Anchored
  <2>4. Ensured' /\ PartitionsReady'
    BY <1>2, <2>1 DEF Ensured, BatchReady, StartReady, PartitionsReady
  <2> QED
    BY <2>2, <2>3, <2>4
<1>4. CASE DeleteOldPartitions
  <2>1. /\ parts' = [m \in Metric |-> {d \in parts[m] : ~Expired(d)}]
        /\ UNCHANGED <<today, cache, pc, todo, half, ensured, partitionMap, jumped, dropped>>
    BY <1>4 DEF DeleteOldPartitions, ensureVars, copyVars
  <2>2. \A m \in Metric : parts'[m] = {d \in parts[m] : ~Expired(d)}
    BY <2>1
  <2>3. Recent' /\ Anchored'
    BY <2>1, <2>2 DEF Recent, Anchored, Expired
  <2>4. \A m \in Metric : DaysOf(m) # {} =>
          /\ StartOf(m) \in parts[m] => StartOf(m) \in parts'[m]
          /\ EndOf(m) \in parts[m] => EndOf(m) \in parts'[m]
    BY <2>2, BatchIs
  <2>5. Ensured' /\ PartitionsReady'
    BY <1>2, <2>1, <2>4 DEF Ensured, BatchReady, StartReady, PartitionsReady
  <2> QED
    BY <2>3, <2>5
<1>5. ASSUME NEW n \in Metric, PartitionsDropped(n)
      PROVE  PInv'
  <2>1. /\ parts' = [parts EXCEPT ![n] = {}] /\ dropped' = [dropped EXCEPT ![n] = "unnoticed"]
        /\ UNCHANGED <<today, cache, pc, todo, half, ensured, partitionMap, jumped>>
    BY <1>5 DEF PartitionsDropped, ensureVars
  <2>2. /\ dropped'[n] # "no"
        /\ \A m \in Metric \ {n} : parts'[m] = parts[m] /\ dropped'[m] = dropped[m]
    BY <1>1, <2>1
  <2>3. Recent' /\ Anchored'
    BY <2>1, <2>2 DEF Recent, Anchored, Expired
  <2>4. Ensured' /\ PartitionsReady'
    BY <1>2, <2>1, <2>2 DEF Ensured, BatchReady, StartReady, PartitionsReady
  <2> QED
    BY <2>3, <2>4
<1>6. ASSUME UNCHANGED <<today, parts, partitionMap, dropped>>
      PROVE  Anchored'
  BY <1>6 DEF Anchored, Expired
<1>7. ASSUME NEW m \in Metric, PollReceive(m)
      PROVE  PInv'
  <2>1. /\ pc' \in {"poll", "flush"}
        /\ UNCHANGED <<today, parts, partitionMap, dropped>>
    BY <1>7 DEF PollReceive, envVars, ensureVars, copyVars
  <2>2. PICK d \in 0..today, n \in RowCounts : /\ d >= today - MaxDelay
                                               /\ cache' = Append(cache, [metric |-> m, day |-> d, rows |-> n])
    BY <1>7 DEF PollReceive, Received
  <2>3. Recent'
    <3> DEFINE x == [metric |-> m, day |-> d, rows |-> n]
    <3>1. x.day = d /\ cache' = Append(cache, x)
      BY <2>2
    <3> HIDE DEF x
    <3>2. Len(cache) \in Nat /\ DOMAIN cache = 1..Len(cache) /\ cache \in Seq(Envelope)
      BY CachedAre DEF TypeOK
    <3>3. /\ DOMAIN cache' = 1..Len(cache) + 1 /\ cache'[Len(cache) + 1] = x
          /\ \A i \in DOMAIN cache : cache'[i] = cache[i]
      BY <3>1, <3>2
    <3>4. \A i \in DOMAIN cache' : i \in DOMAIN cache \/ i = Len(cache) + 1
      BY <3>2, <3>3
    <3> QED
      BY <1>1, <2>1, <2>2, <3>1, <3>3, <3>4 DEF Recent
  <2> QED
    BY <1>6, <2>1, <2>3 DEF Ensured, PartitionsReady
<1>8. CASE PollTick \/ PollReturns \/ ConnectFails \/ EndFlush
  <2>1. /\ pc' \in {"poll", "flush", "returned"} /\ (cache' = cache \/ cache' = <<>>)
        /\ UNCHANGED <<today, parts, partitionMap, dropped>>
    BY <1>8 DEF PollTick, PollReturns, ConnectFails, EndFlush, FlushOver, envVars, ensureVars, copyVars
  <2>2. Recent'
    BY <2>1 DEF Recent
  <2> QED
    BY <1>6, <2>1, <2>2 DEF Ensured, PartitionsReady
<1>9. CASE BeginFlush
  <2>1. /\ pc' = "ensure" /\ half' = NoMetric /\ todo' = {m \in Metric : DaysOf(m)' # {}}
        /\ UNCHANGED <<today, parts, partitionMap, dropped>>
    BY <1>9 DEF BeginFlush, Phase, envVars, copyVars
  <2>2. \A i \in DOMAIN cache' : \E j \in DOMAIN cache : cache'[i] = cache[j]
    BY <1>9, SortKeeps DEF BeginFlush
  <2>3. Recent'
    BY <2>1, <2>2 DEF Recent
  <2>4. Ensured'
    BY <2>1, MetricsAre DEF Ensured
  <2> QED
    BY <1>6, <2>1, <2>3, <2>4 DEF PartitionsReady
<1>10. ASSUME NEW m \in Metric, EnsureStart(m)
       PROVE  PInv'
  <2>1. /\ pc = "ensure" /\ pc' = "ensure" /\ half = NoMetric /\ m \in todo /\ half' = m
        /\ UNCHANGED <<today, cache, todo>>
        /\ jumped' = IF NeedsStart(m) \/ StartOf(m) = partitionMap[m] THEN jumped ELSE jumped \cup {m}
        /\ dropped' = IF force THEN [dropped EXCEPT ![m] = "no"] ELSE dropped
    BY <1>10 DEF EnsureStart
  <2>2. Recent' /\ jumped \subseteq jumped'
    BY <2>1 DEF Recent
  <2>3. /\ DaysOf(m) # {} /\ ~Expired(StartOf(m))
        /\ StartOf(m) \in Day /\ StartOf(m) \in Nat /\ StartOf(m) # -1
    <3>1. DaysOf(m) # {}
      BY <2>1 DEF Phase
    <3>2. StartOf(m) \in Day /\ StartOf(m) \in Nat /\ ~Expired(StartOf(m))
      BY <3>1, BatchIs
    <3> QED
      BY <3>1, <3>2
  <2>4. \A n \in Metric \ {m} : dropped'[n] = dropped[n]
    BY <1>1, <2>1
  <2>5. CASE NeedsStart(m)
    <3>1. Ensure(m, StartOf(m))
      BY <1>10, <2>5 DEF EnsureStart
    <3>2. /\ StartOf(m) \in parts'[m] /\ partitionMap'[m] = StartOf(m)
          /\ \A n \in Metric \ {m} : parts'[n] = parts[n] /\ partitionMap'[n] = partitionMap[n]
      BY <2>3, <3>1, EnsureKeeps
    <3>3. Anchored'
      <4> SUFFICES ASSUME NEW n \in Metric, dropped'[n] = "no", partitionMap'[n] # -1
                   PROVE  partitionMap'[n] \in parts'[n] \/ partitionMap'[n] + 1 <= today' - Retention
        BY DEF Anchored, Expired
      <4>1. CASE n = m
        BY <3>2, <4>1
      <4>2. CASE n # m
        BY <2>1, <2>4, <3>2, <4>2 DEF Anchored, Expired
      <4> QED
        BY <4>1, <4>2
    <3>4. Ensured'
      <4> SUFFICES ASSUME NEW n \in Metric, dropped'[n] = "no", DaysOf(n) # {}
                   PROVE  /\ n \notin todo => /\ EndOf(n) \in parts'[n]
                                              /\ StartOf(n) \in parts'[n] \/ n \in jumped'
                          /\ n = m => /\ StartOf(n) \in parts'[n] \/ n \in jumped'
                                      /\ partitionMap'[n] # -1 /\ partitionMap'[n] <= StartOf(n)
        BY <1>2, <2>1 DEF Ensured, BatchReady, StartReady
      <4>1. CASE n = m
        BY <1>1, <2>1, <2>3, <3>2, <4>1
      <4>2. CASE n # m
        BY <2>1, <2>2, <2>4, <3>2, <4>2 DEF Ensured, BatchReady, StartReady
      <4> QED
        BY <4>1, <4>2
    <3> QED
      BY <2>1, <2>2, <3>3, <3>4 DEF PartitionsReady
  <2>6. CASE ~NeedsStart(m)
    <3>1. UNCHANGED <<parts, partitionMap>>
      BY <1>10, <2>6 DEF EnsureStart
    <3>2. ~force /\ partitionMap[m] # -1 /\ ~(StartOf(m) < partitionMap[m])
      BY <2>6 DEF NeedsStart
    <3>3. dropped' = dropped
      BY <2>1, <3>2
    <3>4. partitionMap[m] <= StartOf(m)
      BY <1>1, <2>3, <3>2
    <3>5. dropped[m] = "no" => StartOf(m) \in parts[m] \/ m \in jumped'
      BY <2>1, <2>3, <2>6, <3>2 DEF Anchored
    <3>6. Ensured'
      BY <1>2, <2>1, <2>2, <3>1, <3>2, <3>3, <3>4, <3>5 DEF Ensured, BatchReady, StartReady
    <3> QED
      BY <1>6, <2>1, <2>2, <3>1, <3>3, <3>6 DEF PartitionsReady
  <2> QED
    BY <2>5, <2>6
<1>11. ASSUME NEW m \in Metric, EnsureEnd(m)
       PROVE  PInv'
  <2>1. /\ pc = "ensure" /\ pc' = "ensure" /\ half = m /\ half' = NoMetric /\ todo' = todo \ {m}
        /\ UNCHANGED <<today, cache, jumped, dropped>>
    BY <1>11 DEF EnsureEnd, copyVars
  <2>2. m \in todo /\ DaysOf(m) # {}
    BY <2>1, MetricsAre DEF Phase
  <2>3. Recent'
    BY <2>1 DEF Recent
  <2>4. dropped[m] = "no" => EndOf(m) \in parts'[m] /\ (StartOf(m) \in parts'[m] \/ m \in jumped)
    BY <1>11, <2>1, <2>2, EndIsReady DEF Ensured
  <2>5. /\ Anchored'
        /\ \A n \in Metric \ {m} : parts'[n] = parts[n] /\ partitionMap'[n] = partitionMap[n]
    <3>1. CASE NeedsEnd(m)
      <4>1. Ensure(m, EndOf(m)) /\ EndOf(m) \in Day
        BY <1>11, <2>2, <3>1, BatchIs DEF EnsureEnd
      <4>2. /\ EndOf(m) \in parts'[m] /\ partitionMap'[m] = EndOf(m)
            /\ \A n \in Metric \ {m} : parts'[n] = parts[n] /\ partitionMap'[n] = partitionMap[n]
        BY <4>1, EnsureKeeps
      <4>3. Anchored'
        <5> SUFFICES ASSUME NEW n \in Metric, dropped'[n] = "no", partitionMap'[n] # -1
                     PROVE  partitionMap'[n] \in parts'[n] \/ partitionMap'[n] + 1 <= today' - Retention
          BY DEF Anchored, Expired
        <5>1. CASE n = m
          BY <4>2, <5>1
        <5>2. CASE n # m
          BY <2>1, <4>2, <5>2 DEF Anchored, Expired
        <5> QED
          BY <5>1, <5>2
      <4> QED
        BY <4>2, <4>3
    <3>2. CASE ~NeedsEnd(m)
      BY <1>6, <1>11, <2>1, <3>2 DEF EnsureEnd
    <3> QED
      BY <3>1, <3>2
  <2>6. Ensured'
    BY <1>2, <2>1, <2>4, <2>5, MetricsAre DEF Ensured, BatchReady, StartReady
  <2> QED
    BY <2>1, <2>3, <2>5, <2>6 DEF PartitionsReady
<1>12. CASE EnsureDone \/ \E m \in Metric : EnsureFails(m)
  <2>1. /\ pc = "ensure" /\ pc' = "copy" /\ UNCHANGED <<today, parts, cache, partitionMap, jumped, dropped>>
        /\ (todo = {} /\ half = NoMetric) \/ ~ensured'
    BY <1>12 DEF EnsureDone, EnsureFails, envVars, copyVars
  <2>2. Recent'
    BY <2>1 DEF Recent
  <2>3. PartitionsReady'
    BY <1>2, <2>1, <2>2 DEF PartitionsReady, Ensured, BatchReady, StartReady
  <2> QED
    BY <1>6, <2>1, <2>2, <2>3 DEF Ensured
<1>13. CASE BeginCopy \/ StreamRow \/ StreamEnd \/ CopySucceeds \/ PartitionMissing \/ CopyRefused \/ ConnectionLost
  <2>1. /\ pc \in {"copy", "stream", "drained"} /\ pc' \in {"copy", "stream", "drained"}
        /\ UNCHANGED <<today, parts, cache, partitionMap, ensured, jumped>>
    BY <1>13 DEF BeginCopy, StreamRow, StreamEnd, CopySucceeds, PartitionMissing, CopyRefused,
                 ConnectionLost, CopyFailed, envVars, ensureVars, copyVars
  <2>2. \A m \in Metric : dropped'[m] = "no" => dropped[m] = "no"
    <3>1. \/ dropped' = dropped
          \/ dropped' = [dropped EXCEPT ![copying] = "noticed"] /\ dropped[copying] # "no"
      BY <1>13 DEF BeginCopy, StreamRow, StreamEnd, CopySucceeds, PartitionMissing, CopyRefused,
                   ConnectionLost, copyVars
    <3> QED
      BY <1>1, <3>1
  <2>3. Recent'
    BY <2>1 DEF Recent
  <2>4. Anchored' /\ PartitionsReady'
    BY <1>2, <2>1, <2>2 DEF Anchored, Expired, PartitionsReady
  <2> QED
    BY <2>1, <2>3, <2>4 DEF Ensured
<1>14. CASE UNCHANGED vars
  <2>1. UNCHANGED <<today, parts, cache, pc, todo, half, ensured, partitionMap, jumped, dropped>>
    BY <1>14 DEF vars, envVars, ensureVars, copyVars
  <2>2. Recent'
    BY <2>1 DEF Recent
  <2>3. Ensured' /\ PartitionsReady'
    BY <1>2, <2>1, <2>2 DEF Ensured, BatchReady, StartReady, PartitionsReady
  <2> QED
    BY <1>6, <2>1, <2>2, <2>3
<1> QED
  BY <1>3, <1>4, <1>5, <1>7, <1>8, <1>9, <1>10, <1>11, <1>12, <1>13, <1>14 DEF Next, Poll, Flush

\* PartitionsReady for every batch, cache and retention: what the partition cache
\* lets EnsureMetricTimePartsExist skip is there, for the end of a batch always and
\* for its start unless the batch jumped past the partition in the cache, and
\* unless an operator dropped partitions by hand.
THEOREM PartitionsAreReady == Spec => []PartitionsReady
<1>1. Init => PInv
  BY DEF Init, PInv, Recent, Anchored, Ensured, PartitionsReady
<1>2. CInv /\ PInv /\ [Next]_vars => PInv'
  BY PartitionsKept
<1>3. PInv => PartitionsReady
  BY DEF PInv
<1> QED
  BY <1>1, <1>2, <1>3, Invariance, PTL DEF Spec
=============================================================================
