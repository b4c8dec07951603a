---------------------------- MODULE SinksProofs ----------------------------
(***************************************************************************)
(* What the MultiWriter promises its callers and the Prometheus writer its *)
(* scrapes, for any sinks in any order, any number of scrapes at once and  *)
(* whatever is written, purged and dropped between their steps; and what   *)
(* the installation and the migrations of the PostgreSQL sink's database   *)
(* promise its operator.                                                   *)
(***************************************************************************)
EXTENDS Sinks, MeasurementsDatabase, FiniteSetTheorems, SequenceTheorems, TLAPS

\* A call under way has asked the writers before the next one, each of them
\* took it or failed, and the error is kept exactly if one failed.
CallsWalkTheList ==
  \A t \in Thread : call[t] # None =>
    /\ call[t].took \cup call[t].failed = {Writers[i] : i \in 1..call[t].next - 1}
    /\ call[t].err = (call[t].failed # {})

\* Only WriteMeasurements writes, and what it writes is the last envelope it
\* was sent.
OneWrites ==
  /\ call["write"] # None =>
       /\ call["write"].op = "Write"
       /\ call["write"].epoch = sent[<<call["write"].db, call["write"].metric>>]
  /\ call["main"] # None => call["main"].op # "Write"

\* a is not later than b, where both are.
NotAfter(a, b) == a # None /\ b # None => a <= b

\* Nothing is later than the last envelope sent, and what is in the cache is not
\* older than what was shown or is in the snapshot of a scrape.
CacheIsLatest ==
  \A k \in Key :
    /\ NotAfter(Cache[k], sent[k]) /\ NotAfter(shown[k], sent[k])
    /\ NotAfter(shown[k], Cache[k])
    /\ \A s \in Scraper : scrape[s] # None =>
         NotAfter(scrape[s].snapshot[k], sent[k]) /\ NotAfter(scrape[s].snapshot[k], Cache[k])

\* A scrape shows what it has in its snapshot, which was taken later than what
\* scrapes had shown before it.
SnapshotsShown ==
  \A s \in Scraper : scrape[s] # None =>
    \A k \in Key : /\ scrape[s].out[k] \in {None, scrape[s].snapshot[k]}
                   /\ NotAfter(scrape[s].floor[k], scrape[s].snapshot[k])
                   /\ k \in scrape[s].todo => scrape[s].snapshot[k] # None

\* The inductive invariant.
IInv == TypeOK /\ CallsWalkTheList /\ OneWrites /\ CacheIsLatest /\ SnapshotsShown

\* The identities of an envelope are not more than its rows' values.
LEMMA DuplicatesType == \A m \in Metric : Duplicates(m) \in Nat
<1> SUFFICES ASSUME NEW m \in Metric PROVE Duplicates(m) \in Nat  OBVIOUS
<1> DEFINE q == Series[m]
<1>1. q \in Seq(Range(q))  BY SinksAssumption
<1>2. Len(q) \in Nat /\ DOMAIN q = 1..Len(q) /\ q \in [1..Len(q) -> Range(q)]
  BY <1>1, LenProperties
<1>3. q \in Surjection(1..Len(q), Range(q))  BY <1>2 DEF Surjection, Range
<1>4. IsFiniteSet(1..Len(q)) /\ Cardinality(1..Len(q)) = Len(q)  BY <1>2, FS_Interval
<1>5. IsFiniteSet(Range(q)) /\ Cardinality(Range(q)) <= Len(q)  BY <1>3, <1>4, FS_Surjection
<1>6. Cardinality(Range(q)) \in Nat  BY <1>5, FS_CardinalityType
<1> QED  BY <1>2, <1>5, <1>6 DEF Duplicates

\* The list of sinks.
LEMMA WritersType ==
  /\ Len(Writers) \in Nat /\ DOMAIN Writers = 1..Len(Writers)
  /\ Range(Writers) = {Writers[i] : i \in 1..Len(Writers)}
BY SinksAssumption, LenProperties DEF Range

LEMMA InitIInv == Init => IInv
<1> SUFFICES ASSUME Init PROVE IInv  OBVIOUS
<1> USE SinksAssumption DEF Init, Nothing
<1>1. Nothing \in Snapshot /\ sent \in [Key -> Epoch]  BY DEF Snapshot, Epoch
<1>2. TypeOK
  <2>1. /\ now \in Epoch /\ configured \subseteq Db /\ Cache \in Snapshot /\ hosts \subseteq Db
        /\ gauges \in Nat /\ \A k \in Key : Cache[k] # None => k[1] \in hosts
    BY <1>1 DEF Epoch
  <2>2. stopped \in BOOLEAN  OBVIOUS
  <2>3. /\ call \in [Thread -> Call \cup {None}] /\ calls \in [Thread -> 0..MaxCalls]
        /\ scrape \in [Scraper -> [todo: SUBSET Key, snapshot: Snapshot, out: Snapshot,
                             floor: Snapshot, errors: Nat] \cup {None}]
        /\ shown \in Snapshot
    BY <1>1
  <2> QED  BY <1>1, <2>1, <2>2, <2>3 DEF TypeOK
<1>3. CallsWalkTheList /\ OneWrites  BY DEF CallsWalkTheList, OneWrites, Thread
<1>4. CacheIsLatest /\ SnapshotsShown  BY DEF CacheIsLatest, SnapshotsShown, NotAfter
<1> QED  BY <1>2, <1>3, <1>4 DEF IInv

-----------------------------------------------------------------------------
(* The MultiWriter.                                                        *)

\* What a writer does to the cache: nothing, or it stores the last envelope
\* sent, or it forgets.
LEMMA WritersAndCache ==
  ASSUME IInv, NEW t \in Thread, AskWriter(t)
  PROVE  /\ Cache' \in Snapshot /\ hosts' \subseteq Db /\ gauges' \in Nat
         /\ \A k \in Key : Cache'[k] # None => k[1] \in hosts'
         /\ \A k \in Key : Cache'[k] \in {Cache[k], sent[k], None}
<1> DEFINE c == call[t]
<1>1. c \in Call /\ c # None  BY DEF AskWriter, IInv, TypeOK
<1>2. /\ Cache \in [Key -> Epoch \cup {None}] /\ hosts \subseteq Db /\ gauges \in Nat
      /\ \A k \in Key : Cache[k] # None => k[1] \in hosts
  BY DEF IInv, TypeOK, Snapshot
<1>3. c.db \in Db /\ <<c.db, c.metric>> \in Key /\ c.epoch \in Epoch  BY <1>1 DEF Call, Key
<1>4. CASE UNCHANGED promVars  BY <1>2, <1>4 DEF promVars, Snapshot
<1>5. CASE c.op = "Write" /\ PromWrite(c) /\ ~UNCHANGED promVars
  <2>1. t = "write"  BY <1>1, <1>5 DEF IInv, OneWrites, Thread
  <2>2. c.epoch = sent[<<c.db, c.metric>>]  BY <1>1, <2>1 DEF IInv, OneWrites
  <2>3. /\ Cache' = [Cache EXCEPT ![<<c.db, c.metric>>] = c.epoch]
        /\ hosts' = hosts \cup {c.db} /\ gauges' = gauges
    BY <1>5 DEF PromWrite
  <2>4. \A k \in Key : Cache'[k] = IF k = <<c.db, c.metric>> THEN c.epoch ELSE Cache[k]
    BY <1>2, <2>3
  <2> QED  BY <1>2, <1>3, <2>2, <2>3, <2>4 DEF Snapshot
<1>6. CASE PromDefine  BY <1>2, <1>6 DEF PromDefine, Snapshot
<1>7. CASE PromSync(c)
  <2>1. CASE c.op = "DeleteOp"
    <3>1. /\ Cache' = [k \in Key |-> IF k[1] = c.db THEN None ELSE Cache[k]]
          /\ hosts' = hosts \ {c.db} /\ gauges' = gauges
      BY <1>7, <2>1 DEF PromSync
    <3> QED  BY <1>2, <3>1 DEF Snapshot
  <2>2. CASE c.op # "DeleteOp"
    BY <1>2, <1>3, <1>7, <2>2 DEF PromSync, Snapshot
  <2> QED  BY <2>1, <2>2
<1> QED  BY <1>4, <1>5, <1>6, <1>7 DEF AskWriter

\* Asking one writer extends the walk by it.
LEMMA WalkGoesOn ==
  ASSUME IInv, NEW t \in Thread, AskWriter(t)
  PROVE  /\ call' \in [Thread -> Call \cup {None}]
         /\ CallsWalkTheList' /\ OneWrites'
<1> DEFINE c == call[t]
<1> DEFINE w == Writers[c.next]
<1>1. c \in Call /\ c # None /\ call \in [Thread -> Call \cup {None}]  BY DEF AskWriter, IInv, TypeOK
<1>2. c.next \in 1..Len(Writers)  BY <1>1, WritersType DEF AskWriter, Call
<1>3. w \in Range(Writers)  BY <1>2, WritersType
<1>4. PICK ok \in BOOLEAN : call' = [call EXCEPT ![t] = Joined(c, w, ok)]
  BY DEF AskWriter, Answers
<1> DEFINE d == Joined(c, w, ok)
<1>5. /\ d.next = c.next + 1 /\ d.took = (IF ok THEN c.took \cup {w} ELSE c.took)
      /\ d.failed = (IF ok THEN c.failed ELSE c.failed \cup {w}) /\ d.err = (c.err \/ ~ok)
      /\ d.op = c.op /\ d.db = c.db /\ d.metric = c.metric /\ d.epoch = c.epoch
  BY <1>1 DEF Joined, Call
<1>6. d \in Call
  <2>1. \A x \in Call, n \in 1..Len(Writers) + 1, T, F \in SUBSET Range(Writers), e \in BOOLEAN :
          [x EXCEPT !.next = n, !.took = T, !.failed = F, !.err = e] \in Call
    BY DEF Call
  <2>2. c.next + 1 \in 1..Len(Writers) + 1  BY <1>2, WritersType
  <2>3. /\ (IF ok THEN c.took \cup {w} ELSE c.took) \in SUBSET Range(Writers)
        /\ (IF ok THEN c.failed ELSE c.failed \cup {w}) \in SUBSET Range(Writers)
    BY <1>1, <1>3 DEF Call
  <2>4. (c.err \/ ~ok) \in BOOLEAN  OBVIOUS
  <2> QED  BY <1>1, <2>1, <2>2, <2>3, <2>4 DEF Joined
<1> HIDE DEF d
<1>7. call' = [call EXCEPT ![t] = d]  BY <1>4 DEF d
<1>8. /\ c.took \cup c.failed = {Writers[i] : i \in 1..c.next - 1} /\ c.err = (c.failed # {})
  BY <1>1 DEF IInv, CallsWalkTheList
<1>9. d.took \cup d.failed = {Writers[i] : i \in 1..d.next - 1}
  <2>1. 1..d.next - 1 = 1..c.next - 1 \cup {c.next}  BY <1>2, <1>5, WritersType
  <2> QED  BY <1>5, <1>8, <2>1
<1>10. d.err = (d.failed # {})  BY <1>5, <1>8
<1>11. CallsWalkTheList'
  BY <1>1, <1>7, <1>9, <1>10 DEF IInv, CallsWalkTheList
<1>12. OneWrites'
  BY <1>1, <1>5, <1>7 DEF IInv, OneWrites, Thread, AskWriter
<1> QED  BY <1>1, <1>6, <1>7, <1>11, <1>12

\* A call begins at the first writer; only the writing thread begins a Write,
\* of an envelope that is the last one sent.
LEMMA CallBegins ==
  ASSUME IInv, NEW t \in Thread,
         NEW op \in {"Write", "AddOp", "DeleteOp", "DefineMetrics"}, NEW db \in Db, NEW m \in Metric,
         NEW e \in Epoch, NEW r \in BOOLEAN, Begin(t, NewCall(op, db, m, e, r)),
         configured' \subseteq Db, sent' \in [Key -> Epoch],
         \A k \in Key : sent[k] <= sent'[k],
         t = "write" => op = "Write" /\ sent'[<<db, m>>] = e,
         t = "main" => op # "Write" /\ sent' = sent
  PROVE  IInv'
<1> DEFINE c == NewCall(op, db, m, e, r)
<1>1. /\ call' = [call EXCEPT ![t] = c] /\ calls' = [calls EXCEPT ![t] = @ + 1]
      /\ calls[t] < MaxCalls /\ UNCHANGED <<now, stopped, promVars, scrape, shown>>
  BY DEF Begin
<1>2. TypeOK  BY DEF IInv
<1>3. c.next = 1 /\ c.took = {} /\ c.failed = {} /\ c.err = FALSE /\ c.op = op
      /\ c.db = db /\ c.metric = m /\ c.epoch = e
  BY DEF NewCall
<1>4. c \in Call
  <2>1. 1 \in 1..Len(Writers) + 1  BY WritersType
  <2>2. FALSE \in BOOLEAN  OBVIOUS
  <2> QED  BY <2>1, <2>2 DEF NewCall, Call
<1> HIDE DEF c
<1>5. calls' \in [Thread -> 0..MaxCalls]
  BY <1>1, <1>2, SinksAssumption DEF TypeOK
<1>6. call' \in [Thread -> Call \cup {None}]  BY <1>1, <1>2, <1>4 DEF TypeOK
<1>7. TypeOK'  BY <1>1, <1>2, <1>5, <1>6 DEF TypeOK, promVars
<1>8. CallsWalkTheList'
  <2>1. c.took \cup c.failed = {Writers[i] : i \in 1..c.next - 1} /\ c.err = (c.failed # {})
    <3>1. 1..c.next - 1 = {}  BY <1>3
    <3> QED  BY <1>3, <3>1
  <2> QED  BY <1>1, <1>2, <2>1 DEF IInv, CallsWalkTheList, TypeOK
<1>9. OneWrites'
  BY <1>1, <1>2, <1>3 DEF IInv, OneWrites, Thread, TypeOK
<1>10. CacheIsLatest'
  <2>1. \A k \in Key, a \in Epoch \cup {None} : NotAfter(a, sent[k]) => NotAfter(a, sent'[k])
    BY <1>2, SinksAssumption DEF NotAfter, Epoch, TypeOK
  <2> QED  BY <1>1, <1>2, <2>1 DEF IInv, CacheIsLatest, TypeOK, promVars, Snapshot
<1>11. SnapshotsShown'  BY <1>1 DEF IInv, SnapshotsShown
<1> QED  BY <1>7, <1>8, <1>9, <1>10, <1>11 DEF IInv

-----------------------------------------------------------------------------
(* The scrapes.                                                            *)

\* A Collect under way.
ScrapeRec == [todo: SUBSET Key, snapshot: Snapshot, out: Snapshot, floor: Snapshot, errors: Nat]

\* A scrape begins with the cache as its snapshot and what was shown as its
\* floor.
LEMMA CollectKeeps == ASSUME IInv, NEW s \in Scraper, Collect(s) PROVE IInv'
<1> DEFINE r == [todo |-> {k \in Key : Cache[k] # None}, snapshot |-> Cache,
                 out |-> Nothing, floor |-> shown, errors |-> 0]
<1>1. TypeOK  BY DEF IInv
<1>2. /\ scrape' = [scrape EXCEPT ![s] = r]
      /\ UNCHANGED <<now, stopped, Cache, hosts, gauges, call, calls, sent, configured, shown>>
  BY DEF Collect, promVars, callVars
<1>3. r \in ScrapeRec  BY <1>1 DEF ScrapeRec, TypeOK, Snapshot, Nothing
<1>4. /\ r.snapshot = Cache /\ r.floor = shown /\ r.todo = {k \in Key : Cache[k] # None}
      /\ \A k \in Key : r.out[k] = None
  BY DEF Nothing
<1> HIDE DEF r
<1>5. scrape \in [Scraper -> ScrapeRec \cup {None}]  BY <1>1 DEF TypeOK, ScrapeRec
<1>6. /\ scrape' \in [Scraper -> ScrapeRec \cup {None}] /\ scrape'[s] = r
      /\ \A q \in Scraper \ {s} : scrape'[q] = scrape[q]
  BY <1>2, <1>3, <1>5
<1>7. TypeOK'  BY <1>1, <1>2, <1>6 DEF TypeOK, ScrapeRec
<1>8. CallsWalkTheList' /\ OneWrites'  BY <1>2 DEF IInv, CallsWalkTheList, OneWrites
<1>9. CacheIsLatest'
  <2>1. \A k \in Key : NotAfter(Cache[k], Cache[k])
    BY <1>1, SinksAssumption DEF NotAfter, TypeOK, Snapshot, Epoch
  <2> QED  BY <1>2, <1>4, <1>6, <2>1 DEF IInv, CacheIsLatest
<1>10. SnapshotsShown'
  BY <1>2, <1>4, <1>6 DEF IInv, SnapshotsShown, CacheIsLatest
<1> QED  BY <1>7, <1>8, <1>9, <1>10 DEF IInv

\* An envelope is emitted as the snapshot has it.
LEMMA EmitKeeps ==
  ASSUME IInv, NEW s \in Scraper, NEW k \in Key, WritePromMetrics(s, k) PROVE IInv'
<1> DEFINE o == scrape[s]
<1> DEFINE r == [o EXCEPT !.todo = @ \ {k}, !.out = [@ EXCEPT ![k] = o.snapshot[k]],
                          !.errors = @ + Duplicates(k[2])]
<1>1. TypeOK  BY DEF IInv
<1>2. scrape \in [Scraper -> ScrapeRec \cup {None}]  BY <1>1 DEF TypeOK, ScrapeRec
<1>3. o # None /\ o \in ScrapeRec  BY <1>2 DEF WritePromMetrics
<1>4. /\ scrape' = [scrape EXCEPT ![s] = r]
      /\ UNCHANGED <<now, stopped, Cache, hosts, gauges, call, calls, sent, configured, shown>>
  BY <1>2 DEF WritePromMetrics, promVars, callVars
<1>5. Duplicates(k[2]) \in Nat  BY DuplicatesType DEF Key
<1>6. /\ r \in ScrapeRec /\ r.snapshot = o.snapshot /\ r.floor = o.floor
      /\ r.todo = o.todo \ {k} /\ r.out = [o.out EXCEPT ![k] = o.snapshot[k]]
  <2>1. /\ [o.out EXCEPT ![k] = o.snapshot[k]] \in Snapshot
        /\ o.errors + Duplicates(k[2]) \in Nat /\ o.todo \ {k} \in SUBSET Key
    BY <1>3, <1>5 DEF ScrapeRec, Snapshot
  <2>2. \A x \in ScrapeRec, T \in SUBSET Key, S \in Snapshot, n \in Nat :
          [x EXCEPT !.todo = T, !.out = S, !.errors = n] \in ScrapeRec
    BY DEF ScrapeRec
  <2>3. r \in ScrapeRec  BY <1>3, <2>1, <2>2
  <2> QED  BY <1>3, <2>3 DEF ScrapeRec
<1> HIDE DEF r
<1>7. /\ scrape' \in [Scraper -> ScrapeRec \cup {None}] /\ scrape'[s] = r
      /\ \A q \in Scraper \ {s} : scrape'[q] = scrape[q]
  BY <1>2, <1>4, <1>6
<1>8. TypeOK'  BY <1>1, <1>4, <1>7 DEF TypeOK, ScrapeRec
<1>9. CallsWalkTheList' /\ OneWrites'  BY <1>4 DEF IInv, CallsWalkTheList, OneWrites
<1>10. CacheIsLatest'  BY <1>3, <1>4, <1>6, <1>7 DEF IInv, CacheIsLatest
<1>11. SnapshotsShown'
  <2>1. ASSUME NEW j \in Key
        PROVE  /\ r.out[j] \in {None, r.snapshot[j]} /\ NotAfter(r.floor[j], r.snapshot[j])
               /\ j \in r.todo => r.snapshot[j] # None
    BY <1>3, <1>6 DEF IInv, SnapshotsShown, ScrapeRec, Snapshot
  <2> QED  BY <1>7, <2>1 DEF IInv, SnapshotsShown
<1> QED  BY <1>8, <1>9, <1>10, <1>11 DEF IInv

\* A stale envelope goes from the cache, whatever is there by now.
LEMMA DropKeeps ==
  ASSUME IInv, NEW s \in Scraper, NEW k \in Key, DropStale(s, k) PROVE IInv'
<1> DEFINE o == scrape[s]
<1> DEFINE r == [o EXCEPT !.todo = @ \ {k}]
<1>1. TypeOK  BY DEF IInv
<1>2. scrape \in [Scraper -> ScrapeRec \cup {None}]  BY <1>1 DEF TypeOK, ScrapeRec
<1>3. o # None /\ o \in ScrapeRec  BY <1>2 DEF DropStale
<1>4. /\ scrape' = [scrape EXCEPT ![s] = r] /\ Cache' = [Cache EXCEPT ![k] = None]
      /\ UNCHANGED <<now, stopped, hosts, gauges, call, calls, sent, configured, shown>>
  BY <1>2 DEF DropStale, callVars
<1>5. /\ r \in ScrapeRec /\ r.snapshot = o.snapshot /\ r.floor = o.floor
      /\ r.todo = o.todo \ {k} /\ r.out = o.out
  BY <1>3 DEF ScrapeRec
<1> HIDE DEF r
<1>6. /\ scrape' \in [Scraper -> ScrapeRec \cup {None}] /\ scrape'[s] = r
      /\ \A q \in Scraper \ {s} : scrape'[q] = scrape[q]
  BY <1>2, <1>4, <1>5
<1>7. Cache' \in Snapshot /\ \A j \in Key : Cache'[j] \in {Cache[j], None}
  BY <1>1, <1>4 DEF TypeOK, Snapshot
<1>8. TypeOK'  BY <1>1, <1>4, <1>6, <1>7 DEF TypeOK, ScrapeRec
<1>9. CallsWalkTheList' /\ OneWrites'  BY <1>4 DEF IInv, CallsWalkTheList, OneWrites
<1>10. CacheIsLatest'
  BY <1>3, <1>4, <1>5, <1>6, <1>7 DEF IInv, CacheIsLatest, NotAfter
<1>11. SnapshotsShown'  BY <1>3, <1>5, <1>6 DEF IInv, SnapshotsShown
<1> QED  BY <1>8, <1>9, <1>10, <1>11 DEF IInv

\* What a scrape has shown when it ends is not later than the cache.
LEMMA EndKeeps == ASSUME IInv, NEW s \in Scraper, CollectEnds(s) PROVE IInv'
<1> DEFINE o == scrape[s]
<1>1. TypeOK  BY DEF IInv
<1>2. scrape \in [Scraper -> ScrapeRec \cup {None}]  BY <1>1 DEF TypeOK, ScrapeRec
<1>3. o # None /\ o \in ScrapeRec  BY <1>2 DEF CollectEnds
<1>4. /\ scrape' = [scrape EXCEPT ![s] = None]
      /\ UNCHANGED <<now, stopped, Cache, hosts, gauges, call, calls, sent, configured>>
  BY DEF CollectEnds, promVars, callVars
<1>5. shown' = [k \in Key |-> IF o.out[k] = None THEN shown[k]
                              ELSE IF shown[k] # None /\ shown[k] > o.out[k] THEN shown[k]
                              ELSE o.out[k]]
  BY DEF CollectEnds
<1>6. /\ scrape' \in [Scraper -> ScrapeRec \cup {None}] /\ scrape'[s] = None
      /\ \A q \in Scraper \ {s} : scrape'[q] = scrape[q]
  BY <1>2, <1>4
<1>7. shown' \in Snapshot /\ \A k \in Key : shown'[k] \in {shown[k], o.snapshot[k]}
  BY <1>1, <1>3, <1>5 DEF TypeOK, ScrapeRec, Snapshot, IInv, SnapshotsShown
<1>8. TypeOK'  BY <1>1, <1>4, <1>6, <1>7 DEF TypeOK, ScrapeRec
<1>9. CallsWalkTheList' /\ OneWrites'  BY <1>4 DEF IInv, CallsWalkTheList, OneWrites
<1>10. CacheIsLatest'
  BY <1>3, <1>4, <1>6, <1>7 DEF IInv, CacheIsLatest
<1>11. SnapshotsShown'  BY <1>6 DEF IInv, SnapshotsShown
<1> QED  BY <1>8, <1>9, <1>10, <1>11 DEF IInv

-----------------------------------------------------------------------------
(* The theorems.                                                           *)

\* Every step of the two callers, of every writer and of every scrape keeps the
\* invariant.
LEMMA StepIInv == IInv /\ [Next]_vars => IInv'
<1> SUFFICES ASSUME IInv, [Next]_vars PROVE IInv'  OBVIOUS
<1>1. TypeOK  BY DEF IInv
<1>2. ASSUME UNCHANGED <<Cache, call, sent, scrape, shown>>
      PROVE  CallsWalkTheList' /\ OneWrites' /\ CacheIsLatest' /\ SnapshotsShown'
  BY <1>2 DEF IInv, CallsWalkTheList, OneWrites, CacheIsLatest, SnapshotsShown
<1>3. CASE Tick
  <2>1. now' \in Epoch  BY <1>1, <1>3, SinksAssumption DEF Tick, TypeOK, Epoch
  <2>2. TypeOK'  BY <1>1, <1>3, <2>1 DEF Tick, TypeOK, promVars, callVars
  <2> QED  BY <1>2, <1>3, <2>2 DEF Tick, promVars, callVars, IInv
<1>4. CASE Shutdown
  <2>1. TypeOK'  BY <1>1, <1>4 DEF Shutdown, TypeOK, promVars, callVars
  <2> QED  BY <1>2, <1>4, <2>1 DEF Shutdown, promVars, callVars, IInv
<1>5. ASSUME NEW db \in Db, NEW m \in Metric, NEW e \in Epoch, NEW r \in BOOLEAN, BeginWrite(db, m, e, r)
      PROVE  IInv'
  <2>1. /\ e >= sent[<<db, m>>] /\ Begin("write", NewCall("Write", db, m, e, r))
        /\ sent' = [sent EXCEPT ![<<db, m>>] = e] /\ configured' = configured
    BY <1>5 DEF BeginWrite
  <2>2. <<db, m>> \in Key /\ configured \subseteq Db /\ sent \in [Key -> Epoch]
    BY <1>1 DEF Key, TypeOK
  <2>3. /\ sent' \in [Key -> Epoch] /\ sent'[<<db, m>>] = e
        /\ \A k \in Key : sent[k] <= sent'[k]
    <3>1. sent' \in [Key -> Epoch] /\ sent'[<<db, m>>] = e  BY <2>1, <2>2
    <3>2. \A k \in Key : k # <<db, m>> => sent'[k] = sent[k]  BY <2>1, <2>2
    <3>3. \A k \in Key : sent[k] \in Nat  BY <2>2, SinksAssumption DEF Epoch
    <3>4. e >= sent[<<db, m>>]  BY <2>1
    <3>5. ASSUME NEW k \in Key PROVE sent[k] <= sent'[k]
      <4>1. CASE k = <<db, m>>  BY <2>2, <3>1, <3>3, <3>4, <4>1, SinksAssumption DEF Epoch
      <4>2. CASE k # <<db, m>>  BY <3>2, <3>3, <4>2
      <4> QED  BY <4>1, <4>2
    <3> QED  BY <3>1, <3>5
  <2> QED  BY <2>1, <2>2, <2>3, CallBegins DEF Thread
<1>6. ASSUME NEW db \in Db, NEW op \in {"AddOp", "DeleteOp"}, BeginSync(db, op) PROVE IInv'
  <2>1. PICK m \in Metric : Begin("main", NewCall(op, db, m, 0, TRUE))  BY <1>6 DEF BeginSync
  <2>2. configured' \subseteq Db /\ sent' = sent  BY <1>1, <1>6 DEF BeginSync, TypeOK
  <2>3. /\ sent \in [Key -> Epoch] /\ 0 \in Epoch /\ TRUE \in BOOLEAN
        /\ \A k \in Key : sent[k] <= sent[k]
    BY <1>1, SinksAssumption DEF TypeOK, Epoch
  <2> QED  BY <2>1, <2>2, <2>3, CallBegins DEF Thread
<1>7. CASE BeginDefine
  <2>1. PICK db \in Db, m \in Metric : Begin("main", NewCall("DefineMetrics", db, m, 0, TRUE))
    BY <1>7 DEF BeginDefine
  <2>2. configured' \subseteq Db /\ sent' = sent  BY <1>1, <1>7 DEF BeginDefine, TypeOK
  <2>3. /\ sent \in [Key -> Epoch] /\ 0 \in Epoch /\ TRUE \in BOOLEAN
        /\ \A k \in Key : sent[k] <= sent[k]
    BY <1>1, SinksAssumption DEF TypeOK, Epoch
  <2> QED  BY <2>1, <2>2, <2>3, CallBegins DEF Thread
<1>8. ASSUME NEW t \in Thread, AskWriter(t) PROVE IInv'
  <2>1. UNCHANGED <<now, stopped, calls, sent, configured, scrape, shown>>  BY <1>8 DEF AskWriter
  <2>2. /\ Cache' \in Snapshot /\ hosts' \subseteq Db /\ gauges' \in Nat
        /\ \A k \in Key : Cache'[k] # None => k[1] \in hosts'
        /\ \A k \in Key : Cache'[k] \in {Cache[k], sent[k], None}
    BY <1>8, WritersAndCache
  <2>3. call' \in [Thread -> Call \cup {None}] /\ CallsWalkTheList' /\ OneWrites'
    BY <1>8, WalkGoesOn
  <2>4. TypeOK'  BY <1>1, <2>1, <2>2, <2>3 DEF TypeOK
  <2>5. CacheIsLatest'
    <3>1. \A k \in Key : NotAfter(sent[k], sent[k])
      BY <1>1, SinksAssumption DEF NotAfter, TypeOK, Epoch
    <3>2. \A a : NotAfter(a, None) /\ NotAfter(None, a)  BY DEF NotAfter
    <3> QED  BY <2>1, <2>2, <3>1, <3>2 DEF IInv, CacheIsLatest
  <2>6. SnapshotsShown'  BY <2>1 DEF IInv, SnapshotsShown
  <2> QED  BY <2>3, <2>4, <2>5, <2>6 DEF IInv
<1>9. ASSUME NEW t \in Thread, Return(t) PROVE IInv'
  <2>1. /\ call' = [call EXCEPT ![t] = None]
        /\ UNCHANGED <<now, stopped, promVars, calls, sent, configured, scrape, shown>>
    BY <1>9 DEF Return
  <2>2. TypeOK'  BY <1>1, <2>1 DEF TypeOK, promVars
  <2>3. CallsWalkTheList' /\ OneWrites'
    BY <1>1, <2>1 DEF IInv, CallsWalkTheList, OneWrites, TypeOK, Thread
  <2>4. CacheIsLatest' /\ SnapshotsShown'
    BY <2>1 DEF IInv, CacheIsLatest, SnapshotsShown, promVars
  <2> QED  BY <2>2, <2>3, <2>4 DEF IInv
<1>10. ASSUME NEW s \in Scraper, Collect(s) \/ ScrapeStep(s) PROVE IInv'
  BY <1>10, CollectKeeps, EmitKeeps, DropKeeps, EndKeeps DEF ScrapeStep
<1>11. CASE UNCHANGED vars
  <2>1. TypeOK'  BY <1>1, <1>11 DEF vars, promVars, callVars, TypeOK
  <2> QED  BY <1>2, <1>11, <2>1 DEF vars, promVars, callVars, IInv
<1> QED  BY <1>3, <1>4, <1>5, <1>6, <1>7, <1>8, <1>9, <1>10, <1>11 DEF Next

\* All parts of the invariant hold in every state: the types among them, with
\* an entry in the cache only for a source the writer has a map for.
THEOREM Invariance == Spec => []IInv
<1> QED  BY InitIInv, StepIInv, PTL DEF Spec

\* Whatever sinks are configured, in whatever order, and whichever of them
\* fail: a call of the MultiWriter that returns has asked every one of them and
\* returns an error exactly if one failed.
THEOREM EveryWriterIsAsked == Spec => []FailureStaysLocal
<1>1. IInv => FailureStaysLocal
  <2> SUFFICES ASSUME IInv, NEW t \in Thread, call[t] # None, call[t].next > Len(Writers)
               PROVE  /\ call[t].took \cup call[t].failed = Range(Writers)
                      /\ call[t].err = (call[t].failed # {})
    BY DEF FailureStaysLocal
  <2>1. call[t].next \in 1..Len(Writers) + 1  BY DEF IInv, TypeOK, Call
  <2>2. 1..call[t].next - 1 = 1..Len(Writers)  BY <2>1, WritersType
  <2> QED  BY <2>2, WritersType DEF IInv, CallsWalkTheList
<1> QED  BY <1>1, Invariance, PTL

\* However scrapes overlap with each other, with writes, with purges and with
\* the dropping of stale entries: a scrape shows no older value of a metric than
\* a scrape that had ended before it began.
THEOREM NoScrapeGoesBack == Spec => []ScrapesGoForward
<1>1. IInv => ScrapesGoForward
  <2> SUFFICES ASSUME IInv, NEW s \in Scraper, scrape[s] # None, NEW k \in Key,
                      scrape[s].out[k] # None, scrape[s].floor[k] # None
               PROVE  scrape[s].out[k] >= scrape[s].floor[k]
    BY DEF ScrapesGoForward
  <2>1. scrape[s].out[k] \in Nat /\ scrape[s].floor[k] \in Nat
    BY SinksAssumption DEF IInv, TypeOK, Snapshot, Epoch
  <2>2. scrape[s].floor[k] <= scrape[s].out[k]  BY DEF IInv, SnapshotsShown, NotAfter
  <2> QED  BY <2>1, <2>2
<1> QED  BY <1>1, Invariance, PTL

-----------------------------------------------------------------------------
(* The upgrade of the measurements database, for any metric tables and     *)
(* partitions and however often the command dies.                          *)

Migration == INSTANCE SinkMigration

\* The steps of 01409 between its begin and its entry in the list.
InRepartition == pc \in {"list", "next", "rename", "subpartitions", "move", "drop"}

\* Where the rows of a leaf are is told by whether its partition still exists,
\* and DropRenamed drops a table only when nothing is left below it.
PartsHoldRows ==
  /\ \A t \in Table, l \in Leaf : place[t][l] = IF l \in parts[t] THEN {"old"} ELSE {"new"}
  /\ pc = "move" => parts[table] \subseteq moving
  /\ pc = "drop" => parts[table] = {}

\* A table that 01409 has behind it in this attempt is partitioned by time, and
\* TimescaleDB's are left alone; a schema still being installed finds none of
\* the old layout.
TablesDone ==
  /\ timescale => ~InRepartition /\ \A t \in Table : own[t] = "hyper"
  /\ installed = 0 \/ pc = "install" => ~timescale /\ \A t \in Table : own[t] = "range"
  /\ pc \in {"next", "subpartitions", "move", "drop"} => \A t \in Table \ todo : own[t] = "range"
  /\ pc = "rename" => table # NoTable /\ \A t \in Table \ (todo \cup {table}) : own[t] = "range"
  /\ pc = "record" => \A t \in Table : own[t] = IF timescale THEN "hyper" ELSE "range"

\* As long as no attempt was cut off, an old table exists only while its rows
\* are moved, and a table of the new layout has nothing left to move.
NothingLeftBehind ==
  /\ InRepartition \/ pc = "record" => applied = Repartition - 1
  /\ aborts = 0 =>
       /\ renamed \subseteq IF pc \in {"subpartitions", "move", "drop"} THEN {table} ELSE {}
       /\ \A t \in Table : own[t] # "list" /\ t \notin renamed => parts[t] = {}

\* The inductive invariant.
MInv ==
  /\ Migration!TypeOK /\ PartsHoldRows /\ TablesDone /\ NothingLeftBehind
  /\ UpToDateMeansPartitioned

\* A new database and one of every older version satisfy it.
LEMMA InitMInv == Migration!Init => MInv
<1> SUFFICES ASSUME Migration!Init PROVE MInv  OBVIOUS
<1> USE MigrationAssumption DEF Migration!Init,
            Statements, Migrations, Repartition, Part, Migration!Statements, Migration!Migrations,
            Migration!Repartition, Migration!Part
<1>1. Migration!TypeOK
  <2>1. own \in [Table -> {"list", "range", "hyper"}]  OBVIOUS
  <2>2. place \in [Table -> [Leaf -> SUBSET {"old", "new"}]]  OBVIOUS
  <2>3. parts \in [Table -> SUBSET Part]  OBVIOUS
  <2>4. timescale \in BOOLEAN  BY Zenon
  <2>5. installed \in 0..Statements /\ applied \in 0..Migrations  OBVIOUS
  <2> QED  BY <2>1, <2>2, <2>3, <2>4, <2>5 DEF Migration!TypeOK
<1>2. PartsHoldRows  BY DEF PartsHoldRows
<1>3. TablesDone  BY DEF TablesDone, InRepartition
<1>4. UpToDateMeansPartitioned  BY DEF UpToDateMeansPartitioned
<1>5. NothingLeftBehind  BY DEF NothingLeftBehind, InRepartition
<1> QED  BY <1>1, <1>2, <1>3, <1>4, <1>5 DEF MInv

\* Every statement of the command, and a crash after any of them, keeps it.
LEMMA StepMInv ==
  MInv /\ [Migration!Next]_(Migration!vars) => MInv'
<1> SUFFICES ASSUME MInv, [Migration!Next]_(Migration!vars) PROVE MInv'  OBVIOUS
<1> USE MigrationAssumption DEF MInv, Migration!TypeOK, PartsHoldRows, TablesDone, NothingLeftBehind,
            UpToDateMeansPartitioned, InRepartition,
            Statements, Migrations, Repartition, Part, Migration!Statements, Migration!Migrations,
            Migration!Repartition, Migration!Part, Migration!dbVars, Migration!cmdVars
<1>1. CASE Migration!Start  BY <1>1 DEF Migration!Start
<1>2. CASE Migration!InstallStatement  BY <1>2 DEF Migration!InstallStatement
<1>3. CASE Migration!TxMigration  BY <1>3 DEF Migration!TxMigration
<1>4. CASE Migration!UpToDate  BY <1>4 DEF Migration!UpToDate
<1>5. CASE Migration!BeginRepartition  BY <1>5 DEF Migration!BeginRepartition
<1>6. CASE Migration!ListMetricTables  BY <1>6 DEF Migration!ListMetricTables
<1>7. CASE Migration!NextTable  BY <1>7 DEF Migration!NextTable, Migration!isTableMigrated
<1>8. CASE Migration!RenameTable
  <2> USE <1>8 DEF Migration!RenameTable
  <2>1. table \in Table /\ ~timescale  OBVIOUS
  <2>2. CASE table \in renamed  BY <2>2
  <2>3. CASE table \notin renamed
    <3>1. Migration!TypeOK'  BY <2>1, <2>3
    <3>2. TablesDone' /\ UpToDateMeansPartitioned'  BY <2>1, <2>3
    <3>3. NothingLeftBehind'  BY <2>1, <2>3
    <3> QED  BY <2>1, <2>3, <3>1, <3>2, <3>3
  <2> QED  BY <2>2, <2>3
<1>9. CASE Migration!ListSubpartitions  BY <1>9 DEF Migration!ListSubpartitions, Migration!Subpartitions
<1>10. CASE Migration!MoveSubpartition  BY <1>10 DEF Migration!MoveSubpartition, Migration!MoveRows
<1>11. CASE Migration!AllMoved  BY <1>11 DEF Migration!AllMoved
<1>12. CASE Migration!DropRenamed
  <2> USE <1>12 DEF Migration!DropRenamed
  <2>1. table \in Table  OBVIOUS
  <2>2. \A l \in Leaf : place[table][l] = {"new"} /\ place[table][l] \ {"old"} = {"new"}  BY <2>1
  <2>3. \A t \in Table, l \in Leaf : place'[t][l] = IF t = table THEN {"new"} ELSE place[t][l]
    BY <2>1, <2>2
  <2>4. place' \in [Table -> [Leaf -> SUBSET {"old", "new"}]]  OBVIOUS
  <2>5. PartsHoldRows'
    <3>1. \A t \in Table : parts'[t] = IF t = table THEN {} ELSE parts[t]  BY <2>1
    <3>2. ASSUME NEW t \in Table, NEW l \in Leaf
          PROVE  place'[t][l] = IF l \in parts'[t] THEN {"old"} ELSE {"new"}
      <4>1. CASE t = table
        <5>1. place'[t][l] = {"new"} /\ l \notin parts'[t]  BY <2>3, <3>1, <4>1
        <5> QED  BY <5>1
      <4>2. CASE t # table
        <5>1. place'[t][l] = place[t][l] /\ parts'[t] = parts[t]  BY <2>3, <3>1, <4>2
        <5>2. place[t][l] = IF l \in parts[t] THEN {"old"} ELSE {"new"}  OBVIOUS
        <5> QED  BY <5>1, <5>2
      <4> QED  BY <4>1, <4>2
    <3> QED  BY <3>2
  <2> QED  BY <2>1, <2>4, <2>5
<1>13. CASE Migration!RecordRepartition  BY <1>13 DEF Migration!RecordRepartition
<1>14. CASE Migration!Abort  BY <1>14 DEF Migration!Abort
<1>15. CASE Migration!Again  BY <1>15 DEF Migration!Again
<1>16. CASE UNCHANGED Migration!vars  BY <1>16 DEF Migration!vars
<1> QED  BY <1>1, <1>2, <1>3, <1>4, <1>5, <1>6, <1>7, <1>8, <1>9, <1>10, <1>11,
            <1>12, <1>13, <1>14, <1>15, <1>16 DEF Migration!Next, Migration!Work

\* What is where, in the database and in the command, fits together after every
\* statement and every crash.
THEOREM MigrationInvariance ==
  Migration!Spec => []MInv
BY InitMInv, StepMInv, PTL DEF Migration!Spec

\* 01409 neither loses nor doubles a row, wherever it is cut off and however
\* often it is run again.
THEOREM NoRowIsLost ==
  Migration!Spec => []RowsInOnePlace
<1>1. MInv => RowsInOnePlace  BY DEF MInv, PartsHoldRows, RowsInOnePlace
<1> QED  BY MigrationInvariance, <1>1, PTL

\* A database whose admin.migration lists 01409 has the tables of its layout.
THEOREM TheListIsTrue ==
  Migration!Spec => []UpToDateMeansPartitioned
BY MigrationInvariance, PTL DEF MInv

\* What the test of 01409 expects of a re-run, that all rows are in the tables of
\* their metrics, does hold if no attempt was cut off.
THEOREM UninterruptedUpgradeFindsAllRows ==
  Migration!Spec => [](aborts = 0 => RerunFindsAllRows)
<1>1. MInv => (aborts = 0 => RerunFindsAllRows)
  <2> SUFFICES ASSUME MInv, aborts = 0, applied >= Repartition, NEW t \in Table, NEW l \in Leaf
               PROVE  "new" \in place[t][l]
    BY DEF RerunFindsAllRows
  <2> USE DEF MInv
  <2>1. own[t] # "list"  BY DEF UpToDateMeansPartitioned
  <2>2. renamed = {}  BY DEF NothingLeftBehind, InRepartition, Repartition, Migration!TypeOK, Migration!Migrations
  <2>3. l \notin parts[t]  BY <2>1, <2>2 DEF NothingLeftBehind
  <2> QED  BY <2>3 DEF PartsHoldRows
<1> QED  BY MigrationInvariance, <1>1, PTL
=============================================================================
