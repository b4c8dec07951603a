------------------------------- MODULE Sinks -------------------------------
(***************************************************************************)
(* The sinks other than PostgreSQL's, behind the MultiWriter               *)
(* (internal/sinks: multiwriter.go, prometheus.go, json.go, rpc.go).       *)
(*                                                                         *)
(* Two goroutines of the reaper call the MultiWriter at the same time:     *)
(* WriteMeasurements writes envelopes, the main loop synchronizes sources  *)
(* and defines metrics.  Either walks the list of writers without a lock.  *)
(* Beside them, scrapes read the cache of the Prometheus writer, which     *)
(* holds the last envelope of every metric of every source.                *)
(*                                                                         *)
(* An envelope is its source, its metric, its time and whether it has any  *)
(* rows.  The columns of the rows are abstracted to the list of identities *)
(* (name and labels) they become when scraped.                             *)
(*                                                                         *)
(* A definition Defect_X is not part of the specification: it is a slip    *)
(* the definition below it could have, kept to show that the properties    *)
(* notice it.                                                              *)
(***************************************************************************)
EXTENDS Naturals, FiniteSets, Sequences, SequencesExt

CONSTANTS
  Db, Metric,
  Unsupported,   \* metrics of text columns: notSupportedMetrics
  PromDb,        \* the sources that are Prometheus exporters themselves
  Series,        \* [Metric -> Seq]: the identities of an envelope's rows
  Writers,       \* the sinks in the order of the command line
  Scraper,       \* scrapes that may be under way at the same time
  TTL,           \* promCacheTTL
  MaxTime,       \* bound: the clock
  MaxCalls,      \* bound: calls of each of the two goroutines
  None

ASSUME SinksAssumption ==
  /\ Unsupported \subseteq Metric /\ PromDb \subseteq Db
  /\ DOMAIN Series = Metric /\ \A m \in Metric : Series[m] \in Seq(Range(Series[m]))
  /\ Writers \in Seq({"prometheus", "json", "rpc"})
  /\ TTL \in Nat /\ MaxTime \in Nat /\ MaxCalls \in Nat /\ None \notin Nat

Thread == {"write", "main"}
Key    == Db \X Metric
Epoch  == 0..MaxTime

VARIABLES
  now,        \* the clock
  stopped,    \* the context of the sinks is cancelled
  configured, \* sources whose workers send envelopes
  Cache,      \* [Key -> Epoch or None]
  hosts,      \* sources with a map in the cache, maybe an empty one
  gauges,     \* the definitions the writer knows: how many it was sent
  call,       \* [Thread -> a call under way, or None]
  calls,      \* [Thread -> Nat]
  sent,       \* [Key -> Epoch]: of the last envelope written
  scrape,     \* [Scraper -> a Collect under way, or None]
  shown       \* [Key -> Epoch or None]: the latest any finished scrape showed

callVars == <<call, calls, sent, configured>>
promVars == <<Cache, hosts, gauges>>
vars == <<now, stopped, promVars, callVars, scrape, shown>>

Call == [op: {"Write", "AddOp", "DeleteOp", "DefineMetrics"}, db: Db, metric: Metric,
         epoch: Epoch, rows: BOOLEAN, next: 1..Len(Writers) + 1,
         took: SUBSET Range(Writers), failed: SUBSET Range(Writers), err: BOOLEAN]

Snapshot == [Key -> Epoch \cup {None}]

\* The types.  Whatever is cached is cached for a source the writer has a map
\* for.
TypeOK ==
  /\ now \in Epoch /\ stopped \in BOOLEAN /\ configured \subseteq Db
  /\ Cache \in Snapshot /\ hosts \subseteq Db /\ gauges \in Nat
  /\ \A k \in Key : Cache[k] # None => k[1] \in hosts
  /\ call \in [Thread -> Call \cup {None}] /\ calls \in [Thread -> 0..MaxCalls]
  /\ sent \in [Key -> Epoch]
  /\ scrape \in [Scraper -> [todo: SUBSET Key, snapshot: Snapshot, out: Snapshot,
                             floor: Snapshot, errors: Nat] \cup {None}]
  /\ shown \in Snapshot

Nothing == [k \in Key |-> None]

Init ==
  /\ now = 0 /\ stopped = FALSE /\ configured = Db
  /\ Cache = Nothing /\ hosts = {} /\ gauges = 0
  /\ call = [t \in Thread |-> None] /\ calls = [t \in Thread |-> 0]
  /\ sent = [k \in Key |-> 0]
  /\ scrape = [s \in Scraper |-> None] /\ shown = Nothing

-----------------------------------------------------------------------------
(* The environment.                                                        *)

Tick ==
  /\ now < MaxTime /\ now' = now + 1
  /\ UNCHANGED <<stopped, promVars, callVars, scrape, shown>>

Shutdown ==
  /\ ~stopped /\ stopped' = TRUE
  /\ UNCHANGED <<now, promVars, callVars, scrape, shown>>

-----------------------------------------------------------------------------
(* The Prometheus writer.                                                  *)

\* Write and AddCacheEntry: the envelope replaces the one before it.
PromWrite(c) ==
  IF c.rows /\ (c.metric \notin Unsupported \/ c.db \in PromDb)
  THEN /\ Cache' = [Cache EXCEPT ![<<c.db, c.metric>>] = c.epoch]
       /\ hosts' = hosts \cup {c.db}
       /\ UNCHANGED gauges
  ELSE UNCHANGED promVars

\* SyncMetric: InitCacheEntry, or PurgeCacheEntry of the whole source, which is
\* the only one the reaper asks for.
PromSync(c) ==
  IF c.op = "DeleteOp"
  THEN /\ Cache' = [k \in Key |-> IF k[1] = c.db THEN None ELSE Cache[k]]
       /\ hosts' = hosts \ {c.db}
       /\ UNCHANGED gauges
  ELSE hosts' = hosts \cup {c.db} /\ UNCHANGED <<Cache, gauges>>

\* DefineMetrics.
PromDefine == gauges' = gauges + 1 /\ UNCHANGED <<Cache, hosts>>

-----------------------------------------------------------------------------
(* The MultiWriter: a call visits one writer after the other.              *)

NewCall(op, db, metric, epoch, rows) ==
  [op |-> op, db |-> db, metric |-> metric, epoch |-> epoch, rows |-> rows,
   next |-> 1, took |-> {}, failed |-> {}, err |-> FALSE]

Begin(t, c) ==
  /\ call[t] = None /\ calls[t] < MaxCalls
  /\ call' = [call EXCEPT ![t] = c]
  /\ calls' = [calls EXCEPT ![t] = @ + 1]
  /\ UNCHANGED <<now, stopped, promVars, scrape, shown>>

\* WriteMeasurements takes the next envelope.  Those of one metric of one
\* source arrive in the order of their times, none before it was measured; an
\* envelope of a source that was removed may still be in the channel if it was
\* measured before.
BeginWrite(db, metric, epoch, rows) ==
  /\ epoch >= sent[<<db, metric>>] /\ epoch <= now
  /\ db \in configured \/ epoch < now
  /\ epoch + TTL < MaxTime
  /\ Begin("write", NewCall("Write", db, metric, epoch, rows))
  /\ sent' = [sent EXCEPT ![<<db, metric>>] = epoch]
  /\ UNCHANGED configured

\* SyncMetricsToSinks for a source in use, perhaps one that is back, and
\* CleanupSource or ShutdownOldWorkers for one that is not.
BeginSync(db, op) ==
  /\ configured' = IF op = "DeleteOp" THEN configured \ {db} ELSE configured \cup {db}
  /\ \E m \in Metric : Begin("main", NewCall(op, db, m, 0, TRUE))
  /\ UNCHANGED sent

\* LoadMetrics found new definitions.
BeginDefine ==
  /\ \E db \in Db, m \in Metric : Begin("main", NewCall("DefineMetrics", db, m, 0, TRUE))
  /\ UNCHANGED <<sent, configured>>

\* What a writer may answer.  The Prometheus writer never fails, JSON and RPC
\* do when they are stopped and otherwise if the file or the receiver fails; a
\* definition is nothing to JSON.
MayFail(w, c) == w = "rpc" \/ (w = "json" /\ c.op = "Write" /\ c.rows)
MustFail(w, c) == stopped /\ (w = "rpc" \/ (w = "json" /\ c.op # "DefineMetrics"))
Answers(w, c) == {ok \in BOOLEAN : IF ok THEN ~MustFail(w, c) ELSE MayFail(w, c) \/ MustFail(w, c)}

Defect_StopAtError(c, w, ok) ==
  [c EXCEPT !.next = IF ok THEN @ + 1 ELSE Len(Writers) + 1,
            !.took = IF ok THEN @ \cup {w} ELSE @,
            !.failed = IF ok THEN @ ELSE @ \cup {w},
            !.err = @ \/ ~ok]

\* errors.Join: the error is kept and the next writer has its turn.
Joined(c, w, ok) ==
  [c EXCEPT !.next = @ + 1,
            !.took = IF ok THEN @ \cup {w} ELSE @,
            !.failed = IF ok THEN @ ELSE @ \cup {w},
            !.err = @ \/ ~ok]

AskWriter(t) ==
  /\ call[t] # None /\ call[t].next <= Len(Writers)
  /\ LET c == call[t]
         w == Writers[c.next]
     IN /\ \E ok \in Answers(w, c) : call' = [call EXCEPT ![t] = Joined(c, w, ok)]
        /\ IF w # "prometheus" THEN UNCHANGED promVars
           ELSE CASE c.op = "Write"         -> PromWrite(c)
                  [] c.op = "DefineMetrics" -> PromDefine
                  [] OTHER                  -> PromSync(c)
  /\ UNCHANGED <<now, stopped, calls, sent, configured, scrape, shown>>

\* The caller logs the error.
Return(t) ==
  /\ call[t] # None /\ call[t].next > Len(Writers)
  /\ call' = [call EXCEPT ![t] = None]
  /\ UNCHANGED <<now, stopped, promVars, calls, sent, configured, scrape, shown>>

-----------------------------------------------------------------------------
(* Scrapes.                                                                *)

\* snapshotCache, under the lock.  An empty cache has nothing to do.
Collect(s) ==
  /\ scrape[s] = None
  /\ scrape' = [scrape EXCEPT ![s] =
       [todo |-> {k \in Key : Cache[k] # None}, snapshot |-> Cache,
        out |-> Nothing, floor |-> shown, errors |-> 0]]
  /\ UNCHANGED <<now, stopped, promVars, callVars, shown>>

Defect_NeverStale(epoch) == FALSE
Stale(epoch) == epoch + TTL < now

\* The identities that were there before in the same envelope.
Duplicates(metric) == Len(Series[metric]) - Cardinality(Range(Series[metric]))

Defect_PutBack(s, k) ==
  /\ scrape[s] # None /\ k \in scrape[s].todo
  /\ ~Stale(scrape[s].snapshot[k])
  /\ scrape' = [scrape EXCEPT ![s].todo = @ \ {k}, ![s].out[k] = scrape[s].snapshot[k]]
  /\ Cache' = [Cache EXCEPT ![k] = scrape[s].snapshot[k]]
  /\ UNCHANGED <<now, stopped, hosts, gauges, callVars, shown>>

\* WritePromMetrics for one envelope of the snapshot.
WritePromMetrics(s, k) ==
  /\ scrape[s] # None /\ k \in scrape[s].todo
  /\ ~Stale(scrape[s].snapshot[k])
  /\ scrape' = [scrape EXCEPT ![s].todo = @ \ {k},
                              ![s].out[k] = scrape[s].snapshot[k],
                              ![s].errors = @ + Duplicates(k[2])]
  /\ UNCHANGED <<now, stopped, promVars, callVars, shown>>

\* An old envelope is not emitted but dropped from the cache, by its name: what
\* goes is what is there now.
DropStale(s, k) ==
  /\ scrape[s] # None /\ k \in scrape[s].todo
  /\ Stale(scrape[s].snapshot[k])
  /\ scrape' = [scrape EXCEPT ![s].todo = @ \ {k}]
  /\ Cache' = [Cache EXCEPT ![k] = None]
  /\ UNCHANGED <<now, stopped, hosts, gauges, callVars, shown>>

\* lastScrapeErrors is set and the answer complete.
CollectEnds(s) ==
  /\ scrape[s] # None /\ scrape[s].todo = {}
  /\ shown' = [k \in Key |-> IF scrape[s].out[k] = None THEN shown[k]
                             ELSE IF shown[k] # None /\ shown[k] > scrape[s].out[k] THEN shown[k]
                             ELSE scrape[s].out[k]]
  /\ scrape' = [scrape EXCEPT ![s] = None]
  /\ UNCHANGED <<now, stopped, promVars, callVars>>

ScrapeStep(s) == (\E k \in Key : WritePromMetrics(s, k) \/ DropStale(s, k)) \/ CollectEnds(s)

Next ==
  \/ Tick \/ Shutdown
  \/ \E db \in Db, m \in Metric, e \in Epoch, r \in BOOLEAN : BeginWrite(db, m, e, r)
  \/ \E db \in Db, op \in {"AddOp", "DeleteOp"} : BeginSync(db, op)
  \/ BeginDefine
  \/ \E t \in Thread : AskWriter(t) \/ Return(t)
  \/ \E s \in Scraper : Collect(s) \/ ScrapeStep(s)

Spec == Init /\ [][Next]_vars

\* Time passes, calls return, and scrapes go on coming and ending.
Fairness ==
  /\ WF_vars(Tick) /\ \A t \in Thread : WF_vars(AskWriter(t) \/ Return(t))
  /\ \A s \in Scraper : WF_vars(ScrapeStep(s)) /\ WF_vars(Collect(s))

FairSpec == Spec /\ Fairness

-----------------------------------------------------------------------------
(* Properties.                                                             *)

\* A sink that fails costs the others nothing and is not passed over in
\* silence: when a call returns, every writer was asked, and the caller has an
\* error exactly if one of them failed.
FailureStaysLocal ==
  \A t \in Thread : call[t] # None /\ call[t].next > Len(Writers) =>
    /\ call[t].took \cup call[t].failed = Range(Writers)
    /\ call[t].err = (call[t].failed # {})

\* The scrapes go forward: none shows an older value of a metric than a scrape
\* that had ended before it began, whatever purges and writes were between.
ScrapesGoForward ==
  \A s \in Scraper : scrape[s] # None =>
    \A k \in Key : scrape[s].out[k] # None /\ scrape[s].floor[k] # None
                     => scrape[s].out[k] >= scrape[s].floor[k]

\* A source that was removed disappears for good: although an envelope of it
\* may still be written after the DeleteOp and re-create its entry, in the end
\* no scrape shows it and nothing of it is cached.
RemovedVanishes ==
  \A db \in Db : <>[](db \notin configured =>
    \A m \in Metric : /\ Cache[<<db, m>>] = None
                      /\ \A s \in Scraper : scrape[s] # None => scrape[s].out[<<db, m>>] = None)

\* "Parallel scrapes see the same data until background Write() calls update
\* it": no scrape takes a measurement out of the cache that is still fresh.
FreshStays ==
  [][\A k \in Key : Cache[k] # None /\ ~Stale(Cache[k]) /\ Cache'[k] = None
                      => \E t \in Thread : call[t] # None /\ call'[t] # call[t]]_vars
=============================================================================
