------------------------------ MODULE Reaper ------------------------------
(***************************************************************************)
(* The main loop of the reaper (internal/reaper/reaper.go) and what runs   *)
(* beside it: one goroutine per source of a refresh sweep, one worker per  *)
(* monitored source, the goroutine that drains measurementCh into the      *)
(* sinks, and an environment that edits the configuration, takes servers   *)
(* down, promotes and demotes them and cancels the process's context.      *)
(*                                                                         *)
(* A connection object (DbConn, PromConn) has an identity, because the     *)
(* code keeps and compares pointers: the same object is in                 *)
(* monitoredSources, in prevLoopMonitoredDBs and inside a worker.  A       *)
(* worker is identified by the object it was created for.                  *)
(*                                                                         *)
(* A definition Defect_X is not part of the specification: it is a slip    *)
(* the definition below it could have, kept to show that the properties    *)
(* notice it.                                                              *)
(***************************************************************************)
EXTENDS Naturals, Sequences, FiniteSets

CONSTANTS
  Source,        \* names of the sources, as resolved (one per database)
  DiscoveredSource,\* the sources that a discovery query finds on their server
  PromSource,    \* the sources of kind prometheus: no pool, no filters
  FilteredSource,\* the sources whose role or size may fail FilterSource
  PresetSource,  \* the sources whose metrics come from a preset
  Server,        \* what a connection string may name
  Config,        \* configurations of a source, as far as they are told apart
  NoConfig,      \* the source is not configured, disabled or out of group
  Conn,          \* identities of connection objects
  NoConn,        \* Go's nil
  ChanCap,       \* capacity of measurementCh (256 in the code)
  SweepLimit,    \* maxConcurrentSourceConnects (32 in the code)
  MayShutdown    \* whether the process may receive SIGTERM

ASSUME ReaperAssumption ==
  /\ Source # {}
  /\ PromSource \subseteq Source
  /\ DiscoveredSource \subseteq Source \ PromSource
  /\ FilteredSource \subseteq Source \ PromSource
  /\ PresetSource \subseteq Source
  /\ NoConfig \notin Config
  /\ NoConn \notin Conn
  /\ ChanCap \in Nat \ {0}
  /\ SweepLimit \in Nat \ {0}
  /\ MayShutdown \in BOOLEAN

\* A configuration: where the source is, which databases discovery is to find
\* there, and all the rest that Equal compares.
ASSUME ConfigAssumption ==
  \A c \in Config : /\ c = [addr |-> c.addr, pattern |-> c.pattern, other |-> c.other]
                    /\ c.addr \in Server

VARIABLES
  \* the environment
  stored,        \* [Source -> Config or NoConfig]: the configuration store
  storeUp,       \* whether GetSources and GetMetrics succeed
  paused,        \* whether the emergency trigger file exists
  up,            \* [Server -> BOOLEAN]: the server answers
  eligible,      \* [Source -> BOOLEAN]: role and size pass FilterSource
  ctxDone,       \* the main context is cancelled
  \* the reaper
  pc,            \* where the main loop is
  cached,        \* [Source -> [Key -> Conn or NoConn]]: lastFoundDatabases
  reports,       \* sources LoadSources has still to report as not resolved
  loaded,        \* [Source -> Conn or NoConn]: newSrcs of LoadSources
  monitored,     \* [Source -> Conn or NoConn]: monitoredSources
  prevLoop,      \* [Source -> Conn or NoConn]: prevLoopMonitoredDBs
  cancelFuncs,   \* [Source -> Conn or NoConn]: the worker a cancel func stops
  todo,          \* sources the main loop has still to look at in this phase
  closing,       \* sources between cancel and Close in ShutdownWorker
  task,          \* [Source -> TaskState]: the sweep goroutine of a source
  \* connection objects and their workers
  src,           \* [Conn -> Source]
  cfg,           \* [Conn -> Config]
  pool,          \* [Conn -> PoolState]: the field Conn of a DbConn
  worker,        \* [Conn -> WorkerState]
  live,          \* [Conn -> BOOLEAN]: the worker's own context is not cancelled
  \* measurements
  measurementCh, \* sequence of [src, val] waiting for the sinks
  writer,        \* whether the WriteMeasurements goroutine runs
  registered     \* sources the sinks hold state for (SyncMetric, Write)

envVars  == <<stored, storeUp, paused, up, eligible, ctxDone>>
loopVars == <<pc, cached, reports, loaded, monitored, prevLoop, todo>>
taskVars == <<cancelFuncs, closing, task>>
connVars == <<src, cfg, pool>>
workVars == <<worker, live>>
sinkVars == <<measurementCh, writer, registered>>
vars == <<envVars, loopVars, taskVars, connVars, workVars, sinkVars>>

-----------------------------------------------------------------------------
TaskState   == {"idle", "queued", "down", "falseDown", "fetch", "filter",
                "closing", "start", "done"}
PoolState   == {"nil", "open", "closed"}
\* A worker blocked in a send may hold nothing, a pooled connection (a batch
\* is closed only when executeBatch returns) or the lock of its DbConn
\* (GetObjectChangesMeasurement sends under md.Lock).
WorkerState == {"none", "tick", "sendPlain", "sendDown", "sendFalseDown",
                "sendBatch", "sendLocked", "wait", "exited"}
Sending     == {"sendPlain", "sendDown", "sendFalseDown", "sendBatch", "sendLocked"}
Running     == Sending \cup {"tick", "wait"}
\* "noList" is instance_up=0 of a discovery source, under its own name.
Envelope    == [src: Source, val: {"data", "down", "falseDown", "noList"}]

\* postgresDiscoveryKeyOf
KeyOf(c) == <<c.addr, c.pattern>>
Key      == {KeyOf(c) : c \in Config}

TypeOK ==
  /\ stored \in [Source -> Config \cup {NoConfig}]
  /\ storeUp \in BOOLEAN /\ paused \in BOOLEAN /\ ctxDone \in BOOLEAN
  /\ up \in [Server -> BOOLEAN] /\ eligible \in [Source -> BOOLEAN]
  /\ pc \in {"load", "reload", "metrics", "sweep", "cleanup", "sleep", "done"}
  /\ cached \in [Source -> [Key -> Conn \cup {NoConn}]]
  /\ reports \in SUBSET DiscoveredSource
  /\ loaded \in [Source -> Conn \cup {NoConn}]
  /\ monitored \in [Source -> Conn \cup {NoConn}]
  /\ prevLoop \in [Source -> Conn \cup {NoConn}]
  /\ cancelFuncs \in [Source -> Conn \cup {NoConn}]
  /\ todo \in SUBSET Source /\ closing \in SUBSET Source
  /\ task \in [Source -> TaskState]
  /\ src \in [Conn -> Source] /\ cfg \in [Conn -> Config \cup {NoConfig}]
  /\ pool \in [Conn -> PoolState]
  /\ worker \in [Conn -> WorkerState] /\ live \in [Conn -> BOOLEAN]
  /\ measurementCh \in Seq(Envelope) /\ Len(measurementCh) <= ChanCap
  /\ writer \in BOOLEAN
  /\ registered \in SUBSET Source

Init ==
  /\ stored \in [Source -> Config \cup {NoConfig}]
  /\ storeUp = TRUE /\ paused = FALSE /\ ctxDone = FALSE
  /\ up = [v \in Server |-> TRUE] /\ eligible = [s \in Source |-> TRUE]
  /\ pc = "load"
  /\ cached = [s \in Source |-> [k \in Key |-> NoConn]] /\ reports = {}
  /\ loaded = [s \in Source |-> NoConn]
  /\ monitored = [s \in Source |-> NoConn]
  /\ prevLoop = [s \in Source |-> NoConn]
  /\ cancelFuncs = [s \in Source |-> NoConn]
  /\ todo = {} /\ closing = {}
  /\ task = [s \in Source |-> "idle"]
  /\ src = [o \in Conn |-> CHOOSE s \in Source : TRUE]
  /\ cfg = [o \in Conn |-> NoConfig]
  /\ pool = [o \in Conn |-> "nil"]
  /\ worker = [o \in Conn |-> "none"] /\ live = [o \in Conn |-> FALSE]
  /\ measurementCh = <<>> /\ writer = TRUE /\ registered = {}

-----------------------------------------------------------------------------
(* The environment.                                                        *)

\* An operator adds, edits, disables or removes a source in the store.
EditConfig(s) ==
  /\ \E c \in (Config \cup {NoConfig}) \ {stored[s]} :
       stored' = [stored EXCEPT ![s] = c]
  /\ UNCHANGED <<storeUp, paused, up, eligible, ctxDone,
                 loopVars, taskVars, connVars, workVars, sinkVars>>

StoreFailsOrRecovers ==
  /\ storeUp' = ~storeUp
  /\ UNCHANGED <<stored, paused, up, eligible, ctxDone,
                 loopVars, taskVars, connVars, workVars, sinkVars>>

\* The emergency trigger file is created or removed.
TogglePause ==
  /\ paused' = ~paused
  /\ UNCHANGED <<stored, storeUp, up, eligible, ctxDone,
                 loopVars, taskVars, connVars, workVars, sinkVars>>

ServerFailsOrRecovers(v) ==
  /\ up' = [up EXCEPT ![v] = ~@]
  /\ UNCHANGED <<stored, storeUp, paused, eligible, ctxDone,
                 loopVars, taskVars, connVars, workVars, sinkVars>>

\* A failover, or a database growing past or shrinking below --min-db-size-mb.
RoleOrSizeChanges(s) ==
  /\ s \in FilteredSource
  /\ eligible' = [eligible EXCEPT ![s] = ~@]
  /\ UNCHANGED <<stored, storeUp, paused, up, ctxDone,
                 loopVars, taskVars, connVars, workVars, sinkVars>>

\* setupCloseHandler cancels the main context.
Interrupt ==
  /\ MayShutdown /\ ~ctxDone
  /\ ctxDone' = TRUE
  /\ UNCHANGED <<stored, storeUp, paused, up, eligible,
                 loopVars, taskVars, connVars, workVars, sinkVars>>

-----------------------------------------------------------------------------
(* Helpers shared by the handlers.                                         *)

IsProm(o) == src[o] \in PromSource

\* The context of a worker: its own, derived from the main one.
Cancelled(o) == ctxDone \/ ~live[o]

\* The server of an object answers.
Answers(o) == up[cfg[o].addr]

\* Connect finds Conn # nil and only pings, so a closed pool stays closed.
PingOK(o, p) == Answers(o) /\ (IsProm(o) \/ p = "open")

\* DbConn.Close and pgxpool.Close, which waits for every connection handed
\* out; PromConn.Close does nothing.  The field Conn is not reset.
CanClose(o) == o # NoConn => worker[o] # "sendBatch"
PoolClosed(o) ==
  IF o = NoConn THEN pool
  ELSE [pool EXCEPT ![o] = IF @ = "open" THEN "closed" ELSE @]

Defect_NoCancel(s) ==
  /\ cancelFuncs' = [cancelFuncs EXCEPT ![s] = NoConn]
  /\ live' = live
  /\ closing' = closing \cup {s}

\* ShutdownWorker up to cancelFunc(); the lock mu makes the lookup and the
\* delete one step, and no other goroutine works on the same name.
CancelWorker(s) ==
  /\ cancelFuncs' = [cancelFuncs EXCEPT ![s] = NoConn]
  /\ live' = [o \in Conn |-> live[o] /\ o # cancelFuncs[s]]
  /\ closing' = closing \cup {s}

Defect_NoClose(s) ==
  /\ s \in closing
  /\ pool' = pool
  /\ registered' = registered \ {s}
  /\ closing' = closing \ {s}

\* ShutdownWorker from db.Close() on: the monitored object of that name is
\* closed, then the sinks drop the source (SyncMetric with DeleteOp).
CloseWorker(s) ==
  /\ s \in closing
  /\ CanClose(monitored[s])
  /\ pool' = PoolClosed(monitored[s])
  /\ registered' = registered \ {s}
  /\ closing' = closing \ {s}

\* A send to measurementCh blocks while the channel is full.
CanSend == Len(measurementCh) < ChanCap
Send(s, v) == measurementCh' = Append(measurementCh, [src |-> s, val |-> v])

\* GetObjectChangesMeasurement holds the lock of the DbConn while it sends.
LockFree(o) == worker[o] # "sendLocked"

\* What a failed probe reports of a source, and whether the server was down.
Verdict(o) == IF Answers(o) THEN "falseDown" ELSE "down"

InUse(o) ==
  \/ worker[o] \in Running
  \/ \E s \in Source : \/ o \in {loaded[s], monitored[s], prevLoop[s], cancelFuncs[s]}
                       \/ \E k \in Key : o = cached[s][k]

-----------------------------------------------------------------------------
(* The main loop, sequential sections.                                     *)

\* LoadSources when the emergency trigger file exists: nothing is monitored.
LoadPaused ==
  /\ pc = "load" /\ paused
  /\ monitored' = [s \in Source |-> NoConn] /\ loaded' = monitored'
  /\ pc' = "metrics"
  /\ UNCHANGED <<envVars, cached, reports, prevLoop, todo,
                 taskVars, connVars, workVars, sinkVars>>

Defect_ErrorEmptiesList ==
  /\ pc = "load" /\ ~paused /\ ~storeUp
  /\ monitored' = [s \in Source |-> NoConn]
  /\ pc' = "metrics"
  /\ UNCHANGED <<envVars, cached, reports, loaded, prevLoop, todo, taskVars, connVars, workVars, sinkVars>>

\* LoadSources when GetSources fails: the last valid list stays.
LoadFailed ==
  /\ pc = "load" /\ ~paused /\ ~storeUp
  /\ pc' = "metrics"
  /\ UNCHANGED <<envVars, cached, reports, loaded, monitored, prevLoop, todo,
                 taskVars, connVars, workVars, sinkVars>>

\* ResolveDatabase of a source that is read.  A plain or Prometheus source has
\* a new object made; a discovered one too when its server answers the discovery
\* query.  When it does not, the object last found under the same key is served,
\* the same one as then, whatever became of its pool.
Found(s)  == s \in DiscoveredSource => up[stored[s].addr]
Entry(s)  == cached[s][KeyOf(stored[s])]
Served(s) == ~Found(s) /\ Entry(s) # NoConn

\* The sources in newSrcs, and the configuration each of them carries.
Resolved == {s \in Source : stored[s] # NoConfig /\ (Found(s) \/ Served(s))}
NewConfig(s) == IF Found(s) THEN stored[s] ELSE cfg[Entry(s)]

\* Source.Equal.  A discovered database has lost its connection string
\* (SetDatabaseName), so nothing of the address is compared.
Equal(s, c, d) ==
  /\ c.pattern = d.pattern /\ c.other = d.other
  /\ s \in DiscoveredSource \/ c.addr = d.addr

Defect_KeepsByName(s) == monitored[s] # NoConn

\* A source that was monitored keeps the object it had if the two are Equal,
\* whatever the state of its pool.
Keeps(s) == monitored[s] # NoConn /\ Equal(s, cfg[monitored[s]], NewConfig(s))

Defect_NoRestart == {}

\* The sources whose worker LoadSources stops.
Restarted == {s \in Resolved : monitored[s] # NoConn /\ ~Keeps(s)}

\* The sources a new object is made for (an object of a plain source that is
\* dropped at once for the one that is kept is left out).
Fresh == {s \in Resolved : Found(s) /\ (s \in DiscoveredSource \/ ~Keeps(s))}

\* New objects for them.  Unused ones are all alike, so LoadSources takes any.
Allocations == {f \in [Fresh -> {o \in Conn : ~InUse(o)}] :
                  \A s, t \in Fresh : s # t => f[s] # f[t]}

\* LoadSources when the configuration was read: the databases are resolved, the
\* sources that could not be are to be reported, equal ones keep their object,
\* and the workers of those monitored under another configuration are to be
\* stopped.  A database that discovery no longer finds is here one that was
\* removed from the store.
LoadSources ==
  /\ pc = "load" /\ ~paused /\ storeUp
  /\ Allocations # {}
  /\ LET obj == CHOOSE f \in Allocations : TRUE IN
       /\ loaded' = [s \in Source |->
            IF s \notin Resolved THEN NoConn
            ELSE IF Keeps(s) THEN monitored[s]
            ELSE IF Found(s) THEN obj[s] ELSE Entry(s)]
       /\ cached' = [s \in Source |-> [k \in Key |->
            IF s \in Fresh \cap DiscoveredSource /\ k = KeyOf(stored[s])
            THEN obj[s] ELSE cached[s][k]]]
       /\ src' = [o \in Conn |->
            IF \E s \in Fresh : obj[s] = o
            THEN CHOOSE s \in Fresh : obj[s] = o ELSE src[o]]
       /\ cfg' = [o \in Conn |->
            IF \E s \in Fresh : obj[s] = o THEN stored[src'[o]] ELSE cfg[o]]
       /\ pool' = [o \in Conn |->
            IF \E s \in Fresh : obj[s] = o THEN "nil" ELSE pool[o]]
       /\ worker' = [o \in Conn |->
            IF \E s \in Fresh : obj[s] = o THEN "none" ELSE worker[o]]
  /\ todo' = Restarted
  /\ reports' = {s \in DiscoveredSource : stored[s] # NoConfig /\ s \notin Resolved}
  /\ pc' = "reload"
  /\ UNCHANGED <<envVars, monitored, prevLoop, taskVars, live, sinkVars>>

\* onError of ResolveDatabases is WriteInstanceDown, which blocks while
\* measurementCh is full; LoadSources goes on when all are reported.
ReloadReport(s) ==
  /\ pc = "reload" /\ s \in reports /\ CanSend
  /\ Send(s, "noList")
  /\ reports' = reports \ {s}
  /\ UNCHANGED <<envVars, pc, cached, loaded, monitored, prevLoop, todo,
                 taskVars, connVars, workVars, writer, registered>>

ReloadCancel(s) ==
  /\ pc = "reload" /\ reports = {} /\ s \in todo /\ closing = {}
  /\ CancelWorker(s)
  /\ UNCHANGED <<envVars, loopVars, task, connVars, worker, sinkVars>>

ReloadClose(s) ==
  /\ pc = "reload" /\ s \in todo
  /\ CloseWorker(s)
  /\ todo' = todo \ {s}
  /\ UNCHANGED <<envVars, pc, cached, reports, loaded, monitored, prevLoop, cancelFuncs, task,
                 src, cfg, workVars, measurementCh, writer>>

ReloadEnd ==
  /\ pc = "reload" /\ reports = {} /\ todo = {}
  /\ monitored' = loaded
  /\ pc' = "metrics"
  /\ UNCHANGED <<envVars, cached, reports, loaded, prevLoop, todo, taskVars, connVars, workVars, sinkVars>>

\* LoadMetrics, when GetMetrics succeeds, takes the lock of every object whose
\* source uses a preset, to set its intervals.
IntervalsSet ==
  storeUp => \A s \in PresetSource : monitored[s] # NoConn => LockFree(monitored[s])

\* Then the sweep starts, one goroutine per monitored source.
BeginSweep ==
  /\ pc = "metrics" /\ IntervalsSet
  /\ task' = [s \in Source |-> IF monitored[s] = NoConn THEN "done" ELSE "queued"]
  /\ pc' = "sweep"
  /\ UNCHANGED <<envVars, cached, reports, loaded, monitored, prevLoop, todo, cancelFuncs, closing,
                 connVars, workVars, sinkVars>>

-----------------------------------------------------------------------------
(* The sweep: the goroutine of one source.                                 *)

SlotFree == Cardinality({s \in Source : task[s] \notin {"queued", "done"}}) < SweepLimit

\* Connect: a pool is created only when there is none, unless ParseConfig or
\* NewConnWithConfig fails; then a ping.
SweepConnect(s) ==
  /\ pc = "sweep" /\ task[s] = "queued" /\ SlotFree
  /\ LET o == monitored[s]
     IN \E p \in IF IsProm(o) \/ pool[o] # "nil" THEN {pool[o]}
                 ELSE IF Answers(o) THEN {"open"} ELSE {"open", "nil"} :
          /\ pool' = [pool EXCEPT ![o] = p]
          /\ task' = [task EXCEPT ![s] =
               IF ctxDone \/ ~PingOK(o, p) THEN Verdict(o)
               ELSE IF IsProm(o) THEN "start" ELSE "fetch"]
  /\ UNCHANGED <<envVars, loopVars, cancelFuncs, closing, src, cfg, workVars, sinkVars>>

\* WriteInstanceDown
SweepDown(s) ==
  /\ pc = "sweep" /\ task[s] \in {"down", "falseDown"} /\ CanSend
  /\ Send(s, task[s])
  /\ task' = [task EXCEPT ![s] = "done"]
  /\ UNCHANGED <<envVars, loopVars, cancelFuncs, closing, connVars, workVars,
                 writer, registered>>

\* FilterSource: a standby under only_if_master, or a database that is too small.
FilterSource(s) == ~eligible[s]

\* FetchRuntimeInfo(force) needs the lock of the DbConn; FilterSource decides
\* on what was fetched.
SweepFetch(s) ==
  /\ pc = "sweep" /\ task[s] = "fetch"
  /\ LockFree(monitored[s])
  /\ task' = [task EXCEPT ![s] =
       IF ctxDone \/ ~Answers(monitored[s]) THEN "done"
       ELSE IF FilterSource(s) THEN "filter" ELSE "start"]
  /\ UNCHANGED <<envVars, loopVars, cancelFuncs, closing, connVars, workVars, sinkVars>>

\* FilterSource calls ShutdownWorker.
SweepFilter(s) ==
  /\ pc = "sweep" /\ task[s] = "filter"
  /\ CancelWorker(s)
  /\ task' = [task EXCEPT ![s] = "closing"]
  /\ UNCHANGED <<envVars, loopVars, connVars, worker, sinkVars>>

SweepFilterClose(s) ==
  /\ pc = "sweep" /\ task[s] = "closing"
  /\ CloseWorker(s)
  /\ task' = [task EXCEPT ![s] = "done"]
  /\ UNCHANGED <<envVars, loopVars, cancelFuncs, src, cfg, workVars, measurementCh, writer>>

\* SyncMetricsToSinks (databases only) and StartWorker, a no-op when a worker
\* of that name is registered.
SweepStart(s) ==
  /\ pc = "sweep" /\ task[s] = "start"
  /\ registered' = IF s \in PromSource THEN registered ELSE registered \cup {s}
  /\ IF cancelFuncs[s] # NoConn
     THEN UNCHANGED <<cancelFuncs, worker, live>>
     ELSE /\ cancelFuncs' = [cancelFuncs EXCEPT ![s] = monitored[s]]
          /\ worker' = [worker EXCEPT ![monitored[s]] = "tick"]
          /\ live' = [live EXCEPT ![monitored[s]] = TRUE]
  /\ task' = [task EXCEPT ![s] = "done"]
  /\ UNCHANGED <<envVars, loopVars, closing, connVars, measurementCh, writer>>

-----------------------------------------------------------------------------
(* After the barrier: CleanupRemovedWorkers, then the sleep.               *)

\* g.Wait returned; the names with a worker are copied under the lock.
BeginCleanup ==
  /\ pc = "sweep" /\ \A s \in Source : task[s] = "done"
  /\ pc' = "cleanup"
  /\ todo' = {s \in Source : cancelFuncs[s] # NoConn}
  /\ UNCHANGED <<envVars, cached, reports, loaded, monitored, prevLoop, taskVars, connVars, workVars, sinkVars>>

CleanupKeep(s) ==
  /\ pc = "cleanup" /\ s \in todo /\ closing = {}
  /\ ~ctxDone /\ monitored[s] # NoConn
  /\ todo' = todo \ {s}
  /\ UNCHANGED <<envVars, pc, cached, reports, loaded, monitored, prevLoop, taskVars,
                 connVars, workVars, sinkVars>>

CleanupCancel(s) ==
  /\ pc = "cleanup" /\ s \in todo /\ closing = {}
  /\ ctxDone \/ monitored[s] = NoConn
  /\ CancelWorker(s)
  /\ UNCHANGED <<envVars, loopVars, task, connVars, worker, sinkVars>>

CleanupClose(s) ==
  /\ pc = "cleanup" /\ s \in todo
  /\ CloseWorker(s)
  /\ todo' = todo \ {s}
  /\ UNCHANGED <<envVars, pc, cached, reports, loaded, monitored, prevLoop, cancelFuncs, task,
                 src, cfg, workVars, measurementCh, writer>>

Defect_NothingGone(s) == FALSE
Defect_GoneByObject(s) == prevLoop[s] # NoConn /\ monitored[s] # prevLoop[s]

\* A source of the previous loop that is no longer monitored, by name.
Gone(s) == prevLoop[s] # NoConn /\ monitored[s] = NoConn

\* The object of a source that is gone is closed, its worker or not.
CleanupPrevious(s) ==
  /\ pc = "cleanup" /\ todo = {} /\ Gone(s)
  /\ CanClose(prevLoop[s])
  /\ pool' = PoolClosed(prevLoop[s])
  /\ registered' = registered \ {s}
  /\ prevLoop' = [prevLoop EXCEPT ![s] = NoConn]
  /\ UNCHANGED <<envVars, pc, cached, reports, loaded, monitored, todo, taskVars, src, cfg,
                 workVars, measurementCh, writer>>

CleanupEnd ==
  /\ pc = "cleanup" /\ todo = {}
  /\ \A s \in Source : ~Gone(s)
  /\ prevLoop' = monitored
  /\ task' = [s \in Source |-> "idle"]
  /\ pc' = "sleep"
  /\ UNCHANGED <<envVars, cached, reports, loaded, monitored, todo, cancelFuncs, closing,
                 connVars, workVars, sinkVars>>

\* The select of the main loop: the timer is started by the select itself,
\* so a cancelled context always wins.
WakeUp ==
  /\ pc = "sleep" /\ ~ctxDone
  /\ pc' = "load"
  /\ UNCHANGED <<envVars, cached, reports, loaded, monitored, prevLoop, todo,
                 taskVars, connVars, workVars, sinkVars>>

Return ==
  /\ pc = "sleep" /\ ctxDone
  /\ pc' = "done"
  /\ UNCHANGED <<envVars, cached, reports, loaded, monitored, prevLoop, todo,
                 taskVars, connVars, workVars, sinkVars>>

-----------------------------------------------------------------------------
(* The worker of a connection object: DbConnReaper.Reap, PromReaper.Reap.  *)

WorkerGoes(o, from, to) ==
  /\ worker[o] = from
  /\ worker' = [worker EXCEPT ![o] = to]
  /\ UNCHANGED <<envVars, loopVars, taskVars, connVars, live, sinkVars>>

\* One due metric yields data: a batch result, change events, or a plain
\* measurement (cache hit, OS metric, instance_up = 1, a scraped family).
WorkerFetch(o) ==
  /\ \E to \in IF IsProm(o) THEN {"sendPlain"}
               ELSE {"sendPlain", "sendBatch", "sendLocked"} :
       WorkerGoes(o, "tick", to)
  /\ ~Cancelled(o) /\ PingOK(o, pool[o])

\* The instance_up metric of a worker whose ping fails, also when it fails
\* because the worker's own context is cancelled or its pool is closed.
WorkerPingFails(o) ==
  /\ ~IsProm(o)
  /\ \E to \in {"sendDown", "sendFalseDown"} :
       /\ WorkerGoes(o, "tick", to)
       /\ (to = "sendFalseDown") = Answers(o)
  /\ Cancelled(o) \/ ~PingOK(o, pool[o])

\* The tick ends: nothing (more) was due, or the fetches failed.
WorkerTickEnds(o) == WorkerGoes(o, "tick", "wait")

WorkerSend(o) ==
  /\ worker[o] \in Sending /\ CanSend
  /\ Send(src[o], CASE worker[o] = "sendDown" -> "down"
                    [] worker[o] = "sendFalseDown" -> "falseDown"
                    [] OTHER -> "data")
  /\ worker' = [worker EXCEPT ![o] = "tick"]
  /\ UNCHANGED <<envVars, loopVars, taskVars, connVars, live, writer, registered>>

WorkerNextTick(o) == ~Cancelled(o) /\ WorkerGoes(o, "wait", "tick")
WorkerExit(o)     == Cancelled(o) /\ WorkerGoes(o, "wait", "exited")

-----------------------------------------------------------------------------
(* WriteMeasurements: with both cases ready, select takes either.          *)

\* SinksWriter.Write; the Prometheus sink creates the entry of an unknown
\* source.  The name of a discovery source is not that of a database.
WriterWrite ==
  /\ writer /\ measurementCh # <<>>
  /\ measurementCh' = Tail(measurementCh)
  /\ registered' = IF Head(measurementCh).val = "noList" THEN registered
                   ELSE registered \cup {Head(measurementCh).src}
  /\ UNCHANGED <<envVars, loopVars, taskVars, connVars, workVars, writer>>

WriterExit ==
  /\ writer /\ ctxDone
  /\ writer' = FALSE
  /\ UNCHANGED <<envVars, loopVars, taskVars, connVars, workVars,
                 measurementCh, registered>>

-----------------------------------------------------------------------------
Environment ==
  \/ StoreFailsOrRecovers \/ TogglePause \/ Interrupt
  \/ \E v \in Server : ServerFailsOrRecovers(v)
  \/ \E s \in Source : EditConfig(s) \/ RoleOrSizeChanges(s)

MainLoop ==
  \/ LoadPaused \/ LoadFailed \/ LoadSources \/ ReloadEnd \/ BeginSweep
  \/ BeginCleanup \/ CleanupEnd \/ WakeUp \/ Return
  \/ \E s \in Source : \/ ReloadReport(s) \/ ReloadCancel(s) \/ ReloadClose(s)
                       \/ CleanupKeep(s) \/ CleanupCancel(s) \/ CleanupClose(s)
                       \/ CleanupPrevious(s)

SweepTask(s) ==
  \/ SweepConnect(s) \/ SweepDown(s) \/ SweepFetch(s) \/ SweepFilter(s)
  \/ SweepFilterClose(s) \/ SweepStart(s)

Worker(o) ==
  \/ WorkerFetch(o) \/ WorkerPingFails(o) \/ WorkerTickEnds(o) \/ WorkerSend(o)
  \/ WorkerNextTick(o) \/ WorkerExit(o)

Writer == WriterWrite \/ WriterExit

Process ==
  \/ MainLoop \/ Writer
  \/ \E s \in Source : SweepTask(s)
  \/ \E o \in Conn : Worker(o)

Next == Environment \/ Process

Spec == Init /\ [][Next]_vars

\* Every goroutine that can run runs.  Fairness is strong because a mutex of
\* Go is handed to a waiter that starves and a channel serves blocked senders
\* in order; and a tick visits finitely many metrics, so it ends.
WorkerFairness ==
  /\ WF_vars(Writer)
  /\ \A o \in Conn : SF_vars(Worker(o)) /\ SF_vars(WorkerTickEnds(o))
Fairness ==
  /\ SF_vars(MainLoop) /\ \A s \in Source : SF_vars(SweepTask(s))
  /\ WorkerFairness
FairSpec == Spec /\ Fairness

-----------------------------------------------------------------------------
(* Properties.                                                             *)

LiveWorker(o) == worker[o] \in Running /\ live[o]
AtRest == pc \in {"sleep", "load", "done"}

\* A worker whose context is not cancelled is the one cancelFuncs holds under
\* its name: no goroutine goes on collecting out of ShutdownWorker's reach, and
\* a name never has two live workers (reaper.go, StartWorker / ShutdownWorker).
LiveWorkerIsRegistered ==
  \A o \in Conn : LiveWorker(o) => cancelFuncs[src[o]] = o

\* A registered worker uses an open pool and belongs to the object that is
\* monitored under its name; only a paused or removed source may still have
\* one, and only until CleanupRemovedWorkers has run.
RegisteredWorkerIsCurrent ==
  \A s \in Source : cancelFuncs[s] # NoConn =>
    /\ ctxDone \/ LiveWorker(cancelFuncs[s])
    /\ s \in PromSource \/ pool[cancelFuncs[s]] = "open"
    /\ monitored[s] \in {cancelFuncs[s], NoConn}
    /\ AtRest => monitored[s] = cancelFuncs[s]

\* Once the loop is at rest, the only open pools are those of the monitored
\* objects: every object that was replaced, removed or paused was closed
\* (CleanupRemovedWorkers, "Close connections for sources that disappeared").
NoPoolLeak ==
  AtRest => \A o \in Conn : pool[o] = "open" => monitored[src[o]] = o

\* A database with a running worker is known to the sinks: no DeleteOp of a
\* shutdown or of the cleanup hits a source that is being collected.
WorkerIsKnownToSinks ==
  \A s \in Source \ PromSource : cancelFuncs[s] # NoConn => s \in registered

\* A worker is stopped for a cause only: the process ends, its source was read
\* with another configuration, removed or paused, or failed FilterSource.  An
\* unreachable server or an unreadable configuration store never stops one
\* (AC-205: a source present in consecutive refreshes keeps its worker).
StoppedForCause ==
  [][\A o \in Conn : LiveWorker(o) /\ ~LiveWorker(o)' =>
       ctxDone \/ loaded[src[o]] # o \/ task[src[o]] = "filter"]_vars

\* The inductive invariant behind the invariants and StoppedForCause.
\* Whatever list holds an object holds it under the object's own name.
Owned ==
  \A s \in Source :
    /\ loaded[s] # NoConn => src[loaded[s]] = s
    /\ monitored[s] # NoConn => src[monitored[s]] = s
    /\ prevLoop[s] # NoConn => src[prevLoop[s]] = s
    /\ cancelFuncs[s] # NoConn => src[cancelFuncs[s]] = s
    /\ \A k \in Key : cached[s][k] # NoConn => src[cached[s][k]] = s

\* A sweep goroutine runs only during the sweep, on a monitored object; past
\* Connect that object's pool is open.  Nobody else works on a name that is
\* being shut down, and that name has no worker.
SweepPhase ==
  \A s \in Source :
    /\ task[s] \notin {"idle", "done"} => pc = "sweep" /\ monitored[s] # NoConn
    /\ task[s] \in {"fetch", "start"} => s \in PromSource \/ pool[monitored[s]] = "open"
    /\ s \in closing =>
         /\ cancelFuncs[s] = NoConn
         /\ \/ task[s] = "closing"
            \/ pc \in {"reload", "cleanup"} /\ s \in todo

\* During LoadSources, a source not on the list of those to restart keeps its
\* object or loses it; one on the list gets an object that has no worker.
ReloadPhase ==
  pc = "reload" => \A s \in Source :
    IF s \in todo
    THEN cancelFuncs[s] # NoConn => loaded[s] # cancelFuncs[s]
    ELSE /\ cancelFuncs[s] # NoConn => loaded[s] \in {cancelFuncs[s], NoConn}
         /\ monitored[s] # NoConn /\ pool[monitored[s]] = "open"
              => loaded[s] \in {monitored[s], NoConn}

\* During the cleanup, a worker of a source that is gone is still to be visited.
CleanupPhase ==
  pc = "cleanup" => \A s \in Source :
    cancelFuncs[s] # NoConn => s \in todo \/ monitored[s] # NoConn

\* How the lists agree outside the phases that change them.
ListsAgree ==
  /\ pc # "reload" => loaded = monitored
  /\ pc \in {"sleep", "load", "done", "reload"} => prevLoop = monitored

\* An open pool can be closed: its object is monitored or, until the cleanup,
\* in the list of the previous loop under a name that is no longer monitored.
PoolIsReachable ==
  \A o \in Conn : pool[o] = "open" =>
    \/ monitored[src[o]] = o
    \/ /\ pc \in {"metrics", "sweep", "cleanup"}
       /\ monitored[src[o]] = NoConn /\ prevLoop[src[o]] = o

\* An object that had a worker and is monitored with an open pool has it still,
\* or is being shut down; one without a pool never had a worker.
WorkerKeepsObject ==
  \A o \in Conn :
    /\ worker[o] # "none" /\ pool[o] = "open" /\ monitored[src[o]] = o =>
         cancelFuncs[src[o]] = o \/ src[o] \in closing
    /\ pool[o] = "nil" => worker[o] = "none" \/ src[o] \in PromSource

\* StartWorker never runs a second goroutine on a connection object that had
\* one, which may still be blocked in a send after it was cancelled: the lists
\* and the cache of the resolver may hand out an old object again, but only
\* with a pool that was closed.
StartedOnce ==
  \A s \in Source \ PromSource : task[s] = "start" /\ cancelFuncs[s] = NoConn =>
    worker[monitored[s]] = "none"

IInv ==
  /\ TypeOK /\ Owned /\ SweepPhase /\ ReloadPhase /\ CleanupPhase
  /\ ListsAgree /\ PoolIsReachable /\ WorkerKeepsObject
  /\ LiveWorkerIsRegistered /\ RegisteredWorkerIsCurrent /\ WorkerIsKnownToSinks

\* What a discovered source needs to be monitored again: its connection string
\* was never another one than that of c, and no failed discovery was answered
\* with an object that has been closed.
Undisturbed(s, c) ==
  /\ stored[s] # NoConfig => stored[s].addr = c.addr
  /\ (pc = "reload" /\ loaded[s] # NoConn) => pool[loaded[s]] # "closed"

\* A source that stays configured, enabled and reachable and that no filter
\* concerns is in the end collected, for good, under that configuration; a
\* discovered one if it was never disturbed (PauseIsTemporary asks for more).
EventuallyMonitored ==
  \A s \in Source \ FilteredSource, c \in Config :
    (/\ <>[](stored[s] = c /\ up[c.addr] /\ storeUp /\ ~paused /\ ~ctxDone)
     /\ s \in DiscoveredSource => []Undisturbed(s, c))
      => <>[](\E o \in Conn : LiveWorker(o) /\ src[o] = s /\ cfg[o] = c)

\* A source that stays removed is in the end given up: none of its workers
\* runs and none of its pools is open.
EventuallyReleased ==
  \A s \in Source :
    <>[](stored[s] = NoConfig /\ storeUp /\ ~paused /\ ~ctxDone)
      => <>[](\A o \in Conn : src[o] = s => worker[o] \notin Running /\ pool[o] # "open")

\* What internal/sources/cmdopts.go says of --min-db-size-mb: a database is
\* "not monitored until" it reaches the threshold; likewise a promoted standby.
FilteredIsMonitoredOnceEligible ==
  \A s \in FilteredSource, c \in Config :
    <>[](stored[s] = c /\ up[c.addr] /\ eligible[s] /\ storeUp /\ ~paused /\ ~ctxDone)
      => <>(\E o \in Conn : LiveWorker(o) /\ src[o] = s)

\* What docs/reference/cli_env.md says of the emergency pause: while the file
\* exists no metrics are fetched, "temporarily".  A discovered source is to be
\* collected again once it is configured as at first, its server answers and
\* the pause is over.
PauseIsTemporary ==
  \A s \in DiscoveredSource \ FilteredSource, c \in Config :
    [](stored[s] = c /\ storeUp /\ ~ctxDone) /\ <>[](up[c.addr] /\ ~paused)
      => <>[](\E o \in Conn : LiveWorker(o) /\ src[o] = s)

\* What cmd/pgwatch/main.go says of an interrupt: it is handled "by calling our
\* clean up procedure and exiting the program".
InterruptEndsReap == ctxDone ~> (pc = "done")

\* What spec/design-source-failure-resilience.md says: instance_up=0 is written
\* for unreachable sources only.
DownOnlyIfUnreachable ==
  \A i \in DOMAIN measurementCh : measurementCh[i].val # "falseDown"
====
