# pgwatch: models, checks and proofs

pgwatch collects metrics from PostgreSQL databases (and from pgbouncer, pgpool,
Patroni clusters and Prometheus exporters) and stores them in sinks. This
directory holds TLA+ specifications of its core, translated from the Go and SQL
sources of this repository, the configurations with which TLC checks them on
small instances, and proofs that TLAPS checks for every value of the constants.
`PROJECT.json` is the index: which definition models which lines, which run
checks which property, which hazard of the code a property is aimed at.

    tlasany Reaper.tla                                  parse a module
    tlc -workers 2 -config MCReaper.cfg MCReaper        check a run
    tlapm ReaperProofs.tla                              check the proofs

## 1. Inventory

| component (source) | state it keeps | operations | modelled in |
|---|---|---|---|
| Reaper main loop (`internal/reaper/reaper.go`) | `monitoredSources`, `prevLoopMonitoredDBs`, `cancelFuncs`, `measurementCh` | `Reap`, `LoadSources`, `StartWorker`, `FilterSource`, `ShutdownWorker`, `CleanupRemovedWorkers`, `WriteMeasurements` | `Reaper` |
| Connection objects (`internal/sources/conn.go`) | the pool, runtime information, a lock | `Connect`, `Ping`, `Close`, `FetchRuntimeInfo`, `Equal` | `Reaper`, `Discovery` |
| Database worker (`internal/reaper/database.go`, `cache.go`) | `lastFetch`, `degradedMetrics`, the shared cache of instance-level metrics | `Reap`, `executeBatch`, `fetchMetric` | `DbConnReaper` |
| Change detection (`database.go`) | `ChangeState`, fingerprints of the last run | `GetObjectChangesMeasurement`, five `Detect...Changes` | `ChangeDetection` |
| Server log parser (`logparser*.go`) | file, offset, kept offsets, event counters | local and remote parsing, rotation, sending | `LogParser` |
| Discovery (`internal/sources/resolver.go`) | last-known-good databases per target, members per Patroni source | `ResolveDatabases`, Patroni and Postgres discovery | `Discovery` |
| PostgreSQL sink (`internal/sinks/postgres.go`, `sql/`) | the input channel, the batch, `partitionMapMetric`, `forceRecreatePartitions`, a cursor | `Write`, `poll`, `flush`, `EnsureMetricTimePartsExist`, `DeleteOldPartitions`, `Next`, `SkipMetric` | `PostgresSink` |
| Sink migrations (`postgres.go`) | the schema of the measurements database, `admin.migration` | installation, `Migrate`, migration 01409 outside a transaction | `SinkMigration`, `MeasurementsDatabase` |
| Prometheus sink, JSON and RPC sinks, multi writer (`internal/sinks`) | a cache that scrapes read and writers fill | `Write`, `SyncMetric`, `DefineMetrics`, `Collect` | `Sinks` |
| Sources and metrics stores (`internal/sources`, `internal/metrics`), REST handlers (`internal/webserver`) | YAML files or tables, a mutex | create, read, update, delete | `Stores`; as the environment in `Reaper`, `Discovery` |
| Log broker (`internal/log`), websocket of the UI | subscribers and their bounded queues | subscribe, unsubscribe, broadcast | planned |
| Metric definitions and presets | tables | lookups, `GetSQL` | no |
| Command line, OS metrics, UI, dashboards | none that matters here | option parsing, reads of `/proc` | the interrupt, in `Reaper` |

How they interact. Each refresh the main loop reads the stores, resolves
sources into databases, compares them with the objects of the previous
refresh and, in a sweep of up to 32 concurrent goroutines, connects each one,
reads its runtime information, filters it and starts a worker for it. A worker
ticks, fetches what is due (and now and then runs the change detection or starts
the log parser), and sends envelopes to the bounded channel `measurementCh`,
from which one goroutine calls the sinks through the multi writer. The same
connection object is shared by the main loop, the sweep and the worker, under
its own lock. At the end of a refresh the cleanup stops workers whose source is
gone. The PostgreSQL sink queues envelopes again, batches and copies them; the
Prometheus sink keeps the last one of each metric for whoever scrapes. The web
server changes the stores while the main loop reads them.

What is hard about it, and what makes each component correct:

- Lifecycle: a worker, a pool and an entry at the sinks are created and
  released in different phases by different goroutines, keyed by name, while the
  objects have identities. Correct means: no worker out of reach, no pool left
  open, none stopped without a cause, each source that stays configured ends up
  monitored, each one removed ends up released, and nobody waits on everybody
  (bounded channel, object lock, pool close that waits for its connections).
- Discovery: any server and any DCS may fail while others answer, and answers are
  kept for that case, as objects whose pools may have been closed since. Correct
  means: a failure costs no database its monitoring, no source is served what
  belongs to a target it had before, no two databases share the name that is
  joined from their parts, what fails is reported or served from what is known,
  and one answered round heals everything.
- Collection: an error in a pipelined batch aborts all that follows it. Correct
  means: one metric's failure costs no other metric a measurement, the degraded
  mark is given for cause and lifted again, and no beat is skipped because
  fetching takes time.
- Change events: detectors compare with what they saw last, queries fail in
  between. Correct means: a reader of the events has, at every moment, a state
  the server was in, and comes to know the present one.
- Logs: the server appends and rotates while the parser reads in lines or chunks.
  Correct means: no line is passed over or counted twice, no count is lost
  between parsing and sending, no file is missed. (Section 3 says where the code
  falls short of the first two.)
- Storage: a cursor runs over sorted envelopes across metric boundaries, empty
  envelopes and failed copies; partitions are created on demand behind a cache,
  while a job drops old ones. Correct means: every row of a metric whose copy did
  not fail is stored once, in its own table; every needed partition exists; a
  flush always ends. A migration that is cut off anywhere loses no row and can be
  run again.
- Exposition: scrapes work on a snapshot while writers and purges go on. Correct
  means: no scrape goes back in time, what is removed vanishes, and no sink's
  failure costs another its data.
- Stores: whole files are rewritten under concurrent requests, failing writes and
  crashes. Correct means: each call happens at one moment, and each is answered.

The hazards, each at its line, are listed in `PROJECT.json`.

## 2. Modules

| module | models | composed from |
|---|---|---|
| `Reaper` | main loop, sweep goroutines, workers as senders, sink writer, environment | |
| `ReaperProofs` | theorems about `Reaper` | `Reaper`, `TLAPS` |
| `DbConnReaper` | tick loop of one database worker | |
| `DbConnReaperProofs` | theorems about `DbConnReaper` | `DbConnReaper`, `TLAPS` |
| `Discovery` | the resolver, composed with the stores, the servers, the DCS and `LoadSources` | |
| `DiscoveryProofs` | theorems about `Discovery` | `Discovery`, `TLAPS` |
| `SnapshotFollower` | abstract: what a feed of changes promises its reader | |
| `ChangeDetection` | the detectors of `change_events` | refines `SnapshotFollower` twice |
| `ChangeDetectionProofs` | theorems about `ChangeDetection`, the refinement among them | `ChangeDetection`, `TLAPS` |
| `LogParser` | the log parser beside the server's logging collector | |
| `LogParserProofs` | theorems about `LogParser` | `LogParser`, `TLAPS` |
| `PostgresSink` | poll, flush, partitions and copies of the PostgreSQL sink | |
| `PostgresSinkProofs` | theorems about `PostgresSink` | `PostgresSink`, `TLAPS` |
| `MeasurementsDatabase` | the tables, rows and list of migrations of the measurements database, and what must hold of them | |
| `SinkMigration` | installation and migration of that database | `MeasurementsDatabase` |
| `Sinks` | multi writer, Prometheus, JSON and RPC sinks, scrapes | |
| `SinksProofs` | theorems about `Sinks` and about `SinkMigration`, an instance of which shares the database's state | `Sinks`, `MeasurementsDatabase`, `SinkMigration`, `TLAPS` |
| `AtomicStore` | abstract: what a store of named definitions promises its clients | |
| `Stores` | files, directories, tables and built-in definitions behind the REST handlers | refines `AtomicStore` |
| `StoresProofs` | theorems about `Stores`, the refinement among them | `Stores`, `TLAPS` |
| `MC...` | instances of the module of that name for TLC | |

Definitions named `Defect_...` are not part of a specification. Each one is a
slip the definition after it could have; it is substituted to see that a
property notices it. Every detailed module states a type invariant `TypeOK`; the runs
check it where it says more than types (in `Reaper` as a part of `IInv`).

### Reaper

A connection object is a member of `Conn`, because the code keeps and compares
pointers; `src`, `cfg`, `pool`, `worker` and `live` are its fields and those of
the worker made for it. `monitored`, `prevLoop`, `loaded` and `cancelFuncs` are
the code's lists and map, as functions from names to objects. `pc` is the phase
of `Reap`:

- `load`, `reload`: `LoadPaused`, `LoadFailed`, `LoadSources`, then
  `ReloadReport` for every source that could not be resolved (a send that blocks
  on a full channel), and for every source whose object was replaced
  `ReloadCancel` and `ReloadClose` (`ShutdownWorker`, in two steps, because `Close`
  waits for connections that a worker holds);
- `metrics`: `LoadMetrics` takes the lock of each object (`BeginSweep`);
- `sweep`: a goroutine per source, `SweepConnect`, `SweepDown`, `SweepFetch`,
  `SweepFilter`, `SweepFilterClose`, `SweepStart`, at most `SweepLimit` at once;
- `cleanup`: `CleanupKeep`, `CleanupCancel`, `CleanupClose`, `CleanupPrevious`;
- `sleep`, `done`.

A worker either ticks, is blocked in one of several kinds of send (holding
nothing, a connection of its batch, or the object's lock), waits or has exited.
`WriterWrite` hands an envelope to the sinks, which register its source.

Abstracted: what a measurement says beyond "data" or "down" ("falseDown" marks
a down report for a server that answers), the runtime information (eligible or
not for `FilterSource`). A configuration is its address, its pattern pair and
whatever else `Equal` compares.

A source of `DiscoveredSource` goes through the resolver: when its server answers
a new object is made and also kept in `cached` (`lastFoundDatabases`), under the key
of address and pattern; when it does not, the object kept there is handed out
again, the same pointer, even if its pool has been closed since. `Equal` does not
compare the addresses of such databases. One discovery source stands for one
database here, found or not; several databases and Patroni are in `Discovery`.
`StartedOnce` is about what this reuse endangers: that a second worker is started
on an object whose first one may still be blocked in a send.

### DbConnReaper

One worker: `BeginTick` finds what is due, `Visit...` treats each such metric as
the switch in the loop does, `BatchResult` reads answers in any order,
`Retry` and `FetchEach` fetch individually, `EndBatch` sets `lastFetch` and
starts the timer. Time is kept as saturating ages (`age`, `cacheAge`, `timer`),
so behaviours are not bounded. `SiblingPut` is another worker filling the shared
cache. Abstracted: rows; an answer always has some. Left out: the restart event
of `db_stats`, the start of the log parser.

### PostgresSink

`PollReceive`, `PollTick` and `PollReturns` are the cases of `poll`'s select;
`BeginFlush` sorts the batch (envelopes of one metric in any order, as the sort
is not stable) and computes the bounds; `EnsureStart`, `EnsureEnd` and
`EnsureFails` are the two queries of `EnsureMetricTimePartsExist` for each
metric, in any order as a Go map is iterated; `BeginCopy`, `StreamRow`,
`StreamEnd` drive the cursor exactly as `Next` does; a copy ends in
`CopySucceeds` or with an error of one of the kinds the code tells apart:
`ConnectFails`, `PartitionMissing` (23514), `CopyRefused` (another `PgError`),
`ConnectionLost` (no `PgError`, perhaps after the commit). `DeleteOldPartitions`
and `PartitionsDropped` happen beside it, but not during a copy, whose locks
they would wait for.

Abstracted: time is counted in partitions and moves on whether or not a metric
is stored; the input channel is any envelope not older than `MaxDelay` (it delays
envelopes, drops them when full and keeps their order, none of which the
properties depend on); connection failures are possible at every query
(`MayFail`). `jumped` notes the metrics whose batch starts past the cached
partition, the one case in which the code compares the start with nothing. Left out: the timescale schema,
`SyncMetric`'s listing table, `MaintainUniqueSources`.

### Discovery

A round is `BeginRound`, then for each configured source, all at once, a
goroutine: `ResolvePlain`; `DiscoverySucceeds` or `DiscoveryFails`
(`ResolveDatabasesFromPostgres`, with `lastFoundDatabases`); or, for Patroni,
`HostConfigFails`, `DcsAnswers` or `DcsFails` (with `lastFoundClusterMembers`),
then `MemberSucceeds` or `MemberFails` per member and `MembersDone`. `LoadSources`
waits for all, joins the lists and keeps, as `Source.Equal` decides, the object
that is monitored or takes the new one; what is in neither is shut down.
Between and during rounds operators edit sources, databases come and go, members
leave, move and change roles.

A name is the sequence of the strings it is made of, each of them the sequence of
its words between underscores; `Joined` strings them together, and the code, the
caches' keys and `GetMonitoredDatabase` see joined names only. Names of different
parts may thus be one and the same. Abstracted: an address is a record that says
what can be asked and which clusters lie below it; a pattern pair is the set of
databases it selects. The life of the pools is in `Reaper`.

### ChangeDetection

`BeginRun`, the five detectors in the order of `GetObjectChangesMeasurement`, and
`EndRun`. `DetectSprocChanges`, `DetectTableChanges` and `DetectIndexChanges`
share `DetectHashes`; `DetectPrivilegeChanges` looks for revokes only while a
privilege is left; `DetectConfigurationChanges` may see only some rows
(`rows.Err` is not asked) and `SettingCannotBeScanned` leaves the map changed and
the events unsent. `DetectionFails` still makes the map. `NewDbConn` forgets all.
`view` is what a reader of the first snapshot and of all events since has. The
counts that `object_changes` sums up for one run are left out.

`Functions` and `Privileges` are instances of `SnapshotFollower`, with what the
server holds as the truth and the reader's `view` as the follower's.

### LogParser

The server writes whole lines (`WriteLine`) and rotates (`RotateTo`), to a new
file or an old one, truncating it or not. Local: `FindLatest`, `OpenFile`,
`ReadLine`, `ReachEnd`, `LookForNewFile`, and `OpenFails`, `ReadFails`. Remote:
`FindLatestRemote`, `FetchChunk`, `NothingToFetch`, `ParseLine`, `StatFile`,
`NextRemoteFile`, and `FetchFails`. `SendIfNeeded` is the send after a line or at
an idle end. A line has the severity word that the parser makes of it: the counts
are kept under any word, `Sent` and `zeroEventCounts` go through `pgSeverities` only.
Times of writes are as coarse as the server reports them, so files may be last
written at the same time. Abstracted: lines have one length, so that chunks end
inside some, and a chunk holds a line (10 MB in the code; a longer line would
never be got past); a line belongs to the database or not.

### SinkMigration

`Start` and `InstallStatement` are `NewPostgresSinkMigrator`; `TxMigration`,
`UpToDate`, `RecordRepartition` the library's `Migrate`; `BeginRepartition` to
`DropRenamed` are 01409, one action per transaction. `Abort` is a crash or an
error after any of them, `Again` the next call of the command.

### Sinks

Two goroutines call the multi writer: `BeginWrite` for envelopes, `BeginSync` and
`BeginDefine` for the main loop; `AskWriter` visits one writer after the other and
`Return` hands the joined error back. A scrape is `Collect` (the snapshot under the
lock), `WritePromMetrics` or `DropStale` for each envelope, `CollectEnds`.
Abstracted: the rows of an envelope are the identities they become, which may
occur twice and are then counted as scrape errors.

### Stores

A client sends one of the `Requests` the handlers accept. For a file: `Lock`, a
read, a decision (`Edit`), the truncation of the file, its write, the unlock; any
of these may fail, and `Crash` may come at any moment. A directory can be read
only. A database does each call in one statement, but a read of the metrics in
two, and there a broken connection may end the rows early unnoticed
(`RowsEndEarly`; the store of sources, `ofSources`, asks for the error). Built-in
definitions refuse changes. The instance `Atomic` of `AtomicStore` takes the
content as the readers see it (references expanded; the file that is being
written as already written).

## 3. Runs

| run | instance | result |
|---|---|---|
| `reaper` | in focus a plain and a Prometheus source, or a discovered source that may be filtered, or this and the Prometheus source; two configurations, four objects, channel of one, two environment moves (one in the last case) | safety of the lifecycle, `StartedOnce` and the inductive invariant hold |
| `reaper_live` | one discovered source, three objects, two moves, no interrupt, deadlock checked | `EventuallyMonitored`, `EventuallyReleased` hold |
| `reaper_filter` | one source that may be filtered | violated, finding |
| `collector` | a batched, a direct and a cached metric with intervals 1, 1, 2 | `Isolation`, `NoBeatSkipped`, `DegradedForCause`, `DegradedRecovers` hold, deadlock checked |
| `discovery` | a plain, a discovery and a Patroni source, two servers, two databases, two clusters that use one member name, names with underscores, two changes | `NoForeignDatabases`, `FailuresAreReported`, `DistinctNames`, `LostOnlyByAnswer`, `HealsInOneRound` hold |
| `discovery_retarget` | the same, one change | violated, finding |
| `changes` | two objects, two fingerprints, one or two kinds in focus, two changes | the events tell the state, fit the reader's view, follow snapshots, and he catches up |
| `log_parser` | three files, four lines of known and unknown severities, three rotations, writes at one time, one failing read, chunks of one and a half lines, two tracked files | counts are conserved, each line once (`EachLineOnce`), no file between two opened ones is left out (`NoFilePassedOver`), every file opened |
| `sink` | scenario time: two metrics, three partitions of time, batches of two; scenario rows: three metrics, batches of three envelopes, no or two rows each | `PartitionsReady`, `CopiesAreExact`, `FlushEnds` hold |
| `migration` | two tables with three leaves and two branches, every older version, three aborts | rows in one place, the list of migrations is true, the upgrade succeeds |
| `sinks` | an RPC, a Prometheus and a JSON writer, two calls of each goroutine, failures and shutdown or two scrapes | failures stay local, scrapes go forward, the removed vanishes |
| `stores` | two clients, two metrics, a preset, four kinds of stores | the stores implement `AtomicStore`, every request is answered |

The runs `reaper` and `reaper_live` take two to three minutes with two workers, all
others less.

Why the bounds are enough. The lifecycle properties relate one name's lists,
objects and worker: a plain name needs an old and a new object, a discovered one
an object that is monitored, one in the cache and one that is just found, and the
other name a further one; this reaches every case of replacing, removing and
re-adding one of them. (Where no object is free `LoadSources` waits; in
`reaper_live` this would show.) Two moves suffice for "changed while something
else failed", and each is checked against all interleavings.
A channel of one is full after one send, which is the case that matters.
Objects that nobody refers to any more are used again, so a run is not limited
in length. The collector has a metric of every kind the loop tells apart. In
`sink` the cached and the expired, the current and the precreated partition are
different ones, and a metric may have an envelope before, between and after those
of a failing one. In `discovery` an edit may meet a failure, a move of a member
or another edit, and rounds are not bounded. In `changes` the detectors share
only the order of a run, so that pairs of kinds suffice; with two
objects a map may be longer, shorter or as long as the result with other names.
In `log_parser` three files are one more than are tracked, a chunk ends inside a
line, and the server may return to a file that was left. In `migration` a second
table is met in every stage of the first. In `sinks` two scrapes overlap with
each other and with a write, a purge and the end of the time to live. In `stores`
two writers of one name and a reader between their steps are the conflict; with
more names a call touches only its own. `CHECK_DEADLOCK FALSE` is used only where
the process may be told to end or the bounded environment comes to rest.

Fairness. `Reaper` assumes strong fairness of the main loop, each sweep
goroutine and each worker (of the main loop and the sweep goroutine together in
`reaper_live`, where with one source the two take turns): a Go mutex is handed to a starving waiter and a
channel serves its blocked senders in order, so a goroutine that can run again
and again does run; and that a tick ends, as it visits finitely many metrics. The
sink writer needs weak fairness only. In `DbConnReaper` the worker and the clock
are weakly fair. In `PostgresSink` the flush is weakly fair: the goroutine of
`poll` runs, and a copy ends with success or an error. In `ChangeDetection` the
worker runs the metric again and again, and a detector whose query may always
fail succeeds now and then (strong fairness of each one that succeeds). In
`LogParser` the goroutine runs. In `SinkMigration` the administrator repeats the
command, and aborts are finitely many. In `Sinks` time passes, calls return and
scrapes keep coming; without scrapes nothing is ever purged. In `Stores` a call
goes on or fails, and `Lock` is strongly fair by the starvation mode of Go's
mutex.

### Findings

The two runs that end in a violation show where the code disagrees with what the
repository says of it; `PROJECT.json` quotes both sides.

- `reaper_filter`: `FilterSource` closes the pool of a source but the field stays
  set, so each later `Connect` pings a closed pool: the source is not monitored
  when it becomes eligible.
- `discovery_retarget`: a resolved database has no connection string any more, so
  `Equal` does not see that its source was given another server, and the old
  object with its old pool is kept.

### Statements TLC refutes

Each of these properties of a module states what a line of the repository says,
and TLC finds a behaviour of the model that contradicts it. They do not belong to
the run list. To reproduce one, put it in place of the properties of the
configuration named, with the constants given: as `PROPERTY` where marked P,
otherwise as `INVARIANT`.

| property | configuration | what the repository says | what happens |
|---|---|---|---|
| `Reaper!PauseIsTemporary` (P) | `MCReaperLive.cfg`, `Config <- OneConfig`, `MaxEvents = 4`, `SPECIFICATION OutageFairSpec` | `docs/reference/cli_env.md:73`: "When the file exists no metrics will be temporarily fetched / scraped" | the pause empties the list and the cleanup closes the pools, but the resolver's cache keeps the objects; if the first discovery after the pause fails, it serves them with the closed pool still in the field (`conn.go:137`), and from then on `Equal` keeps them: the source is never fetched again |
| `Reaper!InterruptEndsReap` (P) | `MCReaperLive.cfg`, `DiscoveredSource = {}`, `MayShutdown = TRUE`, `MaxEvents = 1` | `cmd/pgwatch/main.go:20`: the interrupt is handled "by calling our clean up procedure and exiting the program" | nobody reads `measurementCh` any more and sends do not look at the context: the shutdown may wait for a blocked worker |
| `Reaper!DownOnlyIfUnreachable` | `MCReaperFilter.cfg`, `SPECIFICATION MCSpec` | `spec/design-source-failure-resilience.md:397`: "`instance_up=0` is written for unreachable sources only" | a filtered source is reported down, its closed pool being pinged |
| `DbConnReaper!DegradedForCause` (P) | `MCDbConnReaper.cfg`, `MaxConns = 1` | `database.go:269`: a retry is there "to isolate real failures from cascade failures" | the retry cannot get the connection that its batch holds |
| `PostgresSink!ForwardJumpCovered` | `MCPostgresSink.cfg`, `Metric = {1}`, `Fragile = {}`, `RowCounts = {1}`, `CacheLimit = 2`, `LastDay = 3`, `MayFail = FALSE`, `MayDrop = FALSE` | `postgres_test.go:749`: "A subpartition physically covering the new timestamp must exist, otherwise the CopyFrom insert would fail" | when a metric has paused for longer than the partitions made ahead and its next batch spans two partitions, only the second is created (`postgres.go:485`, `494`); the test's batch lies in one |
| `PostgresSink!RecreatedOnNextRun` | `MCPostgresSink.cfg`, `Metric = {1, 2}`, `Fragile = {1, 2}`, `RowCounts = {1}`, `CacheLimit = 2`, `LastDay = 1` | `postgres.go:448`: "Trying to re-create all needed partitions on next run" | the flag is used up by a flush without rows of that metric |
| `Discovery!DistinctNames` | `MCDiscovery.cfg`, `Member <- AmbiguousMember`, `MaxChanges = 0` | `contrib/sample.sources.yaml:9`: "An arbitrary unique name for the monitored source" | the member `b_node_1` of the cluster `a` and the member `node_1` of the cluster `a_b` get one name, and `GetMonitoredDatabase` finds the first for both |
| `Discovery!MemberFailuresReported` | `MCDiscovery.cfg`, `MaxChanges = 0` | `spec/design-source-failure-resilience.md:285`: with an empty cache the "error propagates, `WriteInstanceDown(sourceName)` fires" | the error of a Patroni member is logged and dropped (`resolver.go:427`): a member that never answered is absent without a report |
| `ChangeDetection!RevokesAreTold` (P) | `MCChangeDetection.cfg` | `database.go:721`: "check revokes - exists in old state only" | the check is made only if some privilege is left, so that the last revocations are never told |
| `LogParser!LeftAtItsEnd` (P) | `MCLogParser.cfg` | `logparser_local.go:102`: "EOF reached, wait for new files to be added" | the parser sleeps after the end of a file and then turns to a newer one without reading on: lines written in between are never parsed |
| `LogParser!NeverTwice` | `MCLogParser.cfg` | `logparser_local.go:17`: `linesRead` is there "to skip over already parsed lines" | after a read error the file is parsed again from its beginning; remotely, the cut line of a chunk may count twice |
| `LogParser!ZeroedOnSend` (P) | `MCLogParser.cfg` | `logparser.go:49`: the counts are "zeroed on storage send" | only the eight `pgSeverities` are sent and zeroed: the count of any other word is never sent and only grows |
| `MeasurementsDatabase!RerunFindsAllRows` | `MCSinkMigration.cfg` | `postgres_migration_test.go:154`: "running the migrations again must not error and must not lose data" | after an abort of 01409 the re-run takes a table for migrated and leaves rows in the renamed one (they are kept: `RowsInOnePlace`) |
| `MeasurementsDatabase!InitInstallsAll` | `MCSinkMigration.cfg` | `docs/reference/cli_env.md:201`: "Initialize the configuration and/or sink database with the required tables and functions" | the installation is no transaction and the next start looks only for the schema: cut off after its first statement it is never completed, and the repeated command reports success |
| `Sinks!FreshStays` (P) | `MCSinks.cfg` | `prometheus.go:200`: "Parallel scrapes see the same data until background Write() calls update it" | a scrape that meets a stale envelope in its snapshot purges the fresh one written since |
| `Stores!SecretsStayOut` | `MCStores.cfg` | `docs/howto/yaml_configuration.md:66`: references to the environment keep "secrets out of source control" | any change of a source writes all expanded values back |
| `Stores!ReadsTheTables` (P) | `MCStores.cfg` | `metrics/postgres.go:78`: "reads the metrics and presets definitions from the pgwatch.metric and pgwatch.preset tables" | `rows.Err` is not asked: a connection that breaks among the rows yields fewer definitions and no error |

What the passing runs and the theorems say beside these is the part that holds:
`EventuallyMonitored` for a discovered source that was not served a closed object,
`PartitionsReady` for a batch that does not start past the cached partition,
`DistinctNames` where joined names tell their parts apart, `FailuresAreReported`
for what is known of a member, `EachLineOnce` without the end of a file,
`CountsConserved` per severity.

`LostOnlyByAnswer` and `DistinctNames` except Patroni sources that were edited and
whose DCS has not answered since: their members are cached by name alone (the
design document calls this a latent flaw). `LostOnlyByAnswer` furthermore lets an
answer of the DCS cost a database its monitoring when nobody last found it at an
address its member now has. The narrower wording, that the member has moved to
another server, is `DiscoveryProofs!LostOnlyIfMoved`; it fails after four changes
when a Patroni source is given another address: the object kept for a member of
the old cluster, `Source.Equal` being blind to the server, then outlives the
cache entry it came from. It is proved for sources that keep their address.

## 4. Proofs

Each theorem holds for every value of the constants that satisfies the named
assumption of its module. The inductive invariants were first checked by TLC
on the instances of section 3 (those of `PostgresSink` also for other values of
`Precreate`, `Retention`, `MaxDelay` and `LastDay`). Lemmas go with the actions: one
per group of actions, or one per action where the cases differ.

### Reaper

From `ReaperAssumption` alone (any sets of sources, configurations and objects,
any positive capacity and sweep limit) `ReaperProofs` shows

- `TypeCorrect`: every variable keeps its type, and `measurementCh` its capacity;
- `Invariance`: `IInv` is an invariant, and from it `WorkersAreRegistered`,
  `WorkersAreCurrent`, `PoolsAreClosed`, `WorkersAreKnown`;
- `ObjectsStartOnce` (`StartedOnce`), although objects come back out of the cache;
- `WorkersStopForCause`: the action property `StoppedForCause`.

None of these invariants is inductive as it stands. That a registered worker
belongs to the monitored object fails to be preserved by `LoadSources` unless it
is known that the sources to restart are exactly those whose object changes
(`ReloadPhase`); that no pool leaks depends on an open pool of a removed source
still being in `prevLoopMonitoredDBs` when the cleanup runs (`PoolIsReachable`,
`ListsAgree`); that the cleanup meets every worker whose source is gone
(`CleanupPhase`); that a sweep goroutine works on a monitored object with an
open pool and that nobody starts a worker for a name being shut down
(`SweepPhase`); that an object which had a worker and still has an open pool has
that worker registered (`WorkerKeepsObject`), so that one handed out again is a
closed one; and that all lists, the resolver's cache among them, hold an object
under its own name (`Owned`).
`IInv` is the conjunction of these with `TypeOK` and the invariants. The proof
has one step per action; the actions are grouped by who takes them (environment,
main loop, sweep goroutine, worker, writer), with one lemma for each group.

### Database worker

From `CollectorAssumption`, for any metrics and intervals, `DbConnReaperProofs` shows

- `MetricsAreIsolated` (`Isolation`), by the invariant `Pending`, which says where
  in the tick a due metric that answers still is, and `DegradedByOwnFailure`
  (`DegradedForCause`), both for `MaxConns > 1`; that this is needed shows the run
  with `MaxConns = 1` (section 3);
- `EveryBeatIsKept` (`NoBeatSkipped`). A metric is due when the time since its
  last fetch is its interval, and a tick may start late. The invariant `BInv`
  keeps the ages in step with the beats (`InStep`): when the timer has run out a
  metric is due, or at least as old as the beats since its last visit are long,
  and these still fit into its interval. As the tick divides every interval
  (lemma `TickDivides`, from the definition of the greatest common divisor
  alone), one beat less than the interval is at least one whole tick less;
- `TypeCorrect`, the type invariant.

### Discovery

From `DiscoveryAssumption`, for any sources, servers, members and any number of
changes, `DiscoveryProofs` shows `ServedOnlyItsOwn` (`NoForeignDatabases`); with
`NamesUnambiguous` `NoSilentFailure` (`FailuresAreReported`); with `OneScope` too
`NamesAreDistinct` (`DistinctNames`), `OneRoundHeals` (`HealsInOneRound`) and
`OnlyAnswersCost` (`LostOnlyByAnswer`); with `OneAddress` also
`OnlyMovesOrAnswersCost`.

`NamesUnambiguous` says that no two sequences of parts there could be join to the
same name. It is a condition on how sources, scopes, members and databases are
called, which the code does not check (section 3 has what happens without it).
What the proofs then show is that nothing else gives two databases one name: the
scope is left out of it only where the address names one cluster, and no cache
serves one target's list to another.

`OneScope` says that the address of a single cluster is a prefix of the keys of no
other one. The code does not see to it: `getEtcdClusterMembers` reads with
`WithPrefix`, so that `/service/a` also finds `/service/ab`, whose members then have
no scope in their names. It is a condition on what is configured, met by
clusters none of whose names begins with another's. `OneAddress` says that
Patroni sources keep their address.

The inductive invariant `IInv` says that a cache entry is the answer to one
discovery of its key (`CacheOfKeys`), that the members of a source are ones the
DCS held (`MembersKnown`, `Unambiguous`), how far each goroutine has come (`Phase`),
and that what it has resolved is what the cache holds of its targets (`Resolved`).
`AInv` adds what only a round knows: that a target which answered had these very
databases unless something changed since (`Fresh`), and that the members it went
over are those listed (`Asked`, `Listed`). `MInv` ties an object that is monitored
to the cache entry from which it would come again (`Remembered`).

### Change detection

From `ChangeAssumption` `ChangeDetectionProofs` shows `ReaderHasWhatIsCompared`
(`EventsTellState`), `NoEventContradicts` (`EventsFitView`) and `EventsFollowSnapshots`
(`FollowsSnapshots`): the detectors of functions and of privileges implement
`SnapshotFollower`, initial states by initial states, each detector by a step of
the follower or a stutter. The core is a lemma on cardinalities: the map with
what is new in it is as long as the result only if nothing was dropped, so that
comparing lengths finds every drop. The invariant needs that a privilege has one
state only (`OneGrant`), that a reader has nothing before the first run of a kind
(`ReaderStartsEmpty`), and that each detector makes its map even when it fails
(`MapsMade`).

### PostgreSQL sink

From `SinkAssumption` (among it: data is younger than what retention drops, and a
batch spans no more than one ensure call creates) `PostgresSinkProofs` shows

- `WithinTheBatch` (`TypeOK`) and `CopiesAreComplete` (`CopiesAreExact`), for any
  metrics, batches and row counts, empty envelopes included, wherever copies
  fail. `CInv` is the invariant: the batch is sorted (`Phase`); between copies the
  cursor stands before the first envelope of a metric and is done with the one
  before it (`Boundary`), within one at a row of the metric being copied
  (`Streaming`); every metric is wholly behind the cursor and stored or failed, or
  wholly ahead and untouched (`Contents`);
- `PartitionsAreReady` (`PartitionsReady`), whatever pauses a metric makes and
  whichever partitions retention drops, but for the two cases the property names.
  `PInv` says: what is cached is recent (`Recent`); the partition remembered for a
  metric exists, unless it has expired or somebody dropped it (`Anchored`); and how
  far the ensure loop is (`Ensured`): when the start of a metric's batch has been
  dealt with, its partition exists or the metric has jumped, and the one remembered
  is no later. As data is younger than what retention drops, a remembered partition
  that equals a day of the batch has not expired, which is why skipping the query
  is right. That a set of days has a least and a greatest element is proved by way
  of finite sets that are minimal for inclusion, in place of induction.

### Migrations

From `MigrationAssumption` `SinksProofs` shows `NoRowIsLost`
(`RowsInOnePlace`) and `TheListIsTrue` (`UpToDateMeansPartitioned`), for any tables
and leaves and however often the upgrade is cut off, and
`UninterruptedUpgradeFindsAllRows`: the refuted `RerunFindsAllRows` holds as long as
nothing was aborted. The invariant says that rows are where the existence of
their old partition says (`PartsHoldRows`), which tables an attempt has behind it
(`TablesDone`), and that without an abort an old table exists only while it is
moved (`NothingLeftBehind`).

### Sinks

From `SinksAssumption` `SinksProofs` shows `EveryWriterIsAsked` (`FailureStaysLocal`),
for any list of writers, and `NoScrapeGoesBack` (`ScrapesGoForward`), for any
number of scrapes. A call has asked exactly the writers before its index
(`CallsWalkTheList`); one goroutine only writes (`OneWrites`); hence the cache is
never older than anything that was shown or is in a snapshot (`CacheIsLatest`), and
a scrape shows its snapshot (`SnapshotsShown`).

### Log parser

From `LogParserAssumption` (lines of any positive length, chunks no shorter than a
line, any number of files, lines, rotations and failures) `LogParserProofs` shows

- `TypeCorrect` (`TypeOK`), with the bound on the offsets that are kept, by the
  invariant `Base`: the server writes every line once and to the file it modified
  last (`ServerWrites`), the parser knows only of files and lines that are there
  (`ParserKnows`), and where its two loops are (`Control`);
- `NothingCountedIsLost` (`CountsConserved`). Its sums run over sets, by a recursion
  that no prover here can do induction on. In place of induction, of the sets for
  which a claim about sums fails one that contains no other is taken (`LeastSet`),
  and the claim shown for it from its smaller part: sums exist, are unique, and
  grow by one when a line is counted (`SumExists`, `SumUnique`, `SumAdds`). The
  claim is per severity: those that are sent, and those that only accumulate;
- `LinesCountedOnce` (`EachLineOnce`). `Read(f, q)` says that of a file exactly the
  lines from where its reading began up to the `q`th were counted, once but for
  ones a chunk ended in. The invariant `IInv` says, as long as nothing disturbs
  (`Undisturbed`, the hypothesis of `EachLineOnce`), how far each file is read: the
  open one up to the position of the reader (`LocalPlace`), or up to a line from
  which the chunk at hand leads to the offset, which lies between lines
  (`RemotePlace`, `ChunkFrom`); one that was left up to what `fileOffsets` says, so
  that the parser goes on at the right line when the server comes back to it
  (`Left`, `CanResume`); one never opened not at all (`Unopened`). Unless the server
  reuses files, the parser goes forward in time (`InOrder`), so that no file is
  opened twice. The largest steps are `FetchChunk`, for which the lines that
  begin in a chunk are shown to be an interval that starts behind the last one
  parsed (`StartsFrom`), and `NextRemoteFile`;
- `FilesFollowOneAnother` (`NoFilePassedOver`), whatever fails. Here `FInv` says that
  no two files have the same time of their last write unless that was noted
  (`tied`, a case the property excepts; `Distinct`), that the open
  file is the latest one begun and none before it was left out (`BegunBefore`,
  `NoneBetween`), and that the time from which the remote loop looks for the next
  file, perhaps long out of date after a failed query, has no other file's last
  write between itself and that of the open file (`LooksFrom`).

### Stores

From `StoresAssumption` `StoresProofs` shows `MutexHolds` (`TypeOK`, with the mutual
exclusion) and `StoresAreAtomic` (`CallsAreAtomic`): all four kinds of stores
implement `AtomicStore` for any clients and definitions, where only a read of the
metrics of a database may miss entries. The invariant says who may
be between lock and unlock (`Exclusive`), that a call under way has a request that
is not answered (`CallOpen`), and that what a writer holds is the edited copy of
what the file still has (`CopyCurrent`); with it a file call takes effect when the
file is truncated, a failing or crashing one when it fails.

### Only model-checked

The liveness properties (`EventuallyMonitored`, `EventuallyReleased`,
`DegradedRecovers`, `FlushEnds`, `CatchesUp`, `EveryFileOpened`, `UpgradeSucceeds`,
`RemovedVanishes`, `EveryRequestAnswered`), which need fairness and `ENABLED`,
outside the prover's reach. Every invariant and every action property that a run
checks is proved, some under the hypotheses named above: a second connection
(`Isolation`, `DegradedForCause`), `NamesUnambiguous` (`FailuresAreReported`) and
with it `OneScope` (`DistinctNames`, `HealsInOneRound`, `LostOnlyByAnswer`).

## 5. Plan

1. An abstract `WorkerLifecycle` (a source is unmonitored, monitored or stopping)
   which `Reaper` implements.
2. The log broker: bounded queues with subscribers that leave.
3. The timescale schema of the PostgreSQL sink, the restart event of `db_stats`,
   `admin.maintain_unique_sources`.

## 6. Not modelled

Parsing of YAML, of the Prometheus exposition format and of log lines; the SQL of
the metrics; gRPC and file output; the web UI and its authentication; Grafana
dashboards; operating system metrics. They are input and output without state
that the properties above could tell apart. The bulk writes of `config init` and
the migrations of the configuration database are single transactions or single
statements of an offline command.
