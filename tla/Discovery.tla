----------------------------- MODULE Discovery -----------------------------
(***************************************************************************)
(* Discovery of databases (internal/sources/resolver.go) and what the main *)
(* loop makes of it (LoadSources, CleanupRemovedWorkers): every refresh    *)
(* resolves all sources at once, each in a goroutine of its own, Patroni   *)
(* sources through the members their DCS lists and discovery sources by    *)
(* asking their server, each with the last answer to fall back on.         *)
(*                                                                         *)
(* Any question to a DCS or to a server may fail.  The name of a source, a *)
(* scope, a member or a database is a sequence of words, the string split  *)
(* at its underscores.  An object remembers which of them its name was     *)
(* joined from with "_"; the code compares the joined names only.  A       *)
(* connection object is what it was made of: its name, its configuration   *)
(* and the server its ConnConfig points to (the life of its pool is in     *)
(* module Reaper).  GetSources has read the store when a round begins, so  *)
(* that an edit during a round counts as one after it.                     *)
(*                                                                         *)
(* A definition Defect_X is not part of the specification: it is a slip    *)
(* the definition below it could have, kept to show that the properties    *)
(* notice it.                                                              *)
(***************************************************************************)
EXTENDS Naturals, Sequences, FiniteSets
Seqs == INSTANCE SequencesExt

CONSTANTS
  Plain,       \* sources that stand for one database or exporter
  PgDiscovery, \* sources of kind postgres-continuous-discovery
  Patroni,     \* sources of kind patroni
  Choices,     \* [Source -> set of configurations an operator may give it]
  NoConfig,    \* disabled, removed, out of group, or everything is paused
  Member,      \* Patroni members: records [scope, name, url, role]
  Server,      \* connection strings of PostgreSQL servers
  Db,          \* names of databases
  Matches,     \* [pattern -> SUBSET Db]: what an include/exclude pair selects
  Cleared,     \* the empty ConnStr of a resolved database
  NoMembers,   \* no entry in lastFoundClusterMembers
  MaxChanges   \* bound on the changes of the environment

Source == Plain \cup PgDiscovery \cup Patroni

\* A configuration: the connection string (a server, or a DCS address for
\* Patroni), the pattern pair and only_if_master.
Config == UNION {Choices[s] : s \in Source}

ASSUME DiscoveryAssumption ==
  /\ Plain \cap PgDiscovery = {} /\ (Plain \cup PgDiscovery) \cap Patroni = {}
  /\ Choices \in [Source -> SUBSET Config]
  /\ \A s \in Source : NoConfig \notin Choices[s]
  /\ \A c \in Config : c.pattern \in DOMAIN Matches /\ c.master \in BOOLEAN
  /\ \A s \in Plain \cup PgDiscovery, c \in Config : c \in Choices[s] => c.conn \in Server
  /\ \A m \in Member : m.url \in Server
  /\ \A p \in DOMAIN Matches : Matches[p] \subseteq Db
  /\ \A D \in SUBSET Member : D # NoMembers
  /\ MaxChanges \in Nat

\* The parts of names, and a name as the code has it: its parts joined with "_",
\* which is to string their words together.
Part == Source \cup Db \cup {m.scope : m \in Member} \cup {m.name : m \in Member}
Joined(name) == Seqs!FlattenSeq(name)

\* What may be asked for its databases, by the parts of its name, and what may be
\* found or, of a plain source, given.
TargetNames ==
  {<<s>> : s \in PgDiscovery}
  \cup {<<s, m.name>> : s \in Patroni, m \in Member}
  \cup {<<s, m.scope, m.name>> : s \in Patroni, m \in Member}
DatabaseNames == {<<s>> : s \in Plain} \cup {Append(n, d) : n \in TargetNames, d \in Db}

\* What is asked for its databases; a key of the discovery cache; a connection
\* object, master being its only_if_master.
DiscoveryTarget == [name : TargetNames, conn : Server, pattern : DOMAIN Matches]
postgresDiscoveryKey ==
  [name : {Joined(n) : n \in TargetNames}, conn : Server, pattern : DOMAIN Matches]
SourceConn ==
  [name : DatabaseNames, conn : Server, connStr : Server \cup {Cleared},
   pattern : DOMAIN Matches, master : BOOLEAN]

VARIABLES
  \* the environment
  config,     \* [Source -> configuration or NoConfig]
  dcs,        \* the members all DCS hold
  dbs,        \* [Server -> SUBSET Db]
  changes,    \* how often the environment has changed
  \* the resolver
  lastFoundClusterMembers,  \* [Patroni -> SUBSET Member or NoMembers]
  lastFoundDatabases,       \* partial function from keys to sets of objects
  pc,         \* [Source -> where its goroutine is]
  todo,       \* [Patroni -> members still to be resolved]
  result,     \* [Source -> set of objects]
  failed,     \* sources whose resolution returned an error
  \* the reaper
  monitored,  \* monitoredSources, a set of objects
  \* history, of the current round but for inherited
  disturbed,  \* a database or a member changed since it began
  edited,     \* sources edited since the last round
  inherited,  \* Patroni sources edited since the last round their DCS answered in
  listed,     \* [Patroni -> members the loop went over]
  dcsAnswered,\* Patroni sources whose DCS answered
  answered    \* targets whose server answered

envVars   == <<config, dcs, dbs, changes, edited, disturbed>>
cacheVars == <<lastFoundClusterMembers, lastFoundDatabases>>
roundVars == <<pc, todo, result, failed>>
histVars  == <<inherited, listed, dcsAnswered, answered>>
vars == <<envVars, cacheVars, roundVars, monitored, histVars>>

Idle == \A s \in Source : pc[s] = "idle"
Configured == {s \in Source : config[s] # NoConfig}

Names(S) == {o.name : o \in S}

TypeOK ==
  /\ config \in [Source -> Config \cup {NoConfig}]
  /\ \A s \in Source : config[s] \in Choices[s] \cup {NoConfig}
  /\ dcs \subseteq Member /\ dbs \in [Server -> SUBSET Db] /\ changes \in 0..MaxChanges
  /\ lastFoundClusterMembers \in [Patroni -> (SUBSET Member) \cup {NoMembers}]
  /\ DOMAIN lastFoundDatabases \subseteq postgresDiscoveryKey
  /\ lastFoundDatabases \in [DOMAIN lastFoundDatabases -> SUBSET SourceConn]
  /\ pc \in [Source -> {"idle", "start", "members", "done"}]
  /\ todo \in [Patroni -> SUBSET Member] /\ listed \in [Patroni -> SUBSET Member]
  /\ result \in [Source -> SUBSET SourceConn] /\ monitored \subseteq SourceConn
  /\ failed \subseteq Source /\ edited \subseteq Source /\ disturbed \in BOOLEAN
  /\ inherited \subseteq Patroni /\ dcsAnswered \subseteq Patroni
  /\ answered \subseteq DiscoveryTarget

Init ==
  /\ config \in {c \in [Source -> Config \cup {NoConfig}] : \A s \in Source : c[s] \in Choices[s]}
  /\ dcs \in {D \in SUBSET Member : \A m, n \in D : m.scope = n.scope /\ m.name = n.name => m = n}
  /\ dbs = [v \in Server |-> Db]
  /\ changes = 0
  /\ lastFoundClusterMembers = [s \in Patroni |-> NoMembers]
  /\ lastFoundDatabases = <<>>
  /\ pc = [s \in Source |-> "idle"] /\ todo = [s \in Patroni |-> {}]
  /\ result = [s \in Source |-> {}] /\ failed = {}
  /\ monitored = {}
  /\ edited = {} /\ disturbed = FALSE /\ inherited = {} /\ listed = [s \in Patroni |-> {}] /\ dcsAnswered = {} /\ answered = {}

-----------------------------------------------------------------------------
(* The environment.                                                        *)

Change == changes < MaxChanges /\ changes' = changes + 1

\* An operator edits, disables or enables a source.
EditConfig(s) ==
  /\ Idle /\ Change
  /\ \E c \in (Choices[s] \cup {NoConfig}) \ {config[s]} : config' = [config EXCEPT ![s] = c]
  /\ edited' = edited \cup {s} /\ inherited' = inherited \cup ({s} \cap Patroni)
  /\ UNCHANGED <<dcs, dbs, disturbed, cacheVars, roundVars, monitored, listed, dcsAnswered, answered>>

\* A database is created or dropped.
DatabaseChanges(v, d) ==
  /\ Change
  /\ dbs' = [dbs EXCEPT ![v] = IF d \in @ THEN @ \ {d} ELSE @ \cup {d}]
  /\ disturbed' = TRUE
  /\ UNCHANGED <<config, dcs, edited, cacheVars, roundVars, monitored, histVars>>

\* A member leaves, joins, moves to another address or changes its role.
MemberChanges(m) ==
  /\ Change
  /\ LET others == {n \in dcs : n.scope # m.scope \/ n.name # m.name}
     IN dcs' = IF m \in dcs THEN dcs \ {m} ELSE others \cup {m}
  /\ disturbed' = TRUE
  /\ UNCHANGED <<config, dbs, edited, cacheVars, roundVars, monitored, histVars>>

-----------------------------------------------------------------------------
(* Postgres discovery.                                                     *)

\* What of a source its discovery depends on.
Target(name, conn, pattern) == [name |-> name, conn |-> conn, pattern |-> pattern]

Defect_NameOnlyKey(t) ==
  [name |-> Joined(t.name), conn |-> CHOOSE v \in Server : TRUE, pattern |-> t.pattern]

postgresDiscoveryKeyOf(t) == [name |-> Joined(t.name), conn |-> t.conn, pattern |-> t.pattern]

\* NewDbConn(*s.Clone()), its name extended and SetDatabaseName called, which
\* clears ConnStr once ConnConfig is parsed from it.
ResolvedConn(t, master, d) ==
  [name |-> Append(t.name, d), conn |-> t.conn, connStr |-> Cleared,
   pattern |-> t.pattern, master |-> master]

\* resolveDatabasesFromPostgres: the discovery query, filtered by patterns.
DiscoveryQuery(t, master) ==
  {ResolvedConn(t, master, d) : d \in dbs[t.conn] \cap Matches[t.pattern]}

Put(f, k, v) == [x \in DOMAIN f \cup {k} |-> IF x = k THEN v ELSE f[x]]

RememberDatabases(t, found) ==
  lastFoundDatabases' = Put(lastFoundDatabases, postgresDiscoveryKeyOf(t), found)

Cached(t) ==
  IF postgresDiscoveryKeyOf(t) \in DOMAIN lastFoundDatabases
  THEN lastFoundDatabases[postgresDiscoveryKeyOf(t)] ELSE {}

Defect_NoFallback(t) == FALSE
Defect_AnyEntry(t) == postgresDiscoveryKeyOf(t) \in DOMAIN lastFoundDatabases

\* A failed discovery is answered from the cache if that holds anything.
HasFallback(t) == Cached(t) # {}

Defect_MergeWithCache(t, found) == found \cup Cached(t)

\* What a successful discovery returns: the fresh list.
FreshList(t, found) == found

\* ResolveDatabasesFromPostgres for a source of its own.
DiscoverySucceeds(s) ==
  LET t     == Target(<<s>>, config[s].conn, config[s].pattern)
      found == DiscoveryQuery(t, config[s].master)
  IN /\ s \in PgDiscovery /\ pc[s] = "start"
     /\ RememberDatabases(t, found)
     /\ result' = [result EXCEPT ![s] = FreshList(t, found)]
     /\ pc' = [pc EXCEPT ![s] = "done"]
     /\ answered' = answered \cup {t}
     /\ UNCHANGED <<envVars, lastFoundClusterMembers, todo, failed, monitored,
                    inherited, listed, dcsAnswered>>

DiscoveryFails(s) ==
  LET t == Target(<<s>>, config[s].conn, config[s].pattern)
  IN /\ s \in PgDiscovery /\ pc[s] = "start"
     /\ \/ /\ HasFallback(t)
           /\ result' = [result EXCEPT ![s] = Cached(t)]
           /\ UNCHANGED failed
        \/ /\ ~HasFallback(t)
           /\ failed' = failed \cup {s}
           /\ UNCHANGED result
     /\ pc' = [pc EXCEPT ![s] = "done"]
     /\ UNCHANGED <<envVars, cacheVars, todo, monitored, histVars>>

\* NewDbConn or NewPromConn: nothing to discover.
ResolvePlain(s) ==
  /\ s \in Plain /\ pc[s] = "start"
  /\ result' = [result EXCEPT ![s] =
       {[name |-> <<s>>, conn |-> config[s].conn, connStr |-> config[s].conn,
         pattern |-> config[s].pattern, master |-> config[s].master]}]
  /\ pc' = [pc EXCEPT ![s] = "done"]
  /\ UNCHANGED <<envVars, cacheVars, todo, failed, monitored, histVars>>

-----------------------------------------------------------------------------
(* Patroni.                                                                *)

\* A DCS address: [dcs, cert, key, scopes, scoped], scopes being those whose
\* keys start with its path.  NewHostConfig refuses a scheme it does not know
\* and a certificate without its key; only etcd can be asked.
NewHostConfig(u) == u.cert = u.key /\ u.dcs \in {"etcd", "zookeeper", "consul"}
Supported(u) == NewHostConfig(u) /\ u.dcs = "etcd"

IsPrimary(m) == m.role = "primary"

\* The members under the path, as etcd returns them.
ClusterMembers(u) == {m \in dcs : m.scope \in u.scopes}

HostConfigFails(s) ==
  /\ s \in Patroni /\ pc[s] = "start" /\ ~Supported(config[s].conn)
  /\ failed' = failed \cup {s}
  /\ pc' = [pc EXCEPT ![s] = "done"]
  /\ UNCHANGED <<envVars, cacheVars, todo, result, monitored, histVars>>

\* The loop over the members, but those only_if_master passes over.
BeginMembers(s, ms) ==
  /\ listed' = [listed EXCEPT ![s] = {m \in ms : config[s].master => IsPrimary(m)}]
  /\ todo' = [todo EXCEPT ![s] = listed'[s]]
  /\ pc' = [pc EXCEPT ![s] = "members"]

\* getEtcdClusterMembers succeeds.
DcsAnswers(s) ==
  /\ s \in Patroni /\ pc[s] = "start" /\ Supported(config[s].conn)
  /\ LET ms == ClusterMembers(config[s].conn)
     IN /\ lastFoundClusterMembers' = [lastFoundClusterMembers EXCEPT ![s] = ms]
        /\ BeginMembers(s, ms)
  /\ dcsAnswered' = dcsAnswered \cup {s}
  /\ UNCHANGED <<envVars, lastFoundDatabases, result, failed, monitored, inherited, answered>>

\* It fails: the members last found under the name of the source, if any.
DcsFails(s) ==
  /\ s \in Patroni /\ pc[s] = "start" /\ Supported(config[s].conn)
  /\ LET ms == lastFoundClusterMembers[s]
     IN \/ /\ ms = NoMembers
           /\ failed' = failed \cup {s} /\ pc' = [pc EXCEPT ![s] = "done"]
           /\ UNCHANGED <<todo, listed>>
        \/ /\ ms # NoMembers
           /\ BeginMembers(s, ms)
           /\ UNCHANGED failed
  /\ UNCHANGED <<envVars, cacheVars, result, monitored, inherited, dcsAnswered, answered>>

Defect_NoScopeInName(s, m) == <<s, m.name>>

\* The name of the source of a member, with the scope unless the path has it.
MemberName(s, m) ==
  IF config[s].conn.scoped THEN <<s, m.name>> ELSE <<s, m.scope, m.name>>

MemberTarget(s, m) == Target(MemberName(s, m), m.url, config[s].pattern)

\* ResolveDatabasesFromPostgres for a member; what it finds is added.
MemberSucceeds(s, m) ==
  LET t     == MemberTarget(s, m)
      found == DiscoveryQuery(t, config[s].master)
  IN /\ pc[s] = "members" /\ m \in todo[s]
     /\ RememberDatabases(t, found)
     /\ result' = [result EXCEPT ![s] = @ \cup FreshList(t, found)]
     /\ todo' = [todo EXCEPT ![s] = @ \ {m}]
     /\ answered' = answered \cup {t}
     /\ UNCHANGED <<envVars, lastFoundClusterMembers, pc, failed, monitored,
                    inherited, listed, dcsAnswered>>

\* An error of a member is logged and not returned.
MemberFails(s, m) ==
  LET t == MemberTarget(s, m)
  IN /\ pc[s] = "members" /\ m \in todo[s]
     /\ result' = [result EXCEPT ![s] = @ \cup IF HasFallback(t) THEN Cached(t) ELSE {}]
     /\ todo' = [todo EXCEPT ![s] = @ \ {m}]
     /\ UNCHANGED <<envVars, cacheVars, pc, failed, monitored, histVars>>

MembersDone(s) ==
  /\ pc[s] = "members" /\ todo[s] = {}
  /\ pc' = [pc EXCEPT ![s] = "done"]
  /\ UNCHANGED <<envVars, cacheVars, todo, result, failed, monitored, histVars>>

-----------------------------------------------------------------------------
(* A round of the main loop.                                               *)

\* ResolveDatabases starts a goroutine per enabled source.
BeginRound ==
  /\ Idle
  /\ pc' = [s \in Source |-> IF s \in Configured THEN "start" ELSE "done"]
  /\ disturbed' = FALSE
  /\ UNCHANGED <<config, dcs, dbs, changes, edited, cacheVars, todo, result, failed, monitored, histVars>>

\* Source.Equal, on what two objects of one name may differ in.
Equal(o, p) == o.connStr = p.connStr /\ o.pattern = p.pattern /\ o.master = p.master

\* wg.Wait, then the lists of all sources joined, whatever failed.
ResolveDatabases == UNION {result[s] : s \in Source}

\* GetMonitoredDatabase: an object monitored under the name of o, if there is
\* one; which of several comes first in the list is left open.
GetMonitoredDatabase(o) ==
  LET same == {p \in monitored : Joined(p.name) = Joined(o.name)}
  IN IF same = {} THEN {} ELSE {CHOOSE p \in same : TRUE}

\* What LoadSources monitors in the place of a resolved object: the object
\* monitored under its name, if that is equal.
Loaded(o) ==
  LET kept == {p \in GetMonitoredDatabase(o) : Equal(p, o)}
  IN IF kept = {} THEN {o} ELSE kept

\* LoadSources; what is replaced or gone is shut down.
LoadSources ==
  LET new == ResolveDatabases
  IN /\ \A s \in Source : pc[s] = "done"
     /\ monitored' = UNION {Loaded(o) : o \in new}
     /\ pc' = [s \in Source |-> "idle"]
     /\ result' = [s \in Source |-> {}] /\ failed' = {}
     /\ UNCHANGED <<config, dcs, dbs, changes, disturbed, cacheVars, todo>>
     /\ edited' = {} /\ inherited' = inherited \ dcsAnswered
     /\ listed' = [s \in Patroni |-> {}] /\ dcsAnswered' = {} /\ answered' = {}

-----------------------------------------------------------------------------
Environment ==
  \/ \E s \in Source : EditConfig(s)
  \/ \E v \in Server, d \in Db : DatabaseChanges(v, d)
  \/ \E m \in Member : MemberChanges(m)

Resolve(s) ==
  \/ DiscoverySucceeds(s) \/ DiscoveryFails(s) \/ ResolvePlain(s)
  \/ HostConfigFails(s) \/ DcsAnswers(s) \/ DcsFails(s) \/ MembersDone(s)
  \/ \E m \in Member : s \in Patroni /\ (MemberSucceeds(s, m) \/ MemberFails(s, m))

Next == Environment \/ BeginRound \/ (\E s \in Source : Resolve(s)) \/ LoadSources

Spec == Init /\ [][Next]_vars

-----------------------------------------------------------------------------
(* Properties.                                                             *)

\* A discovery source is never served databases of a target or of a pattern it
\* had before: whatever the cache holds, what it resolves to is on the server
\* it is configured with and selected by its patterns (postgresDiscoveryKey).
NoForeignDatabases ==
  \A s \in PgDiscovery : pc[s] = "done" =>
    \A o \in result[s] : /\ o.conn = config[s].conn
                         /\ o.name[Len(o.name)] \in Matches[config[s].pattern]

\* Where a monitored database would be discovered in this round.
Owner(o) == o.name[1]
Prefix(o) == SubSeq(o.name, 1, Len(o.name) - 1)
TargetsOf(o) ==
  IF Owner(o) \in PgDiscovery
  THEN {Target(Prefix(o), config[Owner(o)].conn, config[Owner(o)].pattern)}
  ELSE {MemberTarget(Owner(o), m) : m \in {n \in listed[Owner(o)] : MemberName(Owner(o), n) = Prefix(o)}}

\* A discovery that fails costs no database its monitoring: of a source nobody
\* edited, a database goes only in a round in which its own server answered, or
\* else the DCS did and nobody last found it at an address its member now has.
\* Not while members found under an address the source had before are replaced.
LostOnlyByAnswer ==
  [][\A o \in monitored :
       LET s == Owner(o)
       IN (o.name \notin Names(monitored') /\ s \notin edited \cup inherited \cup Plain) =>
            \/ TargetsOf(o) \cap answered # {}
            \/ s \in dcsAnswered /\ \A t \in TargetsOf(o) : o.name \notin Names(Cached(t))]_vars

\* What is reported down (onError, and from there WriteInstanceDown).  A source
\* that is not had an answer, or is served what is known of it: a discovery
\* source its last list, a Patroni source the members last found, and of each
\* member that does not answer its last list.  And none that got an answer is
\* reported.  (A member that does not answer and of which nothing is known is not
\* reported: MemberFailuresReported.)
FailuresAreReported ==
  (\A s \in Source : pc[s] = "done") =>
    /\ \A s \in Configured \ failed :
         /\ s \in PgDiscovery => result[s] # {} \/ \E t \in answered : t.name = <<s>>
         /\ s \in Patroni =>
              /\ s \in dcsAnswered \/ lastFoundClusterMembers[s] # NoMembers
              /\ \A m \in listed[s] : \/ MemberTarget(s, m) \in answered
                                      \/ Cached(MemberTarget(s, m)) \subseteq result[s]
    /\ failed \cap (dcsAnswered \cup {t.name[1] : t \in answered}) = {}

\* "On resolution failure with an empty cache entry (first start) [...] error
\* propagates, WriteInstanceDown(sourceName) fires": of a Patroni member too.
MemberFailuresReported ==
  \A s \in Patroni : pc[s] = "done" =>
    \A m \in listed[s] : \/ MemberTarget(s, m) \in answered \/ HasFallback(MemberTarget(s, m))
                         \/ s \in failed

\* Every member's every database is known under a name of its own, whether the
\* path names one cluster or a namespace of several that use the same member
\* names.  Not while members found under another address are in use, which the
\* cache, keyed by the name of the source, hands out while the DCS is silent.
\* It takes parts whose joined names tell them apart (NamesUnambiguous).
DistinctNames ==
  \A s \in Source \ (inherited \ dcsAnswered) : pc[s] = "done" =>
    \A o, p \in result[s] : Joined(o.name) = Joined(p.name) => o = p

\* No two targets and no two databases there could be have the same name: with
\* an underscore in a scope, a member or a database it need not be so.
NamesUnambiguous ==
  /\ \A m, n \in TargetNames : Joined(m) = Joined(n) => m = n
  /\ \A m, n \in DatabaseNames : Joined(m) = Joined(n) => m = n

\* What there is to monitor of a source, by name.
Truth(s) ==
  IF s \in Plain THEN {<<s>>}
  ELSE IF s \in PgDiscovery
  THEN {<<s, d>> : d \in dbs[config[s].conn] \cap Matches[config[s].pattern]}
  ELSE UNION {{Append(MemberName(s, m), d) : d \in dbs[m.url] \cap Matches[config[s].pattern]} :
              m \in {n \in ClusterMembers(config[s].conn) : config[s].master => IsPrimary(n)}}

\* Every question the round asked for a source was answered.
AllAnswered(s) ==
  \/ s \in Plain
  \/ s \in PgDiscovery /\ \E t \in answered : t.name = <<s>>
  \/ s \in dcsAnswered /\ \A m \in listed[s] : MemberTarget(s, m) \in answered

\* Stale answers heal in one round, whatever the caches hold and whichever
\* other source fails in it: if its questions are answered, and nothing changed
\* meanwhile, exactly what exists of a source is monitored afterwards.
HealsInOneRound ==
  [][\A s \in Configured : (Idle' /\ ~Idle /\ ~disturbed /\ AllAnswered(s)) =>
       {n \in Names(monitored') : n[1] = s} = Truth(s)]_vars

\* "A configuration change MUST NOT be served stale databases from a previously
\* configured target": in the round after a discovery source was given another
\* server, and that server answered, its databases are monitored there.
MonitoredWhereConfigured ==
  [][\A s \in PgDiscovery : (\E t \in answered : t.name = <<s>>) =>
       \A o \in monitored' : (Owner(o) = s /\ Idle') => o.conn = config[s].conn]_vars
=============================================================================
