-------------------------- MODULE DiscoveryProofs --------------------------
(***************************************************************************)
(* What a round of discovery resolves, whichever questions fail, whatever  *)
(* the two caches hold and in whatever order the goroutines of the sources *)
(* step: for any sources, configurations, members, servers and databases.  *)
(***************************************************************************)
EXTENDS Discovery, SequenceTheorems, TLAPS

\* An address that names a cluster is the prefix of the keys of no other.  The
\* code does not see to it: /service/a also reads /service/ab.
OneScope ==
  \A s \in Patroni, c \in Config : (c \in Choices[s] /\ c.conn.scoped) =>
    \A i, j \in c.conn.scopes : i = j

\* No Patroni source is ever given another address.
OneAddress ==
  \A s \in Patroni, c, d \in Config : (c \in Choices[s] /\ d \in Choices[s]) => c.conn = d.conn

\* Names tell the targets apart, and the members a source went over are of
\* clusters its address names.
Trusted(s) ==
  NamesUnambiguous /\ OneScope /\ (OneAddress \/ s \notin inherited \ dcsAnswered)

OwnTarget(s) == Target(<<s>>, config[s].conn, config[s].pattern)

Unambiguous(D) == \A m, n \in D : (m.scope = n.scope /\ m.name = n.name) => m = n

\* An object found at a target under patterns that select it.
FoundAt(o, t) == \E d \in Db \cap Matches[t.pattern] : o = ResolvedConn(t, o.master, d)

\* An object is on a server, and its database one that a pattern selects.
Suits(o, conn, pattern) == o.conn = conn /\ o.name[Len(o.name)] \in Matches[pattern]

\* An entry of the cache suits its key; if names tell the targets apart, it is
\* the answer to one discovery of its target.
CacheOfKeys ==
  /\ \A k \in DOMAIN lastFoundDatabases : \A o \in lastFoundDatabases[k] : Suits(o, k.conn, k.pattern)
  /\ NamesUnambiguous => \A t \in DiscoveryTarget :
       /\ \A o \in Cached(t) : FoundAt(o, t)
       /\ \A o, p \in Cached(t) : o.master = p.master

\* Nobody knows two members of one name in one cluster, and those of the address
\* a source has are of the clusters it names.
MembersKnown(s) ==
  /\ Unambiguous(listed[s]) /\ todo[s] \subseteq listed[s]
  /\ (pc[s] \in {"members", "done"} /\ config[s] # NoConfig /\ s \notin failed) =>
       lastFoundClusterMembers[s] # NoMembers
  /\ lastFoundClusterMembers[s] # NoMembers => Unambiguous(lastFoundClusterMembers[s])
  /\ (lastFoundClusterMembers[s] # NoMembers /\ s \notin inherited \ dcsAnswered) =>
       \A m \in lastFoundClusterMembers[s] : m.scope \in config[s].conn.scopes
  /\ (lastFoundClusterMembers[s] # NoMembers /\ OneAddress) =>
       \A m \in lastFoundClusterMembers[s], c \in Choices[s] : m.scope \in c.conn.scopes
  /\ Trusted(s) => \A m \in listed[s] : m.scope \in config[s].conn.scopes

\* How far a source is in the round.
Phase(s) ==
  /\ pc[s] \in {"idle", "start"} =>
       /\ result[s] = {} /\ s \notin failed \cup dcsAnswered
       /\ \A t \in answered : t.name[1] # s
       /\ s \in Patroni => listed[s] = {} /\ todo[s] = {}
  /\ pc[s] \in {"start", "members"} => config[s] # NoConfig
  /\ pc[s] = "members" => s \in Patroni /\ s \notin failed
  /\ (pc[s] = "done" /\ s \in Patroni) => todo[s] = {}
  /\ config[s] = NoConfig => result[s] = {} /\ (s \in Patroni => listed[s] = {})
  /\ s \in failed => s \notin dcsAnswered /\ \A t \in answered : t.name[1] # s

\* Of every member done the server answered, or what is cached of it is served.
Covered(s) ==
  \A m \in listed[s] \ todo[s] :
    MemberTarget(s, m) \in answered \/ Cached(MemberTarget(s, m)) \subseteq result[s]

\* What a source resolved to is what the cache now holds of its targets.
Resolved(s) ==
  /\ (s \in Plain /\ pc[s] = "done" /\ config[s] # NoConfig) =>
       Names(result[s]) = {<<s>>} /\ \A o, p \in result[s] : o = p
  /\ (s \in PgDiscovery /\ pc[s] = "done" /\ config[s] # NoConfig) =>
       /\ NamesUnambiguous => result[s] = Cached(OwnTarget(s))
       /\ \A o \in result[s] : Suits(o, config[s].conn, config[s].pattern)
       /\ s \in failed \/ result[s] # {} \/ OwnTarget(s) \in answered
  /\ (s \in Patroni /\ NamesUnambiguous) => Covered(s)
  /\ (s \in Patroni /\ Trusted(s)) =>
       result[s] = UNION {Cached(MemberTarget(s, m)) : m \in listed[s] \ todo[s]}

\* The inductive invariant.
IInv ==
  /\ TypeOK /\ Unambiguous(dcs) /\ CacheOfKeys
  /\ \A s \in Patroni : MembersKnown(s)
  /\ \A s \in Source : Phase(s) /\ Resolved(s)

-----------------------------------------------------------------------------
(* Names and keys.                                                         *)

LEMMA Kinds ==
  /\ \A s \in Source : <<s>> \in Seq(Part) /\ <<s>>[1] = s
  /\ \A s \in Patroni : s \in Source /\ s \notin Plain /\ s \notin PgDiscovery
  /\ \A s \in PgDiscovery : s \in Source /\ s \notin Plain
  /\ \A s \in Plain : s \in Source
BY DiscoveryAssumption DEF Source, Part

\* The names of targets and of databases are not empty.
LEMMA TargetParts ==
  /\ \A n \in TargetNames : n \in Seq(Part) /\ n # <<>> /\ n[1] \in Source
  /\ \A n \in DatabaseNames : n \in Seq(Part)
<1>1. \A m \in Member : m.name \in Part /\ m.scope \in Part  BY DEF Part
<1>2. \A s \in Source : s \in Part  BY DEF Part
<1>3. ASSUME NEW n \in TargetNames PROVE n \in Seq(Part) /\ n # <<>> /\ n[1] \in Source
  <2>1. \/ \E s \in PgDiscovery : n = <<s>>
        \/ \E s \in Patroni, m \in Member : n = <<s, m.name>> \/ n = <<s, m.scope, m.name>>
    BY DEF TargetNames
  <2>2. CASE \E s \in PgDiscovery : n = <<s>>  BY <2>2, Kinds
  <2>3. CASE \E s \in Patroni, m \in Member : n = <<s, m.name>> \/ n = <<s, m.scope, m.name>>
    <3>1. PICK s \in Patroni, m \in Member : n = <<s, m.name>> \/ n = <<s, m.scope, m.name>>  BY <2>3
    <3>2. s \in Part /\ s \in Source /\ m.name \in Part /\ m.scope \in Part  BY <1>1, <1>2, Kinds
    <3>3. CASE n = <<s, m.name>>  BY <3>2, <3>3
    <3>4. CASE n = <<s, m.scope, m.name>>  BY <3>2, <3>4
    <3> QED  BY <3>1, <3>3, <3>4
  <2> QED  BY <2>1, <2>2, <2>3
<1>4. ASSUME NEW n \in DatabaseNames PROVE n \in Seq(Part)
  <2>1. CASE \E s \in Plain : n = <<s>>  BY <2>1, Kinds
  <2>2. CASE \E k \in TargetNames, d \in Db : n = Append(k, d)
    <3>1. PICK k \in TargetNames, d \in Db : n = Append(k, d)  BY <2>2
    <3>2. k \in Seq(Part) /\ d \in Part  BY <1>3 DEF Part
    <3> QED  BY <3>1, <3>2, AppendProperties
  <2> QED  BY <2>1, <2>2 DEF DatabaseNames
<1> QED  BY <1>3, <1>4

LEMMA MemberNames ==
  ASSUME NEW s \in Source, NEW m \in Member
  PROVE  /\ MemberName(s, m) \in Seq(Part) /\ MemberName(s, m)[1] = s
         /\ \A r \in Source : MemberName(s, m) # <<r>>
         /\ s \in Patroni => MemberName(s, m) \in TargetNames
<1>1. s \in Part /\ m.scope \in Part /\ m.name \in Part  BY DEF Part
<1>2. s \in Patroni => <<s, m.name>> \in TargetNames /\ <<s, m.scope, m.name>> \in TargetNames
  BY DEF TargetNames
<1> QED  BY <1>1, <1>2 DEF MemberName

\* The targets of sources.
LEMMA TargetsAreKeys ==
  ASSUME TypeOK, NEW s \in Source, config[s] # NoConfig
  PROVE  /\ s \in PgDiscovery => OwnTarget(s) \in DiscoveryTarget
         /\ s \in Patroni => \A m \in Member : MemberTarget(s, m) \in DiscoveryTarget
<1>1. config[s] \in Choices[s] /\ config[s] \in Config /\ config[s].pattern \in DOMAIN Matches
  BY DiscoveryAssumption DEF TypeOK
<1>2. s \in PgDiscovery => config[s].conn \in Server /\ <<s>> \in TargetNames
  BY <1>1, DiscoveryAssumption DEF TargetNames
<1>3. \A m \in Member : m.url \in Server  BY DiscoveryAssumption
<1>4. s \in Patroni => \A m \in Member : MemberName(s, m) \in TargetNames  BY MemberNames
<1> QED
  BY <1>1, <1>2, <1>3, <1>4 DEF OwnTarget, MemberTarget, Target, DiscoveryTarget

\* A target has a key, and one of its own if names tell the targets apart.
LEMMA KeyOfTarget ==
  /\ \A t \in DiscoveryTarget :
       /\ postgresDiscoveryKeyOf(t) \in postgresDiscoveryKey
       /\ postgresDiscoveryKeyOf(t).conn = t.conn /\ postgresDiscoveryKeyOf(t).pattern = t.pattern
  /\ NamesUnambiguous => \A t, u \in DiscoveryTarget :
       postgresDiscoveryKeyOf(t) = postgresDiscoveryKeyOf(u) => t = u
<1>1. \A t \in DiscoveryTarget :
        /\ postgresDiscoveryKeyOf(t) \in postgresDiscoveryKey
        /\ postgresDiscoveryKeyOf(t).conn = t.conn /\ postgresDiscoveryKeyOf(t).pattern = t.pattern
  BY DEF postgresDiscoveryKeyOf, DiscoveryTarget, postgresDiscoveryKey
<1>2. ASSUME NamesUnambiguous, NEW t \in DiscoveryTarget, NEW u \in DiscoveryTarget,
             postgresDiscoveryKeyOf(t) = postgresDiscoveryKeyOf(u)
      PROVE  t = u
  <2>1. Joined(t.name) = Joined(u.name) /\ t.conn = u.conn /\ t.pattern = u.pattern
    BY <1>2 DEF postgresDiscoveryKeyOf
  <2>2. t.name = u.name  BY <1>2, <2>1 DEF NamesUnambiguous, DiscoveryTarget
  <2> QED  BY <2>1, <2>2 DEF DiscoveryTarget
<1> QED  BY <1>1, <1>2

\* Members of clusters the address names have names of their own.
LEMMA OneMember ==
  ASSUME OneScope, TypeOK, NEW s \in Patroni, config[s] # NoConfig,
         NEW m \in Member, NEW n \in Member,
         m.scope \in config[s].conn.scopes, n.scope \in config[s].conn.scopes,
         MemberName(s, m) = MemberName(s, n)
  PROVE  m.scope = n.scope /\ m.name = n.name
<1>1. config[s] \in Choices[s] /\ config[s] \in Config  BY Kinds, DiscoveryAssumption DEF TypeOK
<1>2. CASE config[s].conn.scoped
  <2>1. m.scope = n.scope  BY <1>1, <1>2 DEF OneScope
  <2>2. <<s, m.name>> = <<s, n.name>>  BY <1>2 DEF MemberName
  <2> QED  BY <2>1, <2>2
<1>3. CASE ~config[s].conn.scoped
  <2>1. <<s, m.scope, m.name>> = <<s, n.scope, n.name>>  BY <1>3 DEF MemberName
  <2> QED  BY <2>1
<1> QED  BY <1>2, <1>3

-----------------------------------------------------------------------------
(* The cache.                                                              *)

LEMMA Remember ==
  ASSUME TypeOK, NEW t \in DiscoveryTarget, NEW found \in SUBSET SourceConn,
         RememberDatabases(t, found)
  PROVE  /\ DOMAIN lastFoundDatabases' \subseteq postgresDiscoveryKey
         /\ lastFoundDatabases' \in [DOMAIN lastFoundDatabases' -> SUBSET SourceConn]
         /\ \A k \in DOMAIN lastFoundDatabases' :
              \/ k = postgresDiscoveryKeyOf(t) /\ lastFoundDatabases'[k] = found
              \/ k \in DOMAIN lastFoundDatabases /\ lastFoundDatabases'[k] = lastFoundDatabases[k]
         /\ \A u \in DiscoveryTarget : u = t => Cached(u)' = found
         /\ NamesUnambiguous =>
              \A u \in DiscoveryTarget : Cached(u)' = IF u = t THEN found ELSE Cached(u)
<1> DEFINE k0 == postgresDiscoveryKeyOf(t)
<1>1. lastFoundDatabases' = [k \in DOMAIN lastFoundDatabases \cup {k0} |->
                               IF k = k0 THEN found ELSE lastFoundDatabases[k]]
  BY DEF RememberDatabases, Put
<1>2. k0 \in postgresDiscoveryKey  BY KeyOfTarget
<1>3. ASSUME NEW u \in DiscoveryTarget
      PROVE  Cached(u)' = IF postgresDiscoveryKeyOf(u) = k0 THEN found ELSE Cached(u)
  <2> HIDE DEF k0
  <2>1. Cached(u)' = IF postgresDiscoveryKeyOf(u) \in DOMAIN lastFoundDatabases'
                     THEN lastFoundDatabases'[postgresDiscoveryKeyOf(u)] ELSE {}
    BY DEF Cached, postgresDiscoveryKeyOf
  <2> QED  BY <1>1, <2>1 DEF Cached
<1>4. NamesUnambiguous => \A u \in DiscoveryTarget : Cached(u)' = IF u = t THEN found ELSE Cached(u)
  BY <1>3, KeyOfTarget
<1>5. \A u \in DiscoveryTarget : u = t => Cached(u)' = found  BY <1>3
<1> HIDE DEF k0
<1>6. /\ DOMAIN lastFoundDatabases' = DOMAIN lastFoundDatabases \cup {k0}
      /\ \A k \in DOMAIN lastFoundDatabases' :
           lastFoundDatabases'[k] = IF k = k0 THEN found ELSE lastFoundDatabases[k]
  BY <1>1
<1>7. lastFoundDatabases' \in [DOMAIN lastFoundDatabases' -> SUBSET SourceConn]
  BY <1>1, <1>6 DEF TypeOK
<1> QED  BY <1>2, <1>4, <1>5, <1>6, <1>7 DEF TypeOK, k0

LEMMA CachedIsList ==
  ASSUME TypeOK, NEW t \in DiscoveryTarget PROVE Cached(t) \subseteq SourceConn
BY DEF TypeOK, Cached

\* What the cache answers for a target suits it.
LEMMA CachedSuits ==
  ASSUME CacheOfKeys, NEW t \in DiscoveryTarget, NEW o \in Cached(t)
  PROVE  Suits(o, t.conn, t.pattern)
<1>1. /\ postgresDiscoveryKeyOf(t) \in DOMAIN lastFoundDatabases
      /\ o \in lastFoundDatabases[postgresDiscoveryKeyOf(t)]
  BY DEF Cached
<1>2. Suits(o, postgresDiscoveryKeyOf(t).conn, postgresDiscoveryKeyOf(t).pattern)
  BY <1>1 DEF CacheOfKeys
<1> QED  BY <1>2, KeyOfTarget

\* What a discovery finds fits its key.
LEMMA FoundFits ==
  ASSUME TypeOK, NEW t \in DiscoveryTarget, NEW mst \in BOOLEAN
  PROVE  /\ DiscoveryQuery(t, mst) \in SUBSET SourceConn
         /\ \A o \in DiscoveryQuery(t, mst) :
              FoundAt(o, t) /\ o.master = mst /\ Suits(o, t.conn, t.pattern)
<1> SUFFICES ASSUME NEW o \in DiscoveryQuery(t, mst)
             PROVE  o \in SourceConn /\ FoundAt(o, t) /\ o.master = mst /\ Suits(o, t.conn, t.pattern)
  OBVIOUS
<1>1. PICK d \in dbs[t.conn] \cap Matches[t.pattern] : o = ResolvedConn(t, mst, d)
  BY DEF DiscoveryQuery
<1>2. d \in Db /\ d \in Part  BY DEF TypeOK, DiscoveryTarget, Part
<1>3. t.name \in TargetNames /\ t.name \in Seq(Part)  BY TargetParts DEF DiscoveryTarget
<1>4. Append(t.name, d) \in DatabaseNames  BY <1>2, <1>3 DEF DatabaseNames
<1>5. o.name = Append(t.name, d) /\ o.conn = t.conn /\ o.master = mst  BY <1>1 DEF ResolvedConn
<1>6. o.name[Len(o.name)] = d  BY <1>2, <1>3, <1>5, AppendProperties
<1>7. o \in SourceConn  BY <1>1, <1>4 DEF ResolvedConn, SourceConn, DiscoveryTarget
<1>8. FoundAt(o, t)  BY <1>1, <1>2, <1>5 DEF FoundAt
<1> QED  BY <1>5, <1>6, <1>7, <1>8 DEF Suits

LEMMA FoundNames ==
  ASSUME NEW t, NEW mst
  PROVE  Names(DiscoveryQuery(t, mst)) = {Append(t.name, d) : d \in dbs[t.conn] \cap Matches[t.pattern]}
<1> DEFINE D == dbs[t.conn] \cap Matches[t.pattern]
<1>1. Names(DiscoveryQuery(t, mst)) = {o.name : o \in {ResolvedConn(t, mst, d) : d \in D}}
  BY DEF Names, DiscoveryQuery
<1>2. \A d : ResolvedConn(t, mst, d).name = Append(t.name, d)  BY DEF ResolvedConn
<1> HIDE DEF D
<1>3. {o.name : o \in {ResolvedConn(t, mst, d) : d \in D}} = {Append(t.name, d) : d \in D}
  BY <1>2
<1> QED  BY <1>1, <1>3 DEF D

\* What is cached is named after its key, and of one target only.
LEMMA CachedName ==
  ASSUME NamesUnambiguous, TypeOK, CacheOfKeys, NEW t \in DiscoveryTarget, NEW o \in Cached(t)
  PROVE  /\ o.conn = t.conn /\ o.pattern = t.pattern
         /\ \E d \in Db \cap Matches[t.pattern] : d \in Part /\ o.name = Append(t.name, d)
         /\ t.name \in Seq(Part)
<1>1. FoundAt(o, t) /\ t.name \in Seq(Part)  BY TargetParts DEF CacheOfKeys, DiscoveryTarget
<1> QED  BY <1>1 DEF FoundAt, ResolvedConn, Part

\* The databases of one entry have names of their own.
LEMMA EntryNames ==
  ASSUME NamesUnambiguous, TypeOK, CacheOfKeys, NEW t \in DiscoveryTarget,
         NEW o \in Cached(t), NEW p \in Cached(t), o.name = p.name
  PROVE  o = p
<1>1. FoundAt(o, t) /\ FoundAt(p, t) /\ o.master = p.master  BY DEF CacheOfKeys
<1>2. PICK d \in Db : o = ResolvedConn(t, o.master, d)  BY <1>1 DEF FoundAt
<1>3. PICK e \in Db : p = ResolvedConn(t, p.master, e)  BY <1>1 DEF FoundAt
<1>4. Append(t.name, d) = Append(t.name, e)  BY <1>2, <1>3 DEF ResolvedConn
<1>5. d = e
  <2>1. t.name \in Seq(Part) /\ d \in Part /\ e \in Part  BY TargetParts DEF Part, DiscoveryTarget
  <2> QED  BY <1>4, <2>1, AppendInjective
<1> QED  BY <1>1, <1>2, <1>3, <1>5

LEMMA CachedNames ==
  ASSUME NamesUnambiguous, TypeOK, CacheOfKeys, NEW s \in Patroni, config[s] # NoConfig,
         NEW m \in Member, NEW n \in Member, NEW o \in Cached(MemberTarget(s, m)),
         NEW p \in Cached(MemberTarget(s, n)), o.name = p.name
  PROVE  MemberName(s, m) = MemberName(s, n)
<1>1. MemberTarget(s, m) \in DiscoveryTarget /\ MemberTarget(s, n) \in DiscoveryTarget /\ s \in Source
  BY TargetsAreKeys, Kinds
<1>2. PICK d \in Part : o.name = Append(MemberName(s, m), d)
  BY <1>1, CachedName DEF MemberTarget, Target
<1>3. PICK e \in Part : p.name = Append(MemberName(s, n), e)
  BY <1>1, CachedName DEF MemberTarget, Target
<1>4. MemberName(s, m) \in Seq(Part) /\ MemberName(s, n) \in Seq(Part)  BY <1>1, MemberNames
<1>5. Append(MemberName(s, m), d) = Append(MemberName(s, n), e)  BY <1>2, <1>3
<1> HIDE DEF MemberName
<1> QED  BY <1>4, <1>5, AppendInjective

LEMMA CacheGrows ==
  ASSUME IInv, NEW t \in DiscoveryTarget, NEW mst \in BOOLEAN,
         RememberDatabases(t, DiscoveryQuery(t, mst))
  PROVE  CacheOfKeys'
<1> DEFINE found == DiscoveryQuery(t, mst)
<1>1. TypeOK /\ CacheOfKeys  BY DEF IInv
<1>2. \A o \in found : FoundAt(o, t) /\ o.master = mst /\ Suits(o, t.conn, t.pattern)
  BY <1>1, FoundFits
<1>3. /\ \A k \in DOMAIN lastFoundDatabases' :
           \/ k = postgresDiscoveryKeyOf(t) /\ lastFoundDatabases'[k] = found
           \/ k \in DOMAIN lastFoundDatabases /\ lastFoundDatabases'[k] = lastFoundDatabases[k]
      /\ NamesUnambiguous =>
           \A u \in DiscoveryTarget : Cached(u)' = IF u = t THEN found ELSE Cached(u)
  BY <1>1, FoundFits, Remember
<1>4. postgresDiscoveryKeyOf(t).conn = t.conn /\ postgresDiscoveryKeyOf(t).pattern = t.pattern
  BY KeyOfTarget
<1> HIDE DEF found
<1>5. ASSUME NEW k \in DOMAIN lastFoundDatabases', NEW o \in lastFoundDatabases'[k]
      PROVE  Suits(o, k.conn, k.pattern)
  BY <1>1, <1>2, <1>3, <1>4 DEF CacheOfKeys
<1>6. ASSUME NamesUnambiguous, NEW u \in DiscoveryTarget
      PROVE  /\ \A o \in Cached(u)' : FoundAt(o, u)
             /\ \A o, p \in Cached(u)' : o.master = p.master
  <2>1. Cached(u)' = IF u = t THEN found ELSE Cached(u)  BY <1>3, <1>6
  <2>2. CASE u = t  BY <1>2, <2>1, <2>2
  <2>3. CASE u # t  BY <1>1, <1>6, <2>1, <2>3 DEF CacheOfKeys
  <2> QED  BY <2>2, <2>3
<1> QED  BY <1>5, <1>6 DEF CacheOfKeys, Suits, FoundAt, ResolvedConn, NamesUnambiguous

-----------------------------------------------------------------------------
(* Steps.                                                                  *)

\* What the step of one goroutine leaves alone of another source.
Spared(s, r) ==
  /\ pc'[r] = pc[r] /\ result'[r] = result[r]
  /\ r \in failed' <=> r \in failed
  /\ r \in dcsAnswered' <=> r \in dcsAnswered
  /\ r \in Patroni =>
       /\ listed'[r] = listed[r] /\ todo'[r] = todo[r]
       /\ lastFoundClusterMembers'[r] = lastFoundClusterMembers[r]

\* A goroutine asks about targets of its own source only.
AsksForItself(s) ==
  /\ config' = config /\ inherited' = inherited
  /\ NamesUnambiguous => \A u \in DiscoveryTarget : u.name[1] # s => Cached(u)' = Cached(u)
  /\ \A u \in DiscoveryTarget : u.name[1] # s => (u \in answered' <=> u \in answered)

LEMMA OthersSpared ==
  ASSUME IInv, TypeOK', NEW s \in Source, NEW r \in Source, r # s, Spared(s, r), AsksForItself(s)
  PROVE  /\ Phase(r)' /\ Resolved(r)'
         /\ r \in Patroni => MembersKnown(r)'
<1>1. TypeOK /\ Phase(r) /\ Resolved(r) /\ (r \in Patroni => MembersKnown(r))  BY DEF IInv
<1>2. r \in Patroni => (Trusted(r)' <=> Trusted(r))
  BY DEF Trusted, NamesUnambiguous, Spared, AsksForItself, OneScope, OneAddress
<1>3. r \in Patroni => MembersKnown(r)'
  BY <1>1, <1>2 DEF MembersKnown, Unambiguous, Spared, AsksForItself, OneAddress
<1>4. \A t \in answered \cup answered' : t.name[1] = r => (t \in answered' <=> t \in answered)
  BY <1>1 DEF AsksForItself, TypeOK
<1>5. Phase(r)'
  BY <1>1, <1>4 DEF Phase, Spared, AsksForItself
<1>6. ASSUME config[r] # NoConfig, r \in PgDiscovery
      PROVE  /\ NamesUnambiguous => Cached(OwnTarget(r))' = Cached(OwnTarget(r))
             /\ (OwnTarget(r) \in answered)' <=> OwnTarget(r) \in answered
  <2>1. OwnTarget(r)' = OwnTarget(r)  BY DEF OwnTarget, AsksForItself
  <2>2. OwnTarget(r) \in DiscoveryTarget /\ OwnTarget(r).name[1] = r
    BY <1>1, <1>6, TargetsAreKeys, Kinds DEF OwnTarget, Target
  <2>3. NamesUnambiguous => \A u \in DiscoveryTarget : u.name[1] = r => Cached(u)' = Cached(u)
    BY DEF AsksForItself
  <2>4. \A u \in DiscoveryTarget : u = OwnTarget(r) => Cached(OwnTarget(r))' = Cached(u)'
    BY <2>1 DEF Cached, postgresDiscoveryKeyOf
  <2> QED  BY <2>1, <2>2, <2>3, <2>4 DEF AsksForItself
<1>7. ASSUME NEW m \in Member, config[r] # NoConfig, r \in Patroni, NamesUnambiguous
      PROVE  /\ Cached(MemberTarget(r, m))' = Cached(MemberTarget(r, m))
             /\ (MemberTarget(r, m) \in answered)' <=> MemberTarget(r, m) \in answered
  <2>1. MemberTarget(r, m)' = MemberTarget(r, m)
    BY DEF MemberTarget, MemberName, AsksForItself
  <2>2. MemberTarget(r, m) \in DiscoveryTarget /\ MemberTarget(r, m).name[1] = r
    BY <1>1, <1>7, TargetsAreKeys, MemberNames DEF MemberTarget, Target
  <2>3. \A u \in DiscoveryTarget : u.name[1] = r => Cached(u)' = Cached(u)
    BY <1>7 DEF AsksForItself
  <2>4. \A u \in DiscoveryTarget : u = MemberTarget(r, m) => Cached(MemberTarget(r, m))' = Cached(u)'
    BY <2>1 DEF Cached, postgresDiscoveryKeyOf
  <2> QED  BY <2>1, <2>2, <2>3, <2>4 DEF AsksForItself
<1>8. ASSUME r \in Patroni, NamesUnambiguous
      PROVE  /\ Covered(r)'
             /\ Trusted(r) =>
                  result'[r] = UNION {Cached(MemberTarget(r, m))' : m \in listed'[r] \ todo'[r]}
  <2>1. Covered(r) /\ (Trusted(r) => result[r] = UNION {Cached(MemberTarget(r, m)) : m \in listed[r] \ todo[r]})
    BY <1>1, <1>8 DEF Resolved
  <2>2. listed'[r] = listed[r] /\ todo'[r] = todo[r] /\ result'[r] = result[r]  BY <1>8 DEF Spared
  <2>3. listed[r] \subseteq Member  BY <1>1, <1>8 DEF TypeOK
  <2>4. listed[r] # {} => config[r] # NoConfig  BY <1>1, <1>8 DEF Phase
  <2>5. \A m \in listed[r] : /\ Cached(MemberTarget(r, m))' = Cached(MemberTarget(r, m))
                             /\ (MemberTarget(r, m) \in answered)' <=> MemberTarget(r, m) \in answered
    BY <1>7, <1>8, <2>3, <2>4
  <2> QED  BY <2>1, <2>2, <2>5 DEF Covered
<1>9. Resolved(r)'
  <2>1. pc'[r] = pc[r] /\ result'[r] = result[r] /\ config' = config /\ (r \in failed' <=> r \in failed)
    BY DEF Spared, AsksForItself
  <2>2. NamesUnambiguous' <=> NamesUnambiguous  BY DEF NamesUnambiguous
  <2>3. (r \in Plain /\ pc'[r] = "done" /\ config'[r] # NoConfig) =>
          Names(result[r])' = {<<r>>} /\ \A o, p \in result'[r] : o = p
    BY <1>1, <2>1 DEF Resolved, Names
  <2>4. (r \in PgDiscovery /\ pc'[r] = "done" /\ config'[r] # NoConfig) =>
          /\ NamesUnambiguous => result'[r] = Cached(OwnTarget(r))'
          /\ \A o \in result'[r] : Suits(o, config'[r].conn, config'[r].pattern)
          /\ r \in failed' \/ result'[r] # {} \/ (OwnTarget(r) \in answered)'
    BY <1>1, <1>6, <2>1 DEF Resolved
  <2>5. ~NamesUnambiguous => ~Trusted(r)  BY DEF Trusted
  <2> QED  BY <1>2, <1>8, <2>2, <2>3, <2>4, <2>5 DEF Resolved, Suits
<1> QED  BY <1>3, <1>5, <1>9

\* A step of one goroutine keeps the invariant if it does for its own source.
LEMMA OneSourceSteps ==
  ASSUME IInv, TypeOK', NEW s \in Source, AsksForItself(s), \A r \in Source : r # s => Spared(s, r),
         dcs' = dcs, CacheOfKeys', Phase(s)', Resolved(s)', s \in Patroni => MembersKnown(s)'
  PROVE  IInv'
<1>1. Unambiguous(dcs)'  BY DEF IInv, Unambiguous
<1>2. \A r \in Source : Phase(r)' /\ Resolved(r)' /\ (r \in Patroni => MembersKnown(r)')
  BY OthersSpared
<1> QED  BY <1>1, <1>2, Kinds DEF IInv
LEMMA CacheStays ==
  ASSUME lastFoundDatabases' = lastFoundDatabases
  PROVE  /\ CacheOfKeys => CacheOfKeys'
         /\ \A u \in DiscoveryTarget : Cached(u)' = Cached(u)
<1>1. \A u \in DiscoveryTarget : Cached(u)' = Cached(u)  BY DEF Cached, postgresDiscoveryKeyOf
<1>2. ASSUME CacheOfKeys PROVE CacheOfKeys'
  <2>1. \A k \in DOMAIN lastFoundDatabases' : \A o \in lastFoundDatabases'[k] : Suits(o, k.conn, k.pattern)
    BY <1>2 DEF CacheOfKeys
  <2>2. ASSUME NamesUnambiguous, NEW u \in DiscoveryTarget
        PROVE  (\A o \in Cached(u)' : FoundAt(o, u)) /\ \A o, p \in Cached(u)' : o.master = p.master
    BY <1>1, <1>2, <2>2 DEF CacheOfKeys
  <2> QED  BY <2>1, <2>2 DEF CacheOfKeys, Suits, FoundAt, ResolvedConn, NamesUnambiguous
<1> QED  BY <1>1, <1>2

LEMMA DiscoverySucceedsInv ==
  ASSUME IInv, NEW s \in Source, DiscoverySucceeds(s) PROVE IInv'
<1> DEFINE t == OwnTarget(s)
           found == DiscoveryQuery(t, config[s].master)
<1>1. /\ s \in PgDiscovery /\ pc[s] = "start" /\ RememberDatabases(t, found)
      /\ result' = [result EXCEPT ![s] = found] /\ pc' = [pc EXCEPT ![s] = "done"]
      /\ answered' = answered \cup {t}
      /\ UNCHANGED <<envVars, lastFoundClusterMembers, todo, failed, monitored,
                     inherited, listed, dcsAnswered>>
  BY DEF DiscoverySucceeds, OwnTarget, FreshList
<1>2. TypeOK /\ Phase(s) /\ s \notin Patroni /\ s \notin Plain  BY <1>1, Kinds DEF IInv
<1>3. config[s] # NoConfig  BY <1>1, <1>2 DEF Phase
<1>4. t \in DiscoveryTarget /\ t.name = <<s>> /\ t.name[1] = s
  BY <1>1, <1>2, <1>3, TargetsAreKeys, Kinds DEF OwnTarget, Target
<1>5. config[s].master \in BOOLEAN
  BY <1>2, <1>3, DiscoveryAssumption DEF TypeOK
<1>6. found \in SUBSET SourceConn /\ \A o \in found : Suits(o, config[s].conn, config[s].pattern)
  BY <1>2, <1>4, <1>5, FoundFits DEF OwnTarget, Target
<1>7. CacheOfKeys'  BY <1>1, <1>4, <1>5, CacheGrows
<1>8. OwnTarget(s)' = t  BY <1>1 DEF OwnTarget, envVars
<1> HIDE DEF t, found
<1>9. /\ DOMAIN lastFoundDatabases' \subseteq postgresDiscoveryKey
      /\ lastFoundDatabases' \in [DOMAIN lastFoundDatabases' -> SUBSET SourceConn]
      /\ \A u \in DiscoveryTarget : u = t => Cached(u)' = found
      /\ NamesUnambiguous => \A u \in DiscoveryTarget : Cached(u)' = IF u = t THEN found ELSE Cached(u)
  BY <1>1, <1>2, <1>4, <1>6, Remember
<1>10. TypeOK'  BY <1>1, <1>2, <1>4, <1>6, <1>9 DEF TypeOK, envVars
<1>11. AsksForItself(s)  BY <1>1, <1>4, <1>9 DEF AsksForItself, envVars
<1>12. \A r \in Source : r # s => Spared(s, r)  BY <1>1, <1>2 DEF Spared, TypeOK
<1>13. Phase(s)'
  BY <1>1, <1>2, <1>3 DEF Phase, TypeOK, envVars
<1>14. Cached(OwnTarget(s))' = found
  <2>1. \A u \in DiscoveryTarget : u = t => Cached(OwnTarget(s))' = Cached(u)'
    BY <1>8 DEF Cached, postgresDiscoveryKeyOf
  <2> QED  BY <1>4, <1>9, <2>1
<1>15. Resolved(s)'
  <2>1. result'[s] = found /\ t \in answered' /\ config'[s] = config[s]
    BY <1>1, <1>2 DEF TypeOK, envVars
  <2>2. \A o \in result'[s] : Suits(o, config'[s].conn, config'[s].pattern)  BY <1>6, <2>1
  <2> QED  BY <1>2, <1>8, <1>14, <2>1, <2>2 DEF Resolved, Suits
<1> QED  BY <1>1, <1>2, <1>7, <1>10, <1>11, <1>12, <1>13, <1>15, OneSourceSteps DEF envVars

LEMMA DiscoveryFailsInv ==
  ASSUME IInv, NEW s \in Source, DiscoveryFails(s) PROVE IInv'
<1> DEFINE t == OwnTarget(s)
<1>1. /\ s \in PgDiscovery /\ pc[s] = "start" /\ pc' = [pc EXCEPT ![s] = "done"]
      /\ \/ Cached(t) # {} /\ result' = [result EXCEPT ![s] = Cached(t)] /\ failed' = failed
         \/ Cached(t) = {} /\ result' = result /\ failed' = failed \cup {s}
      /\ UNCHANGED <<envVars, cacheVars, todo, monitored, histVars>>
  BY DEF DiscoveryFails, OwnTarget, HasFallback
<1>2. TypeOK /\ Phase(s) /\ s \notin Patroni /\ s \notin Plain /\ CacheOfKeys
  BY <1>1, Kinds DEF IInv
<1>3. config[s] # NoConfig /\ result[s] = {}  BY <1>1, <1>2 DEF Phase
<1>4. t \in DiscoveryTarget  BY <1>1, <1>2, <1>3, TargetsAreKeys
<1>5. Cached(t) \subseteq SourceConn /\ \A o \in Cached(t) : Suits(o, config[s].conn, config[s].pattern)
  BY <1>2, <1>4, CachedIsList, CachedSuits DEF OwnTarget, Target
<1>6. OwnTarget(s)' = t  BY <1>1 DEF OwnTarget, envVars
<1>7. CacheOfKeys' /\ \A u \in DiscoveryTarget : Cached(u)' = Cached(u)
  BY <1>1, <1>2, CacheStays DEF cacheVars
<1> HIDE DEF t
<1>8. TypeOK'
  BY <1>1, <1>2, <1>5 DEF TypeOK, envVars, cacheVars, histVars
<1>9. AsksForItself(s)  BY <1>1, <1>7 DEF AsksForItself, envVars, histVars
<1>10. \A r \in Source : r # s => Spared(s, r)
  BY <1>1, <1>2 DEF Spared, TypeOK, cacheVars, histVars
<1>11. Phase(s)'
  BY <1>1, <1>2, <1>3 DEF Phase, TypeOK, envVars, histVars
<1>12. Cached(OwnTarget(s))' = Cached(t)
  BY <1>4, <1>6, <1>7 DEF Cached, postgresDiscoveryKeyOf
<1>13. Resolved(s)'
  <2>1. result'[s] = Cached(t) /\ (s \in failed' \/ result'[s] # {})
    BY <1>1, <1>2, <1>3 DEF TypeOK
  <2>2. \A o \in result'[s] : Suits(o, config'[s].conn, config'[s].pattern)
    BY <1>1, <1>5, <2>1 DEF envVars
  <2> QED  BY <1>2, <1>12, <2>1, <2>2 DEF Resolved, Suits
<1> QED  BY <1>1, <1>2, <1>7, <1>8, <1>9, <1>10, <1>11, <1>13, OneSourceSteps DEF envVars

LEMMA ResolvePlainInv ==
  ASSUME IInv, NEW s \in Source, ResolvePlain(s) PROVE IInv'
<1> DEFINE o == [name |-> <<s>>, conn |-> config[s].conn, connStr |-> config[s].conn,
                 pattern |-> config[s].pattern, master |-> config[s].master]
<1>1. /\ s \in Plain /\ pc[s] = "start" /\ pc' = [pc EXCEPT ![s] = "done"]
      /\ result' = [result EXCEPT ![s] = {o}]
      /\ UNCHANGED <<envVars, cacheVars, todo, failed, monitored, histVars>>
  BY DEF ResolvePlain
<1>2. TypeOK /\ Phase(s) /\ s \notin Patroni /\ s \notin PgDiscovery /\ CacheOfKeys
  BY <1>1, Kinds DEF IInv
<1>3. config[s] # NoConfig  BY <1>1, <1>2 DEF Phase
<1>4. config[s] \in Config /\ config[s] \in Choices[s]
  BY <1>2, <1>3, DiscoveryAssumption DEF TypeOK
<1>5. o \in SourceConn /\ o.name = <<s>>
  <2>1. <<s>> \in DatabaseNames  BY <1>1 DEF DatabaseNames
  <2> QED  BY <1>1, <1>4, <2>1, DiscoveryAssumption DEF SourceConn
<1>6. CacheOfKeys' /\ \A u \in DiscoveryTarget : Cached(u)' = Cached(u)
  BY <1>1, <1>2, CacheStays DEF cacheVars
<1> HIDE DEF o
<1>7. TypeOK'
  BY <1>1, <1>2, <1>5 DEF TypeOK, envVars, cacheVars, histVars
<1>8. AsksForItself(s)  BY <1>1, <1>6 DEF AsksForItself, envVars, histVars
<1>9. \A r \in Source : r # s => Spared(s, r)
  BY <1>1, <1>2 DEF Spared, TypeOK, cacheVars, histVars
<1>10. Phase(s)'
  BY <1>1, <1>2, <1>3 DEF Phase, TypeOK, envVars, histVars
<1>11. Resolved(s)'
  <2>1. result'[s] = {o}  BY <1>1, <1>2 DEF TypeOK
  <2> QED  BY <1>2, <1>5, <2>1 DEF Resolved, Names
<1> QED  BY <1>1, <1>2, <1>6, <1>7, <1>8, <1>9, <1>10, <1>11, OneSourceSteps DEF envVars

LEMMA HostConfigFailsInv ==
  ASSUME IInv, NEW s \in Source, HostConfigFails(s) PROVE IInv'
<1>1. /\ s \in Patroni /\ pc[s] = "start" /\ pc' = [pc EXCEPT ![s] = "done"]
      /\ failed' = failed \cup {s}
      /\ UNCHANGED <<envVars, cacheVars, todo, result, monitored, histVars>>
  BY DEF HostConfigFails
<1>2. TypeOK /\ Phase(s) /\ MembersKnown(s) /\ s \notin PgDiscovery /\ s \notin Plain /\ CacheOfKeys
  BY <1>1, Kinds DEF IInv
<1>3. config[s] # NoConfig /\ result[s] = {} /\ listed[s] = {}  BY <1>1, <1>2 DEF Phase
<1>4. CacheOfKeys' /\ \A u \in DiscoveryTarget : Cached(u)' = Cached(u)
  BY <1>1, <1>2, CacheStays DEF cacheVars
<1>5. TypeOK'
  BY <1>1, <1>2 DEF TypeOK, envVars, cacheVars, histVars
<1>6. AsksForItself(s)  BY <1>1, <1>4 DEF AsksForItself, envVars, histVars
<1>7. \A r \in Source : r # s => Spared(s, r)
  BY <1>1, <1>2 DEF Spared, TypeOK, cacheVars, histVars
<1>8. Phase(s)'
  BY <1>1, <1>2, <1>3 DEF Phase, TypeOK, envVars, histVars
<1>9. Resolved(s)'
  <2>1. result'[s] = {} /\ listed'[s] = {}  BY <1>1, <1>3 DEF histVars
  <2> QED  BY <1>2, <2>1 DEF Resolved, Covered
<1>10. MembersKnown(s)'
  BY <1>1, <1>2 DEF MembersKnown, Unambiguous, Trusted, NamesUnambiguous, OneScope, OneAddress, envVars, cacheVars, histVars
<1> QED  BY <1>1, <1>4, <1>5, <1>6, <1>7, <1>8, <1>9, <1>10, OneSourceSteps DEF envVars
-----------------------------------------------------------------------------
(* Steps of a Patroni source.                                              *)

\* The loop begins over members each of which is known once.
LEMMA BeginMembersInv ==
  ASSUME IInv, NEW s \in Patroni, NEW ms \in SUBSET Member, BeginMembers(s, ms),
         pc[s] = "start", Supported(config[s].conn), Unambiguous(ms),
         UNCHANGED <<envVars, lastFoundDatabases, result, failed, monitored, inherited, answered>>,
         TypeOK', \A r \in Source : r # s => Spared(s, r),
         lastFoundClusterMembers'[s] = ms,
         s \notin inherited \ dcsAnswered' => \A m \in ms : m.scope \in config[s].conn.scopes,
         OneAddress => \A m \in ms, c \in Choices[s] : m.scope \in c.conn.scopes
  PROVE  IInv'
<1>1. /\ listed'[s] \subseteq ms /\ todo'[s] = listed'[s] /\ pc'[s] = "members"
  BY Kinds DEF BeginMembers, IInv, TypeOK
<1>2. TypeOK /\ Phase(s) /\ s \in Source /\ s \notin PgDiscovery /\ s \notin Plain /\ CacheOfKeys
  BY Kinds DEF IInv
<1>3. config[s] # NoConfig /\ result[s] = {} /\ s \notin failed  BY <1>2 DEF Phase
<1>4. CacheOfKeys' /\ \A u \in DiscoveryTarget : Cached(u)' = Cached(u)
  BY <1>2, CacheStays
<1>5. AsksForItself(s)  BY <1>4 DEF AsksForItself, envVars
<1>6. Phase(s)'  BY <1>1, <1>2, <1>3 DEF Phase, envVars
<1>7. Resolved(s)'
  <2>1. listed'[s] \ todo'[s] = {} /\ result'[s] = {}  BY <1>1, <1>3
  <2> QED  BY <1>2, <2>1 DEF Resolved, Covered
<1>8. MembersKnown(s)'
  <2>1. config' = config /\ inherited' = inherited  BY DEF envVars
  <2>2. config[s] \in Choices[s]  BY <1>2, <1>3 DEF TypeOK
  <2>3. s \notin inherited' \ dcsAnswered' => \A m \in ms : m.scope \in config'[s].conn.scopes  BY <2>1
  <2>4. Trusted(s)' => \A m \in ms : m.scope \in config'[s].conn.scopes
    BY <2>1, <2>2 DEF Trusted
  <2>5. Unambiguous(listed[s])'  BY <1>1 DEF Unambiguous
  <2>6. Unambiguous(lastFoundClusterMembers[s])'  BY DEF Unambiguous
  <2>7. OneAddress' <=> OneAddress  BY DEF OneAddress
  <2>8. ms # NoMembers  BY DiscoveryAssumption
  <2> QED  BY <1>1, <2>3, <2>4, <2>5, <2>6, <2>7, <2>8 DEF MembersKnown
<1> QED  BY <1>2, <1>4, <1>5, <1>6, <1>7, <1>8, OneSourceSteps DEF envVars
LEMMA DcsAnswersInv ==
  ASSUME IInv, NEW s \in Source, DcsAnswers(s) PROVE IInv'
<1> DEFINE ms == ClusterMembers(config[s].conn)
<1>1. /\ s \in Patroni /\ pc[s] = "start" /\ Supported(config[s].conn) /\ BeginMembers(s, ms)
      /\ lastFoundClusterMembers' = [lastFoundClusterMembers EXCEPT ![s] = ms]
      /\ dcsAnswered' = dcsAnswered \cup {s}
      /\ UNCHANGED <<envVars, lastFoundDatabases, result, failed, monitored, inherited, answered>>
  BY DEF DcsAnswers
<1>2. TypeOK /\ Phase(s) /\ Unambiguous(dcs)  BY DEF IInv
<1>3. config[s] # NoConfig  BY <1>1, <1>2 DEF Phase
<1>4. ms \subseteq Member /\ Unambiguous(ms) /\ \A m \in ms : m.scope \in config[s].conn.scopes
  BY <1>2 DEF ClusterMembers, Unambiguous, TypeOK
<1>5. OneAddress => \A m \in ms, c \in Choices[s] : m.scope \in c.conn.scopes
  <2>1. Choices[s] \subseteq Config /\ config[s] \in Choices[s]
    BY <1>2, <1>3, DiscoveryAssumption DEF TypeOK
  <2> QED  BY <1>1, <1>4, <2>1 DEF OneAddress
<1> HIDE DEF ms
<1>6. /\ listed' = [listed EXCEPT ![s] = listed'[s]] /\ listed'[s] \subseteq ms
      /\ todo' = [todo EXCEPT ![s] = listed'[s]] /\ pc' = [pc EXCEPT ![s] = "members"]
  BY <1>1, <1>2 DEF BeginMembers, TypeOK
<1>7. TypeOK'  BY <1>1, <1>2, <1>4, <1>6 DEF TypeOK, envVars
<1>8. \A r \in Source : r # s => Spared(s, r)  BY <1>1, <1>2, <1>6 DEF Spared, TypeOK
<1>9. lastFoundClusterMembers'[s] = ms  BY <1>1, <1>2 DEF TypeOK
<1> QED  BY <1>1, <1>4, <1>5, <1>7, <1>8, <1>9, BeginMembersInv

LEMMA DcsFailsInv ==
  ASSUME IInv, NEW s \in Source, DcsFails(s) PROVE IInv'
<1> DEFINE ms == lastFoundClusterMembers[s]
<1>1. /\ s \in Patroni /\ pc[s] = "start" /\ Supported(config[s].conn)
      /\ UNCHANGED <<envVars, cacheVars, result, monitored, inherited, dcsAnswered, answered>>
  BY DEF DcsFails
<1>2. /\ TypeOK /\ Phase(s) /\ MembersKnown(s) /\ CacheOfKeys
      /\ s \notin PgDiscovery /\ s \notin Plain
  BY <1>1, Kinds DEF IInv
<1>3. config[s] # NoConfig /\ result[s] = {} /\ listed[s] = {} /\ todo[s] = {} /\ s \notin dcsAnswered
  BY <1>1, <1>2 DEF Phase
<1>4. CASE ms # NoMembers
  <2>1. ms \in SUBSET Member /\ Unambiguous(ms)  BY <1>1, <1>2, <1>4 DEF MembersKnown, TypeOK
  <2>2. BeginMembers(s, ms) /\ failed' = failed  BY <1>4 DEF DcsFails
  <2>3. s \notin inherited \ dcsAnswered' => \A m \in ms : m.scope \in config[s].conn.scopes
    BY <1>1, <1>2, <1>3, <1>4 DEF MembersKnown
  <2>4. OneAddress => \A m \in ms, c \in Choices[s] : m.scope \in c.conn.scopes
    BY <1>2, <1>4 DEF MembersKnown
  <2>5. lastFoundClusterMembers'[s] = ms  BY <1>1 DEF cacheVars
  <2> HIDE DEF ms
  <2>6. /\ listed' = [listed EXCEPT ![s] = listed'[s]] /\ listed'[s] \subseteq ms
        /\ todo' = [todo EXCEPT ![s] = listed'[s]] /\ pc' = [pc EXCEPT ![s] = "members"]
    BY <1>1, <1>2, <2>2 DEF BeginMembers, TypeOK
  <2>7. TypeOK'  BY <1>1, <1>2, <2>1, <2>2, <2>6 DEF TypeOK, envVars, cacheVars
  <2>8. \A r \in Source : r # s => Spared(s, r)
    BY <1>1, <1>2, <2>2, <2>6 DEF Spared, TypeOK, cacheVars
  <2> QED  BY <1>1, <2>1, <2>2, <2>3, <2>4, <2>5, <2>7, <2>8, BeginMembersInv DEF cacheVars
<1>5. CASE ms = NoMembers /\ failed' = failed \cup {s} /\ pc' = [pc EXCEPT ![s] = "done"]
           /\ UNCHANGED <<todo, listed>>
  <2>1. CacheOfKeys' /\ \A u \in DiscoveryTarget : Cached(u)' = Cached(u)
    BY <1>1, <1>2, CacheStays DEF cacheVars
  <2>2. TypeOK'  BY <1>1, <1>2, <1>5 DEF TypeOK, envVars, cacheVars
  <2>3. AsksForItself(s)  BY <1>1, <2>1 DEF AsksForItself, envVars
  <2>4. \A r \in Source : r # s => Spared(s, r)
    BY <1>1, <1>2, <1>5 DEF Spared, TypeOK, cacheVars
  <2>5. Phase(s)'  BY <1>1, <1>2, <1>3, <1>5 DEF Phase, TypeOK, envVars
  <2>6. Resolved(s)'
    <3>1. result'[s] = {} /\ listed'[s] = {}  BY <1>1, <1>3, <1>5
    <3> QED  BY <1>2, <3>1 DEF Resolved, Covered
  <2>7. MembersKnown(s)'
    BY <1>1, <1>2, <1>5 DEF MembersKnown, Unambiguous, Trusted, NamesUnambiguous, OneScope, OneAddress, envVars, cacheVars
  <2> QED  BY <1>1, <2>1, <2>2, <2>3, <2>4, <2>5, <2>6, <2>7, OneSourceSteps DEF envVars
<1> QED  BY <1>4, <1>5 DEF DcsFails

\* A member is done: what the cache now holds of it is added to the result.
LEMMA MemberDone ==
  ASSUME IInv, NEW s \in Patroni, NEW m \in Member, pc[s] = "members", m \in todo[s],
         todo' = [todo EXCEPT ![s] = @ \ {m}], TypeOK', CacheOfKeys',
         NEW added, result' = [result EXCEPT ![s] = @ \cup added],
         NamesUnambiguous => \A u \in DiscoveryTarget :
           Cached(u)' = IF u = MemberTarget(s, m) THEN added ELSE Cached(u),
         UNCHANGED <<envVars, lastFoundClusterMembers, pc, failed, monitored, inherited, listed, dcsAnswered>>,
         answered' \in {answered, answered \cup {MemberTarget(s, m)}}
  PROVE  IInv'
<1> DEFINE t == MemberTarget(s, m)
<1>1. /\ TypeOK /\ Phase(s) /\ MembersKnown(s) /\ Resolved(s)
      /\ s \in Source /\ s \notin PgDiscovery /\ s \notin Plain
  BY Kinds DEF IInv
<1>2. config[s] # NoConfig /\ s \notin failed  BY <1>1 DEF Phase
<1>3. t \in DiscoveryTarget /\ t.name[1] = s
  BY <1>1, <1>2, TargetsAreKeys, MemberNames DEF MemberTarget, Target
<1>4. todo'[s] = todo[s] \ {m} /\ result'[s] = result[s] \cup added  BY <1>1 DEF TypeOK
<1>5. AsksForItself(s)  BY <1>3 DEF AsksForItself, envVars
<1>6. \A r \in Source : r # s => Spared(s, r)  BY <1>1 DEF Spared, TypeOK
<1>7. Phase(s)'  BY <1>1, <1>2 DEF Phase, envVars
<1>8. config' = config /\ (Trusted(s)' <=> Trusted(s))
  BY DEF Trusted, NamesUnambiguous, OneScope, OneAddress, envVars
<1>9. MembersKnown(s)'
  BY <1>1, <1>4, <1>8 DEF MembersKnown, Unambiguous, OneAddress
<1>10. ASSUME Trusted(s)
       PROVE  result'[s] = UNION {Cached(MemberTarget(s, n))' : n \in listed[s] \ (todo[s] \ {m})}
  <2>1. result[s] = UNION {Cached(MemberTarget(s, n)) : n \in listed[s] \ todo[s]}
    BY <1>1, <1>10 DEF Resolved
  <2>2. listed[s] \subseteq Member /\ m \in listed[s]  BY <1>1 DEF TypeOK, MembersKnown
  <2>3. ASSUME NEW n \in listed[s], n # m PROVE MemberTarget(s, n) # t
    <3>1. SUFFICES ASSUME MemberName(s, n) = MemberName(s, m) PROVE FALSE
      BY DEF MemberTarget, Target
    <3>2. m.scope \in config[s].conn.scopes /\ n.scope \in config[s].conn.scopes
      BY <1>1, <1>10, <2>2 DEF MembersKnown
    <3>3. n.scope = m.scope /\ n.name = m.name
      BY <1>1, <1>2, <1>10, <2>2, <3>1, <3>2, OneMember DEF Trusted
    <3> QED  BY <1>1, <2>2, <2>3, <3>3 DEF MembersKnown, Unambiguous
  <2>4. ASSUME NEW n \in listed[s]
        PROVE  Cached(MemberTarget(s, n))' = IF n = m THEN added ELSE Cached(MemberTarget(s, n))
    <3>1. MemberTarget(s, n)' = MemberTarget(s, n)  BY <1>8 DEF MemberTarget, MemberName
    <3>2. MemberTarget(s, n) \in DiscoveryTarget  BY <1>1, <1>2, <2>2, TargetsAreKeys
    <3>3. \A u \in DiscoveryTarget :
            u = MemberTarget(s, n) => Cached(MemberTarget(s, n))' = Cached(u)'
      BY <3>1 DEF Cached, postgresDiscoveryKeyOf
    <3> HIDE DEF t
    <3>4. NamesUnambiguous  BY <1>10 DEF Trusted
    <3> QED  BY <2>3, <3>2, <3>3, <3>4 DEF t
  <2>5. listed[s] \ (todo[s] \ {m}) = (listed[s] \ todo[s]) \cup {m}  BY <2>2
  <2> QED  BY <1>4, <2>1, <2>2, <2>4, <2>5
<1>11. ASSUME NamesUnambiguous PROVE Covered(s)'
  <2> SUFFICES ASSUME NEW n \in listed[s] \ (todo[s] \ {m})
               PROVE  (MemberTarget(s, n) \in answered)' \/ Cached(MemberTarget(s, n))' \subseteq result'[s]
    BY <1>4 DEF Covered
  <2>1. n \in Member /\ MemberTarget(s, n)' = MemberTarget(s, n)
    BY <1>1, <1>8 DEF TypeOK, MemberTarget, MemberName
  <2>2. MemberTarget(s, n) \in DiscoveryTarget  BY <1>1, <1>2, <2>1, TargetsAreKeys
  <2>3. \A u \in DiscoveryTarget :
          u = MemberTarget(s, n) => Cached(MemberTarget(s, n))' = Cached(u)'
    BY <2>1 DEF Cached, postgresDiscoveryKeyOf
  <2> HIDE DEF t
  <2>4. Cached(MemberTarget(s, n))' = IF MemberTarget(s, n) = t THEN added ELSE Cached(MemberTarget(s, n))
    BY <1>11, <2>2, <2>3 DEF t
  <2>5. CASE MemberTarget(s, n) = t  BY <1>4, <2>4, <2>5
  <2>6. CASE MemberTarget(s, n) # t
    <3>1. n \in listed[s] \ todo[s]  BY <2>6 DEF t
    <3>2. MemberTarget(s, n) \in answered \/ Cached(MemberTarget(s, n)) \subseteq result[s]
      BY <1>1, <1>11, <3>1 DEF Resolved, Covered
    <3>3. answered \subseteq answered'  OBVIOUS
    <3> QED  BY <1>4, <2>1, <2>4, <2>6, <3>2, <3>3
  <2> QED  BY <2>5, <2>6
<1>12. Resolved(s)'
  BY <1>1, <1>4, <1>8, <1>10, <1>11 DEF Resolved, NamesUnambiguous
<1> QED  BY <1>1, <1>5, <1>6, <1>7, <1>9, <1>12, OneSourceSteps DEF envVars
LEMMA MemberSucceedsInv ==
  ASSUME IInv, NEW s \in Patroni, NEW m \in Member, MemberSucceeds(s, m) PROVE IInv'
<1> DEFINE t == MemberTarget(s, m)
           found == DiscoveryQuery(t, config[s].master)
<1>1. /\ pc[s] = "members" /\ m \in todo[s] /\ RememberDatabases(t, found)
      /\ result' = [result EXCEPT ![s] = @ \cup found]
      /\ todo' = [todo EXCEPT ![s] = @ \ {m}] /\ answered' = answered \cup {t}
      /\ UNCHANGED <<envVars, lastFoundClusterMembers, pc, failed, monitored,
                     inherited, listed, dcsAnswered>>
  BY DEF MemberSucceeds, FreshList
<1>2. TypeOK /\ Phase(s) /\ s \in Source  BY Kinds DEF IInv
<1>3. config[s] # NoConfig  BY <1>1, <1>2 DEF Phase
<1>4. t \in DiscoveryTarget /\ t.name[1] = s
  BY <1>2, <1>3, TargetsAreKeys, MemberNames DEF MemberTarget, Target
<1>5. config[s].master \in BOOLEAN  BY <1>2, <1>3, DiscoveryAssumption DEF TypeOK
<1>6. found \in SUBSET SourceConn  BY <1>2, <1>4, <1>5, FoundFits
<1>7. CacheOfKeys'  BY <1>1, <1>4, <1>5, CacheGrows
<1> HIDE DEF t, found
<1>8. /\ DOMAIN lastFoundDatabases' \subseteq postgresDiscoveryKey
      /\ lastFoundDatabases' \in [DOMAIN lastFoundDatabases' -> SUBSET SourceConn]
      /\ NamesUnambiguous => \A u \in DiscoveryTarget : Cached(u)' = IF u = t THEN found ELSE Cached(u)
  BY <1>1, <1>2, <1>4, <1>6, Remember
<1>9. TypeOK'  BY <1>1, <1>2, <1>4, <1>6, <1>8 DEF TypeOK, envVars
<1> QED  BY <1>1, <1>7, <1>8, <1>9, MemberDone DEF t

LEMMA MemberFailsInv ==
  ASSUME IInv, NEW s \in Patroni, NEW m \in Member, MemberFails(s, m) PROVE IInv'
<1> DEFINE t == MemberTarget(s, m)
<1>1. /\ pc[s] = "members" /\ m \in todo[s]
      /\ result' = [result EXCEPT ![s] = @ \cup Cached(t)]
      /\ todo' = [todo EXCEPT ![s] = @ \ {m}]
      /\ UNCHANGED <<envVars, cacheVars, pc, failed, monitored, histVars>>
  BY DEF MemberFails, HasFallback
<1>2. TypeOK /\ Phase(s) /\ s \in Source /\ CacheOfKeys  BY Kinds DEF IInv
<1>3. config[s] # NoConfig  BY <1>1, <1>2 DEF Phase
<1>4. t \in DiscoveryTarget  BY <1>2, <1>3, TargetsAreKeys
<1>5. Cached(t) \subseteq SourceConn  BY <1>2, <1>4, CachedIsList
<1>6. CacheOfKeys' /\ \A u \in DiscoveryTarget : Cached(u)' = Cached(u)
  BY <1>1, <1>2, CacheStays DEF cacheVars
<1> HIDE DEF t
<1>7. TypeOK'  BY <1>1, <1>2, <1>5 DEF TypeOK, envVars, cacheVars, histVars
<1>8. \A u \in DiscoveryTarget : Cached(u)' = IF u = t THEN Cached(t) ELSE Cached(u)
  BY <1>6
<1>9. UNCHANGED <<envVars, lastFoundClusterMembers, pc, failed, monitored, inherited, listed, dcsAnswered>>
      /\ answered' = answered
  BY <1>1 DEF cacheVars, histVars
<1> QED  BY <1>1, <1>6, <1>7, <1>8, <1>9, MemberDone DEF t

LEMMA MembersDoneInv ==
  ASSUME IInv, NEW s \in Source, MembersDone(s) PROVE IInv'
<1>1. /\ pc[s] = "members" /\ todo[s] = {} /\ pc' = [pc EXCEPT ![s] = "done"]
      /\ UNCHANGED <<envVars, cacheVars, todo, result, failed, monitored, histVars>>
  BY DEF MembersDone
<1>2. TypeOK /\ Phase(s) /\ Resolved(s) /\ CacheOfKeys  BY DEF IInv
<1>3. s \in Patroni /\ config[s] # NoConfig /\ s \notin PgDiscovery /\ s \notin Plain
  BY <1>1, <1>2, Kinds DEF Phase
<1>4. MembersKnown(s)  BY <1>3 DEF IInv
<1>5. CacheOfKeys' /\ \A u \in DiscoveryTarget : Cached(u)' = Cached(u)
  BY <1>1, <1>2, CacheStays DEF cacheVars
<1>6. TypeOK'  BY <1>1, <1>2 DEF TypeOK, envVars, cacheVars, histVars
<1>7. AsksForItself(s)  BY <1>1, <1>5 DEF AsksForItself, envVars, histVars
<1>8. \A r \in Source : r # s => Spared(s, r)
  BY <1>1, <1>2 DEF Spared, TypeOK, cacheVars, histVars
<1>9. Phase(s)'  BY <1>1, <1>2, <1>3 DEF Phase, TypeOK, envVars, histVars
<1>10. Trusted(s)' <=> Trusted(s)
  BY <1>1 DEF Trusted, NamesUnambiguous, OneScope, OneAddress, histVars
<1>11. MembersKnown(s)'
  BY <1>1, <1>4, <1>10 DEF MembersKnown, Unambiguous, OneAddress, envVars, cacheVars, histVars
<1>12. Resolved(s)'
  <2>1. UNCHANGED <<config, lastFoundDatabases>>  BY <1>1 DEF envVars, cacheVars
  <2>2. \A m \in Member : MemberTarget(s, m)' = MemberTarget(s, m)
    BY <2>1 DEF MemberTarget, MemberName, Target
  <2>3. \A u : Cached(u)' = Cached(u)  BY <2>1 DEF Cached, postgresDiscoveryKeyOf
  <2>4. listed' = listed /\ todo' = todo /\ result' = result  BY <1>1 DEF histVars
  <2>5. listed[s] \subseteq Member  BY <1>2, <1>3 DEF TypeOK
  <2>6. \A m \in listed[s] \ todo[s] : Cached(MemberTarget(s, m))' = Cached(MemberTarget(s, m))
    BY <2>1, <2>2, <2>3, <2>5 DEF Cached, postgresDiscoveryKeyOf
  <2>7. Trusted(s) =>
          result[s] = UNION {Cached(MemberTarget(s, m)) : m \in listed[s] \ todo[s]}
    BY <1>2, <1>3 DEF Resolved
  <2>8. Trusted(s)' =>
          result'[s] = UNION {Cached(MemberTarget(s, m))' : m \in listed'[s] \ todo'[s]}
    BY <1>10, <2>4, <2>6, <2>7
  <2>9. NamesUnambiguous => Covered(s)'
    <3>1. NamesUnambiguous => Covered(s)  BY <1>2, <1>3 DEF Resolved
    <3>2. \A m \in listed[s] : MemberTarget(s, m)' = MemberTarget(s, m)  BY <2>2, <2>5
    <3>3. answered' = answered  BY <1>1 DEF histVars
    <3> QED  BY <2>4, <2>6, <3>1, <3>2, <3>3 DEF Covered
  <2> QED  BY <1>3, <2>8, <2>9 DEF Resolved, NamesUnambiguous
<1> QED  BY <1>1, <1>5, <1>6, <1>7, <1>8, <1>9, <1>11, <1>12, OneSourceSteps DEF envVars

-----------------------------------------------------------------------------
(* The environment and the ends of a round.                                *)

\* No source has anything between two rounds.
LEMMA BetweenRounds ==
  ASSUME IInv, TypeOK', CacheOfKeys', Unambiguous(dcs)',
         \A s \in Source : result'[s] = {} /\ pc'[s] \in {"idle", "start", "done"},
         \A s \in Source : pc'[s] = "start" => config'[s] # NoConfig,
         \A s \in Source : pc'[s] = "done" => config'[s] = NoConfig,
         \A s \in Patroni : listed'[s] = {} /\ todo'[s] = {},
         failed' = {}, dcsAnswered' = {}, answered' = {},
         lastFoundClusterMembers' = lastFoundClusterMembers,
         \A s \in Patroni \ inherited' : config'[s] = config[s] /\ s \notin inherited \ dcsAnswered
  PROVE  IInv'
<1>1. ASSUME NEW s \in Patroni PROVE MembersKnown(s)'
  <2>1. MembersKnown(s) /\ s \in Source /\ Phase(s) /\ TypeOK  BY Kinds DEF IInv
  <2>2. lastFoundClusterMembers[s] # NoMembers /\ s \notin inherited' =>
          \A m \in lastFoundClusterMembers[s] : m.scope \in config'[s].conn.scopes
    BY <2>1 DEF MembersKnown
  <2> QED  BY <2>1, <2>2 DEF MembersKnown, Unambiguous, OneAddress
<1>2. ASSUME NEW s \in Source PROVE Phase(s)' /\ Resolved(s)'
  BY DEF Phase, Resolved, Covered
<1> QED  BY <1>1, <1>2 DEF IInv
LEMMA InitInv == Init => IInv
<1> SUFFICES ASSUME Init PROVE IInv  OBVIOUS
<1>1. TypeOK
  <2>1. config \in [Source -> Config \cup {NoConfig}] /\ \A s \in Source : config[s] \in Choices[s] \cup {NoConfig}
    BY DEF Init
  <2>2. DOMAIN lastFoundDatabases = {} /\ lastFoundDatabases \in [{} -> SUBSET SourceConn]
    BY DEF Init
  <2>3. dcs \subseteq Member /\ dbs \in [Server -> SUBSET Db] /\ changes \in 0..MaxChanges
    BY DiscoveryAssumption DEF Init
  <2> QED  BY <2>1, <2>2, <2>3 DEF Init, TypeOK
<1>2. Unambiguous(dcs)  BY DEF Init, Unambiguous
<1>3. CacheOfKeys
  <2>1. DOMAIN lastFoundDatabases = {}  BY DEF Init
  <2>2. \A u : Cached(u) = {}  BY <2>1 DEF Cached
  <2> QED  BY <2>1, <2>2 DEF CacheOfKeys
<1>4. \A s \in Patroni : MembersKnown(s)  BY Kinds DEF Init, MembersKnown, Unambiguous
<1>5. \A s \in Source : Phase(s) /\ Resolved(s)  BY DEF Init, Phase, Resolved, Covered
<1> QED  BY <1>1, <1>2, <1>3, <1>4, <1>5 DEF IInv

LEMMA IdleEmpty ==
  ASSUME IInv, Idle
  PROVE  /\ \A s \in Source : result[s] = {} /\ pc[s] = "idle"
         /\ \A s \in Patroni : listed[s] = {} /\ todo[s] = {}
         /\ failed = {} /\ dcsAnswered = {} /\ answered = {}
<1>1. \A s \in Source : pc[s] = "idle" /\ Phase(s)  BY DEF Idle, IInv
<1>2. failed \subseteq Source /\ dcsAnswered \subseteq Source  BY Kinds DEF IInv, TypeOK
<1>3. \A t \in answered : t.name[1] \in Source  BY TargetParts DEF IInv, TypeOK, DiscoveryTarget
<1> QED  BY <1>1, <1>2, <1>3, Kinds DEF Phase

\* What resolution and its caches know does not change with the world.
LEMMA OnlyEnvironment ==
  ASSUME IInv, TypeOK', Unambiguous(dcs)', UNCHANGED <<config, cacheVars, roundVars, histVars>>
  PROVE  IInv'
<1>1. CacheOfKeys'  BY CacheStays DEF IInv, cacheVars
<1>2. ASSUME NEW s \in Patroni PROVE MembersKnown(s)'
  BY DEF IInv, MembersKnown, Unambiguous, Trusted, NamesUnambiguous, OneScope, OneAddress, cacheVars, roundVars, histVars
<1>3. ASSUME NEW s \in Source PROVE Phase(s)'  BY DEF IInv, Phase, roundVars, histVars
<1>4. ASSUME NEW s \in Source PROVE Resolved(s)'
  <2>1. Resolved(s)  BY DEF IInv
  <2>2. OwnTarget(s)' = OwnTarget(s) /\ Cached(OwnTarget(s))' = Cached(OwnTarget(s))
    BY DEF OwnTarget, Cached, postgresDiscoveryKeyOf, cacheVars
  <2>3. \A m : Cached(MemberTarget(s, m))' = Cached(MemberTarget(s, m))
    BY DEF MemberTarget, MemberName, Cached, postgresDiscoveryKeyOf, cacheVars
  <2>4. s \in Patroni => (Trusted(s)' <=> Trusted(s))
    BY DEF Trusted, NamesUnambiguous, OneScope, OneAddress, histVars
  <2>5. config'[s] = config[s] /\ pc'[s] = pc[s] /\ result'[s] = result[s] /\ answered' = answered
        /\ failed' = failed /\ (s \in Patroni => listed'[s] = listed[s] /\ todo'[s] = todo[s])
    BY DEF roundVars, histVars
  <2>6. s \in Patroni => (Covered(s) => Covered(s)')
    <3>1. \A m : MemberTarget(s, m)' = MemberTarget(s, m)  BY DEF MemberTarget, MemberName
    <3> QED  BY <2>3, <2>5, <3>1 DEF Covered
  <2> QED  BY <2>1, <2>2, <2>3, <2>4, <2>5, <2>6 DEF Resolved, Names, Suits, NamesUnambiguous
<1> QED  BY <1>1, <1>2, <1>3, <1>4 DEF IInv

LEMMA EnvironmentInv == ASSUME IInv, Environment PROVE IInv'
<1>1. TypeOK /\ CacheOfKeys /\ Unambiguous(dcs)  BY DEF IInv
<1>2. ASSUME NEW s \in Source, EditConfig(s) PROVE IInv'
  <2>1. PICK c \in Choices[s] \cup {NoConfig} : config' = [config EXCEPT ![s] = c]
    BY <1>2 DEF EditConfig
  <2>2. /\ Idle /\ Change /\ edited' = edited \cup {s} /\ inherited' = inherited \cup ({s} \cap Patroni)
        /\ UNCHANGED <<dcs, dbs, disturbed, cacheVars, roundVars, monitored, listed, dcsAnswered, answered>>
    BY <1>2 DEF EditConfig
  <2>3. TypeOK'
    <3>1. config' \in [Source -> Config \cup {NoConfig}] /\ \A r \in Source : config'[r] \in Choices[r] \cup {NoConfig}
      BY <1>1, <2>1, DiscoveryAssumption DEF TypeOK
    <3> QED  BY <1>1, <2>2, <3>1, DiscoveryAssumption DEF TypeOK, Change, cacheVars, roundVars
  <2>4. CacheOfKeys' /\ Unambiguous(dcs)'
    BY <1>1, <2>2, CacheStays DEF cacheVars, Unambiguous
  <2>5. \A r \in Patroni \ inherited' : config'[r] = config[r] /\ r \notin inherited
    BY <1>1, <2>1, <2>2, Kinds DEF TypeOK
  <2> QED  BY <2>2, <2>3, <2>4, <2>5, IdleEmpty, BetweenRounds DEF cacheVars, roundVars
<1>3. ASSUME NEW v \in Server, NEW d \in Db, DatabaseChanges(v, d) PROVE IInv'
  <2>1. /\ Change /\ dbs' = [dbs EXCEPT ![v] = IF d \in @ THEN @ \ {d} ELSE @ \cup {d}]
        /\ disturbed' = TRUE
        /\ UNCHANGED <<config, dcs, edited, cacheVars, roundVars, monitored, histVars>>
    BY <1>3 DEF DatabaseChanges
  <2>2. TypeOK'
    BY <1>1, <2>1, DiscoveryAssumption DEF TypeOK, Change, cacheVars, roundVars, histVars
  <2> QED  BY <1>1, <2>1, <2>2, OnlyEnvironment
<1>4. ASSUME NEW m \in Member, MemberChanges(m) PROVE IInv'
  <2>1. /\ Change /\ disturbed' = TRUE
        /\ \/ dcs' = dcs \ {m}
           \/ dcs' = {n \in dcs : n.scope # m.scope \/ n.name # m.name} \cup {m}
        /\ UNCHANGED <<config, dbs, edited, cacheVars, roundVars, monitored, histVars>>
    BY <1>4 DEF MemberChanges
  <2>2. TypeOK'
    BY <1>1, <2>1, DiscoveryAssumption DEF TypeOK, Change, cacheVars, roundVars, histVars
  <2>3. Unambiguous(dcs)'  BY <1>1, <2>1 DEF Unambiguous
  <2> QED  BY <2>1, <2>2, <2>3, OnlyEnvironment
<1> QED  BY <1>2, <1>3, <1>4 DEF Environment
LEMMA BeginRoundInv == ASSUME IInv, BeginRound PROVE IInv'
<1>1. /\ Idle /\ pc' = [s \in Source |-> IF s \in Configured THEN "start" ELSE "done"]
      /\ disturbed' = FALSE
      /\ UNCHANGED <<config, dcs, dbs, changes, edited, cacheVars, todo, result, failed, monitored, histVars>>
  BY DEF BeginRound
<1>2. TypeOK /\ CacheOfKeys /\ Unambiguous(dcs)  BY DEF IInv
<1>3. TypeOK'  BY <1>1, <1>2 DEF TypeOK, cacheVars, histVars
<1>4. CacheOfKeys' /\ Unambiguous(dcs)'  BY <1>1, <1>2, CacheStays DEF cacheVars, Unambiguous
<1>5. \A s \in Source : pc'[s] \in {"start", "done"} /\ (pc'[s] = "start" <=> config[s] # NoConfig)
  BY <1>1 DEF Configured
<1> QED  BY <1>1, <1>3, <1>4, <1>5, IdleEmpty, BetweenRounds DEF cacheVars, histVars

\* What LoadSources makes of what was resolved: for every object one of the same
\* name, which is it or is an equal one monitored before.
LEMMA LoadedNames ==
  ASSUME TypeOK, LoadSources
  PROVE  /\ monitored' \subseteq SourceConn
         /\ \A q \in monitored' : \E o \in ResolveDatabases :
              /\ q = o \/ (q \in monitored /\ Equal(q, o))
              /\ NamesUnambiguous => q.name = o.name
         /\ NamesUnambiguous => \A o \in ResolveDatabases : \E q \in monitored' : q.name = o.name
<1>1. monitored' = UNION {Loaded(o) : o \in ResolveDatabases}  BY DEF LoadSources
<1>2. ResolveDatabases \subseteq SourceConn /\ monitored \subseteq SourceConn
  BY DEF TypeOK, ResolveDatabases
<1>3. ASSUME NEW o \in ResolveDatabases
      PROVE  /\ Loaded(o) # {}
             /\ \A q \in Loaded(o) : /\ q = o \/ (q \in monitored /\ Equal(q, o))
                                     /\ Joined(q.name) = Joined(o.name)
  <2> DEFINE same == {p \in monitored : Joined(p.name) = Joined(o.name)}
             kept == {p \in GetMonitoredDatabase(o) : Equal(p, o)}
  <2>1. \A p \in GetMonitoredDatabase(o) : p \in same  BY DEF GetMonitoredDatabase
  <2>2. \A p \in kept : p \in monitored /\ Joined(p.name) = Joined(o.name) /\ Equal(p, o)
    BY <2>1
  <2>3. Loaded(o) = IF kept = {} THEN {o} ELSE kept  BY DEF Loaded
  <2> HIDE DEF kept
  <2> QED  BY <2>2, <2>3
<1>4. ASSUME NamesUnambiguous, NEW q \in SourceConn, NEW o \in SourceConn, Joined(q.name) = Joined(o.name)
      PROVE  q.name = o.name
  BY <1>4 DEF NamesUnambiguous, SourceConn
<1> HIDE DEF Loaded
<1> QED  BY <1>1, <1>2, <1>3, <1>4

LEMMA LoadSourcesInv == ASSUME IInv, LoadSources PROVE IInv'
<1>1. /\ \A s \in Source : pc[s] = "done"
      /\ pc' = [s \in Source |-> "idle"] /\ result' = [s \in Source |-> {}] /\ failed' = {}
      /\ UNCHANGED <<config, dcs, dbs, changes, disturbed, cacheVars, todo>>
      /\ edited' = {} /\ inherited' = inherited \ dcsAnswered
      /\ listed' = [s \in Patroni |-> {}] /\ dcsAnswered' = {} /\ answered' = {}
  BY DEF LoadSources
<1>2. TypeOK /\ CacheOfKeys /\ Unambiguous(dcs)  BY DEF IInv
<1>3. TypeOK'
  <2>1. monitored' \subseteq SourceConn  BY <1>2, LoadedNames
  <2> QED  BY <1>1, <1>2, <2>1 DEF TypeOK, cacheVars
<1>4. CacheOfKeys' /\ Unambiguous(dcs)'  BY <1>1, <1>2, CacheStays DEF cacheVars, Unambiguous
<1>5. \A s \in Patroni : todo'[s] = {} /\ listed'[s] = {}  BY <1>1, Kinds DEF IInv, Phase
<1> QED  BY <1>1, <1>3, <1>4, <1>5, BetweenRounds DEF cacheVars

LEMMA NextInv == ASSUME IInv, [Next]_vars PROVE IInv'
<1>1. ASSUME NEW s \in Source, Resolve(s) PROVE IInv'
  BY <1>1, DiscoverySucceedsInv, DiscoveryFailsInv, ResolvePlainInv, HostConfigFailsInv,
     DcsAnswersInv, DcsFailsInv, MembersDoneInv, MemberSucceedsInv, MemberFailsInv
  DEF Resolve
<1>2. CASE UNCHANGED vars
  <2>1. TypeOK'
    BY <1>2 DEF IInv, TypeOK, vars, envVars, cacheVars, roundVars, histVars
  <2>2. Unambiguous(dcs)' /\ UNCHANGED <<config, cacheVars, roundVars, histVars>>
    BY <1>2 DEF IInv, Unambiguous, vars, envVars
  <2> QED  BY <2>1, <2>2, OnlyEnvironment
<1> QED  BY <1>1, <1>2, EnvironmentInv, BeginRoundInv, LoadSourcesInv DEF Next

\* The inductive invariant holds, whichever questions fail and in whatever order
\* the goroutines of the sources step: in particular each cache entry suits its key
\* and, if joined names can be told apart, is the answer to one discovery of it,
\* and what a discovery source or a trusted Patroni source resolved to is what the
\* cache holds of its targets.
THEOREM Invariance == Spec => []IInv
<1>1. Init => IInv  BY InitInv
<1>2. IInv /\ [Next]_vars => IInv'  BY NextInv
<1> QED  BY <1>1, <1>2, PTL DEF Spec

\* A discovery source is never served databases of another server or pattern
\* than it is configured with (postgresDiscoveryKeyOf).
THEOREM ServedOnlyItsOwn == Spec => []NoForeignDatabases
<1>1. IInv => NoForeignDatabases
  <2> SUFFICES ASSUME IInv, NEW s \in PgDiscovery, pc[s] = "done", NEW o \in result[s]
               PROVE  o.conn = config[s].conn /\ o.name[Len(o.name)] \in Matches[config[s].pattern]
    BY DEF NoForeignDatabases
  <2>1. s \in Source /\ Phase(s) /\ Resolved(s)  BY Kinds DEF IInv
  <2>2. config[s] # NoConfig  BY <2>1 DEF Phase
  <2> QED  BY <2>1, <2>2 DEF Resolved, Suits
<1> QED  BY <1>1, Invariance, PTL

\* What is not reported had an answer or is served what is known of it, members of
\* Patroni sources one by one, provided that names tell the targets apart; and no
\* source that got an answer is reported.
THEOREM NoSilentFailure == ASSUME NamesUnambiguous PROVE Spec => []FailuresAreReported
<1>1. IInv => FailuresAreReported
  <2> SUFFICES ASSUME IInv, \A s \in Source : pc[s] = "done"
               PROVE  FailuresAreReported
    BY DEF FailuresAreReported
  <2>1. ASSUME NEW s \in Configured \ failed, s \in PgDiscovery, result[s] = {}
        PROVE  \E t \in answered : t.name = <<s>>
    <3>1. Resolved(s) /\ config[s] # NoConfig  BY Kinds DEF IInv, Configured
    <3>2. OwnTarget(s) \in answered  BY <2>1, <3>1, Kinds DEF Resolved
    <3> QED  BY <3>2 DEF OwnTarget, Target
  <2>2. ASSUME NEW s \in failed
        PROVE  s \notin dcsAnswered /\ \A t \in answered : t.name[1] # s
    BY DEF IInv, TypeOK, Phase
  <2>3. ASSUME NEW s \in Configured \ failed, s \in Patroni
        PROVE  /\ lastFoundClusterMembers[s] # NoMembers
               /\ \A m \in listed[s] : \/ MemberTarget(s, m) \in answered
                                       \/ Cached(MemberTarget(s, m)) \subseteq result[s]
    <3>1. /\ Resolved(s) /\ Phase(s) /\ MembersKnown(s) /\ pc[s] = "done" /\ config[s] # NoConfig
      BY <2>3, Kinds DEF IInv, Configured
    <3>2. todo[s] = {} /\ Covered(s)  BY <2>3, <3>1 DEF Phase, Resolved
    <3> QED  BY <2>3, <3>1, <3>2 DEF MembersKnown, Covered
  <2> QED  BY <2>1, <2>2, <2>3 DEF FailuresAreReported
<1> QED  BY <1>1, Invariance, PTL

\* Every member's every database has a name of its own, provided that an address
\* that names a cluster is the prefix of the keys of no other and that the parts
\* of names, joined with "_", can be told apart.
THEOREM NamesAreDistinct == ASSUME OneScope, NamesUnambiguous PROVE Spec => []DistinctNames
<1>1. IInv => DistinctNames
  <2> SUFFICES ASSUME IInv, NEW s \in Source \ (inherited \ dcsAnswered), pc[s] = "done",
                      NEW o \in result[s], NEW p \in result[s], Joined(o.name) = Joined(p.name)
               PROVE  o = p
    BY DEF DistinctNames
  <2>1. TypeOK /\ CacheOfKeys /\ Phase(s) /\ Resolved(s)  BY DEF IInv
  <2>2. config[s] # NoConfig  BY <2>1 DEF Phase
  <2>3. o.name = p.name  BY <2>1 DEF TypeOK, SourceConn, NamesUnambiguous
  <2>4. CASE s \in Plain  BY <2>1, <2>2, <2>4 DEF Resolved
  <2>5. CASE s \in PgDiscovery
    BY <2>1, <2>2, <2>3, <2>5, TargetsAreKeys, EntryNames DEF Resolved
  <2>6. CASE s \in Patroni
    <3>1. Trusted(s) /\ MembersKnown(s)  BY <2>6 DEF Trusted, IInv
    <3>2. PICK m \in listed[s] : o \in Cached(MemberTarget(s, m))  BY <2>1, <2>6, <3>1 DEF Resolved
    <3>3. PICK n \in listed[s] : p \in Cached(MemberTarget(s, n))  BY <2>1, <2>6, <3>1 DEF Resolved
    <3>4. m \in Member /\ n \in Member  BY <2>1, <2>6 DEF TypeOK
    <3>5. MemberName(s, m) = MemberName(s, n)
      BY <2>1, <2>2, <2>3, <2>6, <3>2, <3>3, <3>4, CachedNames
    <3>6. m.scope = n.scope /\ m.name = n.name
      BY <2>1, <2>2, <2>6, <3>1, <3>4, <3>5, OneMember DEF MembersKnown
    <3>7. m = n  BY <3>1, <3>6 DEF MembersKnown, Unambiguous
    <3> QED  BY <2>1, <2>2, <2>3, <2>6, <3>2, <3>3, <3>4, <3>7, TargetsAreKeys, EntryNames
  <2> QED  BY <2>4, <2>5, <2>6 DEF Source
<1> QED  BY <1>1, Invariance, PTL
-----------------------------------------------------------------------------
(* Answers.                                                                *)

\* The members only_if_master lets a source go over.
Selected(s, D) == {m \in D : config[s].master => IsPrimary(m)}

\* Only targets of a source are asked, and only in its turn.
Asked ==
  \A t \in answered : LET s == t.name[1] IN
    \/ s \in PgDiscovery /\ pc[s] = "done" /\ t = OwnTarget(s)
    \/ s \in Patroni /\ \E m \in listed[s] \ todo[s] : t = MemberTarget(s, m)

\* A source goes over the members last found, if its DCS can be asked.
Listed(s) ==
  /\ listed[s] # {} => Supported(config[s].conn) /\ lastFoundClusterMembers[s] # NoMembers
  /\ (/\ pc[s] \in {"members", "done"} /\ config[s] # NoConfig
      /\ Supported(config[s].conn) /\ lastFoundClusterMembers[s] # NoMembers) =>
       listed[s] = Selected(s, lastFoundClusterMembers[s])

\* Unless the world changed meanwhile, what was answered in a round is the truth.
Fresh == ~disturbed =>
  /\ \A t \in answered :
       Names(Cached(t)) = {Append(t.name, d) : d \in dbs[t.conn] \cap Matches[t.pattern]}
  /\ \A s \in dcsAnswered : listed[s] = Selected(s, ClusterMembers(config[s].conn))

\* What the answers of a round mean.
AInv ==
  /\ Asked /\ Fresh
  /\ \A s \in Patroni : Listed(s)
  /\ \A s \in Source : \A o \in result[s] : o.name[1] = s

\* Where an object was found.
KeyOf(o) == Target(Prefix(o), o.conn, o.pattern)

\* A target was asked in this round or is known to have a database of the name.
Known(t, name) == t \in answered \/ name \in Names(Cached(t))

\* What of a monitored database the caches still hold.
Remembered(o) == LET s == Owner(o) IN
  /\ s \in Source
  /\ s \in PgDiscovery \ edited =>
       config[s] # NoConfig /\ Prefix(o) = <<s>> /\ Known(OwnTarget(s), o.name)
  /\ (s \in Patroni /\ OneAddress) => Known(KeyOf(o), o.name)
  /\ s \in Patroni \ (edited \cup inherited) =>
       /\ config[s] # NoConfig /\ Supported(config[s].conn) /\ o.pattern = config[s].pattern
       /\ lastFoundClusterMembers[s] # NoMembers
       /\ \/ s \in dcsAnswered
          \/ \E m \in Selected(s, lastFoundClusterMembers[s]) :
               MemberName(s, m) = Prefix(o) /\ Known(MemberTarget(s, m), o.name)

\* The caches hold what is monitored, or its server has just answered.
MInv == \A o \in monitored : Remembered(o)
\* What a step of a goroutine may change: the answers of a round only grow, and a
\* cache entry changes only with an answer.
LEMMA ResolveGrows ==
  ASSUME NamesUnambiguous, IInv, NEW s \in Source, Resolve(s)
  PROVE  /\ UNCHANGED <<config, dcs, dbs, changes, edited, disturbed, monitored, inherited>>
         /\ dcsAnswered \subseteq dcsAnswered'
         /\ \A u \in DiscoveryTarget :
              \/ Cached(u)' = Cached(u) /\ (u \in answered' <=> u \in answered)
              \/ u \in answered' /\ \E mst \in BOOLEAN : Cached(u)' = DiscoveryQuery(u, mst)
         /\ \A r \in Patroni :
              \/ lastFoundClusterMembers'[r] = lastFoundClusterMembers[r]
              \/ r \in dcsAnswered' /\ lastFoundClusterMembers'[r] # NoMembers
         /\ \E r \in Source : pc'[r] # "idle"
         /\ \A r \in Source : r # s => Spared(s, r)
<1>1. TypeOK /\ Phase(s)  BY DEF IInv
<1>2. ASSUME NEW t \in DiscoveryTarget, RememberDatabases(t, DiscoveryQuery(t, config[s].master)),
             answered' = answered \cup {t}, config[s] # NoConfig
      PROVE  \A u \in DiscoveryTarget :
              \/ Cached(u)' = Cached(u) /\ (u \in answered' <=> u \in answered)
              \/ u \in answered' /\ \E mst \in BOOLEAN : Cached(u)' = DiscoveryQuery(u, mst)
  <2>1. config[s].master \in BOOLEAN  BY <1>1, <1>2, DiscoveryAssumption DEF TypeOK
  <2>2. DiscoveryQuery(t, config[s].master) \in SUBSET SourceConn  BY <1>1, <2>1, FoundFits
  <2>3. \A u \in DiscoveryTarget :
          Cached(u)' = IF u = t THEN DiscoveryQuery(t, config[s].master) ELSE Cached(u)
    BY <1>1, <1>2, <2>2, Remember
  <2> QED  BY <1>2, <2>1, <2>3
<1>3. CASE DiscoverySucceeds(s)
  <2>1. /\ RememberDatabases(OwnTarget(s), DiscoveryQuery(OwnTarget(s), config[s].master))
        /\ answered' = answered \cup {OwnTarget(s)} /\ s \in PgDiscovery /\ s \notin Patroni
        /\ config[s] # NoConfig /\ pc' = [pc EXCEPT ![s] = "done"]
        /\ UNCHANGED <<envVars, lastFoundClusterMembers, todo, failed, monitored, inherited, listed, dcsAnswered>>
    BY <1>1, <1>3, Kinds DEF DiscoverySucceeds, OwnTarget, Phase
  <2>2. OwnTarget(s) \in DiscoveryTarget  BY <1>1, <2>1, TargetsAreKeys
  <2>3. \A r \in Source : r # s => result'[r] = result[r]
    BY <1>1, <1>3 DEF DiscoverySucceeds, TypeOK
  <2> QED  BY <1>1, <1>2, <2>1, <2>2, <2>3 DEF TypeOK, envVars, Spared
<1>4. CASE DiscoveryFails(s) \/ ResolvePlain(s) \/ HostConfigFails(s) \/ MembersDone(s)
  <2>1. /\ UNCHANGED <<envVars, cacheVars, todo, monitored, histVars>>
        /\ pc' = [pc EXCEPT ![s] = "done"]
    BY <1>4 DEF DiscoveryFails, ResolvePlain, HostConfigFails, MembersDone
  <2>2. \A r \in Source : r # s => result'[r] = result[r] /\ (r \in failed' <=> r \in failed)
    BY <1>1, <1>4 DEF DiscoveryFails, ResolvePlain, HostConfigFails, MembersDone, TypeOK
  <2> QED  BY <1>1, <2>1, <2>2, CacheStays DEF TypeOK, envVars, cacheVars, histVars, Spared
<1>5. CASE DcsAnswers(s)
  <2>1. /\ UNCHANGED <<envVars, lastFoundDatabases, result, failed, monitored, inherited, answered>>
        /\ pc' = [pc EXCEPT ![s] = "members"] /\ dcsAnswered' = dcsAnswered \cup {s} /\ s \in Patroni
        /\ lastFoundClusterMembers' = [lastFoundClusterMembers EXCEPT ![s] = ClusterMembers(config[s].conn)]
        /\ \A r \in Patroni : r # s => listed'[r] = listed[r] /\ todo'[r] = todo[r]
    BY <1>1, <1>5 DEF DcsAnswers, BeginMembers, TypeOK
  <2>2. ClusterMembers(config[s].conn) # NoMembers
    BY <1>1, DiscoveryAssumption DEF ClusterMembers, TypeOK
  <2> QED  BY <1>1, <2>1, <2>2, CacheStays DEF TypeOK, envVars, Spared
<1>6. CASE DcsFails(s)
  <2>1. /\ UNCHANGED <<envVars, cacheVars, result, monitored, inherited, dcsAnswered, answered>>
        /\ \A r \in Patroni : r # s => listed'[r] = listed[r] /\ todo'[r] = todo[r]
        /\ \A r \in Source : r # s => (r \in failed' <=> r \in failed)
        /\ pc' = [pc EXCEPT ![s] = "members"] \/ pc' = [pc EXCEPT ![s] = "done"]
    BY <1>1, <1>6 DEF DcsFails, BeginMembers, TypeOK
  <2> QED  BY <1>1, <2>1, CacheStays DEF TypeOK, envVars, cacheVars, Spared
<1>7. ASSUME NEW m \in Member, s \in Patroni, MemberSucceeds(s, m)
      PROVE  /\ UNCHANGED <<envVars, lastFoundClusterMembers, pc, monitored, inherited, dcsAnswered>>
             /\ \A u \in DiscoveryTarget :
                  \/ Cached(u)' = Cached(u) /\ (u \in answered' <=> u \in answered)
                  \/ u \in answered' /\ \E mst \in BOOLEAN : Cached(u)' = DiscoveryQuery(u, mst)
             /\ pc[s] = "members" /\ \A r \in Source : r # s => Spared(s, r)
  <2>1. /\ RememberDatabases(MemberTarget(s, m), DiscoveryQuery(MemberTarget(s, m), config[s].master))
        /\ answered' = answered \cup {MemberTarget(s, m)} /\ config[s] # NoConfig /\ pc[s] = "members"
        /\ UNCHANGED <<envVars, lastFoundClusterMembers, pc, failed, monitored, inherited, listed, dcsAnswered>>
    BY <1>1, <1>7 DEF MemberSucceeds, Phase
  <2>2. \A r \in Source : r # s => Spared(s, r)
    BY <1>1, <1>7 DEF MemberSucceeds, Spared, TypeOK
  <2>3. MemberTarget(s, m) \in DiscoveryTarget  BY <1>1, <1>7, <2>1, TargetsAreKeys
  <2> QED  BY <1>2, <2>1, <2>2, <2>3
<1>8. ASSUME NEW m \in Member, s \in Patroni, MemberFails(s, m)
      PROVE  /\ UNCHANGED <<envVars, cacheVars, pc, monitored, histVars>>
             /\ pc[s] = "members" /\ \A r \in Source : r # s => Spared(s, r)
  BY <1>1, <1>8 DEF MemberFails, Spared, TypeOK, cacheVars, histVars
<1>9. CASE \E m \in Member : s \in Patroni /\ (MemberSucceeds(s, m) \/ MemberFails(s, m))
  BY <1>7, <1>8, <1>9, CacheStays DEF envVars, cacheVars, histVars
<1> QED  BY <1>3, <1>4, <1>5, <1>6, <1>9 DEF Resolve
\* What a goroutine does in its turn.
LEMMA OwnTurn ==
  ASSUME NamesUnambiguous, IInv, NEW s \in Source, Resolve(s)
  PROVE  /\ pc[s] \in {"start", "members"}
         /\ pc[s] = "members" =>
              /\ listed' = listed /\ todo'[s] \subseteq todo[s] /\ pc'[s] \in {"members", "done"}
              /\ lastFoundClusterMembers' = lastFoundClusterMembers /\ dcsAnswered' = dcsAnswered
         /\ (pc[s] = "start" /\ s \in Patroni) => DcsAnswers(s) \/ DcsFails(s) \/ HostConfigFails(s)
         /\ s \notin Patroni => dcsAnswered' = dcsAnswered
         /\ \A u \in answered' \ answered :
              \/ s \in PgDiscovery /\ pc'[s] = "done" /\ u = OwnTarget(s)
              \/ s \in Patroni /\ \E m \in listed'[s] \ todo'[s] : u = MemberTarget(s, m)
         /\ \A o \in result'[s] : o \in result[s] \/ o.name[1] = s
<1>1. TypeOK /\ Phase(s) /\ CacheOfKeys /\ (s \in Patroni => MembersKnown(s))  BY DEF IInv
<1>2. ASSUME NEW u \in DiscoveryTarget, u.name[1] = s, u.name # <<>>, NEW d \in Db
      PROVE  Append(u.name, d)[1] = s
  <2>1. u.name \in Seq(Part) /\ d \in Part  BY TargetParts DEF DiscoveryTarget, Part
  <2>2. 1 \in 1..Len(u.name)  BY <1>2, <2>1, EmptySeq
  <2> QED  BY <1>2, <2>1, <2>2, AppendProperties
<1>3. ASSUME NEW u \in DiscoveryTarget, u.name[1] = s, u.name # <<>>
      PROVE  /\ \A o \in Cached(u) : o.name[1] = s
             /\ \A mst \in BOOLEAN : \A o \in DiscoveryQuery(u, mst) : o.name[1] = s
  <2>1. \A o \in Cached(u) : o.name[1] = s  BY <1>1, <1>2, <1>3, CachedName
  <2>2. ASSUME NEW mst \in BOOLEAN, NEW o \in DiscoveryQuery(u, mst) PROVE o.name[1] = s
    <3>1. FoundAt(o, u)  BY <1>1, FoundFits
    <3> QED  BY <1>2, <1>3, <3>1 DEF FoundAt, ResolvedConn
  <2> QED  BY <2>1, <2>2
<1>4. pc[s] \in {"start", "members"} => config[s] # NoConfig /\ config[s].master \in BOOLEAN
  BY <1>1, DiscoveryAssumption DEF Phase, TypeOK
<1>5. CASE DiscoverySucceeds(s) \/ DiscoveryFails(s)
  <2>1. s \in PgDiscovery /\ s \notin Patroni /\ pc[s] = "start" /\ pc' = [pc EXCEPT ![s] = "done"]
        /\ dcsAnswered' = dcsAnswered /\ answered' \subseteq answered \cup {OwnTarget(s)}
    BY <1>5, Kinds DEF DiscoverySucceeds, DiscoveryFails, OwnTarget, histVars
  <2>2. /\ OwnTarget(s) \in DiscoveryTarget /\ OwnTarget(s).name[1] = s
        /\ OwnTarget(s).name # <<>>
    BY <1>1, <1>4, <2>1, TargetsAreKeys, Kinds DEF OwnTarget, Target
  <2>3. \/ result'[s] = DiscoveryQuery(OwnTarget(s), config[s].master)
        \/ result'[s] = Cached(OwnTarget(s))
        \/ result'[s] = result[s]
    BY <1>1, <1>5 DEF DiscoverySucceeds, DiscoveryFails, OwnTarget, FreshList, TypeOK
  <2>4. \A o \in result'[s] : o \in result[s] \/ o.name[1] = s
    BY <1>3, <1>4, <2>1, <2>2, <2>3
  <2> QED  BY <1>1, <2>1, <2>4 DEF TypeOK
<1>6. CASE ResolvePlain(s)
  BY <1>1, <1>6, Kinds DEF ResolvePlain, histVars, TypeOK
<1>7. CASE HostConfigFails(s) \/ DcsAnswers(s) \/ DcsFails(s)
  BY <1>7 DEF HostConfigFails, DcsAnswers, DcsFails, histVars
<1>8. CASE MembersDone(s)
  BY <1>1, <1>8 DEF MembersDone, Phase, cacheVars, histVars, TypeOK
<1>9. ASSUME NEW m \in Member, s \in Patroni, MemberSucceeds(s, m) \/ MemberFails(s, m)
      PROVE  /\ pc[s] = "members" /\ listed' = listed /\ todo'[s] \subseteq todo[s] /\ pc'[s] = "members"
             /\ lastFoundClusterMembers' = lastFoundClusterMembers /\ dcsAnswered' = dcsAnswered
             /\ \A u \in answered' \ answered : m \in listed'[s] \ todo'[s] /\ u = MemberTarget(s, m)
             /\ \A o \in result'[s] : o \in result[s] \/ o.name[1] = s
  <2>1. /\ pc[s] = "members" /\ m \in todo[s] /\ todo' = [todo EXCEPT ![s] = @ \ {m}]
        /\ UNCHANGED <<lastFoundClusterMembers, pc, listed, dcsAnswered>>
        /\ answered' \subseteq answered \cup {MemberTarget(s, m)}
    BY <1>9 DEF MemberSucceeds, MemberFails, cacheVars, histVars
  <2>2. /\ MemberTarget(s, m) \in DiscoveryTarget /\ MemberTarget(s, m).name[1] = s
        /\ MemberTarget(s, m).name # <<>>
    BY <1>1, <1>4, <1>9, <2>1, TargetsAreKeys, MemberNames DEF MemberTarget, Target, MemberName
  <2>3. \/ result'[s] = result[s] \cup DiscoveryQuery(MemberTarget(s, m), config[s].master)
        \/ result'[s] = result[s] \cup Cached(MemberTarget(s, m))
        \/ result'[s] = result[s]
    <3>1. CASE MemberSucceeds(s, m)  BY <1>1, <3>1 DEF MemberSucceeds, FreshList, TypeOK
    <3>2. CASE MemberFails(s, m)
      <4>1. \/ result' = [result EXCEPT ![s] = result[s] \cup Cached(MemberTarget(s, m))]
            \/ result' = [result EXCEPT ![s] = result[s] \cup {}]
        BY <3>2 DEF MemberFails
      <4> QED  BY <1>1, <4>1 DEF TypeOK
    <3> QED  BY <1>9, <3>1, <3>2
  <2>4. \A o \in result'[s] : o \in result[s] \/ o.name[1] = s
    BY <1>3, <1>4, <2>1, <2>2, <2>3
  <2> QED  BY <1>1, <1>9, <2>1, <2>4 DEF TypeOK, MembersKnown
<1>10. CASE \E m \in Member : s \in Patroni /\ (MemberSucceeds(s, m) \/ MemberFails(s, m))
  <2>1. PICK m \in Member : s \in Patroni /\ (MemberSucceeds(s, m) \/ MemberFails(s, m))  BY <1>10
  <2> QED  BY <1>9, <2>1
<1> QED  BY <1>5, <1>6, <1>7, <1>8, <1>10 DEF Resolve
LEMMA AInit == Init => AInv
BY DEF Init, AInv, Asked, Fresh, Listed

\* Nothing was asked yet in this round, and the world may change.
LEMMA AIdle ==
  ASSUME IInv, AInv, IInv',
         lastFoundClusterMembers' = lastFoundClusterMembers, answered' = {}, dcsAnswered' = {},
         \A s \in Source : result'[s] = {},
         \A s \in Patroni : listed'[s] = {} /\ (pc'[s] \in {"idle", "start"} \/ config'[s] = NoConfig)
  PROVE  AInv'
BY DEF AInv, Asked, Fresh, Listed

LEMMA AResolve == ASSUME NamesUnambiguous, IInv, AInv, IInv', NEW s \in Source, Resolve(s) PROVE AInv'
<1>1. TypeOK /\ TypeOK' /\ Phase(s) /\ config' = config
  BY ResolveGrows DEF IInv
<1>2. \A r \in Source : r # s => Spared(s, r)  BY ResolveGrows
<1>3. Asked'
  <2> SUFFICES ASSUME NEW t \in answered'
               PROVE  LET r == t.name[1] IN
                        \/ r \in PgDiscovery /\ pc'[r] = "done" /\ t = OwnTarget(r)'
                        \/ r \in Patroni /\ \E m \in listed'[r] \ todo'[r] : t = MemberTarget(r, m)'
    BY DEF Asked
  <2> DEFINE r == t.name[1]
  <2>1. r \in Source  BY <1>1, TargetParts DEF TypeOK, DiscoveryTarget
  <2>2. OwnTarget(r)' = OwnTarget(r) /\ \A m : MemberTarget(r, m)' = MemberTarget(r, m)
    BY <1>1 DEF OwnTarget, MemberTarget, MemberName
  <2>3. CASE t \in answered /\ r # s
    <3>1. Spared(s, r)  BY <1>2, <2>1, <2>3
    <3> QED  BY <2>2, <2>3, <3>1 DEF AInv, Asked, Spared
  <2>4. CASE t \in answered /\ r = s
    <3>1. pc[s] = "members"  BY <1>1, <2>4, OwnTurn DEF Phase
    <3> QED  BY <2>2, <2>4, <3>1, OwnTurn DEF AInv, Asked
  <2>5. CASE t \notin answered
    <3>1. \/ s \in PgDiscovery /\ pc'[s] = "done" /\ t = OwnTarget(s)
          \/ s \in Patroni /\ \E m \in listed'[s] \ todo'[s] : t = MemberTarget(s, m)
      BY <2>5, OwnTurn
    <3>2. r = s
      <4>1. OwnTarget(s).name[1] = s  BY Kinds DEF OwnTarget, Target
      <4>2. s \in Patroni => listed'[s] \subseteq Member  BY <1>1 DEF TypeOK
      <4>3. \A m \in Member : MemberTarget(s, m).name[1] = s
        BY MemberNames DEF MemberTarget, Target
      <4> QED  BY <3>1, <4>1, <4>2, <4>3
    <3> QED  BY <2>2, <3>1, <3>2
  <2> QED  BY <2>3, <2>4, <2>5
<1>4. ASSUME NEW r \in Patroni PROVE Listed(r)'
  <2>1. Listed(r) /\ r \in Source  BY Kinds DEF AInv
  <2>2. CASE r # s
    <3>1. Spared(s, r)  BY <1>2, <2>1, <2>2
    <3> QED  BY <1>1, <2>1, <3>1 DEF Listed, Selected, Spared
  <2>3. CASE r = s /\ pc[s] = "members"
    BY <1>1, <2>1, <2>3, OwnTurn DEF Listed, Selected
  <2>4. CASE r = s /\ HostConfigFails(s)
    BY <1>1, <2>4 DEF HostConfigFails, Listed, Phase, histVars
  <2>5. CASE r = s /\ DcsAnswers(s)
    <3>1. /\ Supported(config[s].conn) /\ listed'[s] = Selected(s, ClusterMembers(config[s].conn))
          /\ lastFoundClusterMembers'[s] = ClusterMembers(config[s].conn)
      BY <1>1, <2>5 DEF DcsAnswers, BeginMembers, TypeOK, Selected
    <3>2. ClusterMembers(config[s].conn) # NoMembers
      BY <1>1, DiscoveryAssumption DEF ClusterMembers, TypeOK
    <3> QED  BY <1>1, <2>5, <3>1, <3>2 DEF Listed, Selected
  <2>6. CASE r = s /\ DcsFails(s)
    <3>1. /\ Supported(config[s].conn) /\ lastFoundClusterMembers' = lastFoundClusterMembers
          /\ \/ lastFoundClusterMembers[s] = NoMembers /\ listed' = listed
             \/ /\ lastFoundClusterMembers[s] # NoMembers
                /\ listed'[s] = Selected(s, lastFoundClusterMembers[s])
      BY <1>1, <2>6 DEF DcsFails, BeginMembers, TypeOK, Selected, cacheVars
    <3>2. listed[s] = {}  BY <1>1, <2>6 DEF DcsFails, Phase
    <3> QED  BY <1>1, <2>6, <3>1, <3>2 DEF Listed, Selected
  <2> QED  BY <2>2, <2>3, <2>4, <2>5, <2>6, OwnTurn
<1>5. Fresh'
  <2> SUFFICES ASSUME ~disturbed
      PROVE  /\ \A t \in answered' :
                  Names(Cached(t)') = {Append(t.name, d) : d \in dbs[t.conn] \cap Matches[t.pattern]}
             /\ \A r \in dcsAnswered' : listed'[r] = Selected(r, ClusterMembers(config[r].conn))'
    BY ResolveGrows DEF Fresh, Names
  <2>1. ASSUME NEW t \in answered'
        PROVE  Names(Cached(t)') = {Append(t.name, d) : d \in dbs[t.conn] \cap Matches[t.pattern]}
    <3>1. t \in DiscoveryTarget  BY <1>1 DEF TypeOK
    <3>2. CASE Cached(t)' = Cached(t) /\ t \in answered
      BY <3>2 DEF AInv, Fresh
    <3>3. ASSUME NEW mst \in BOOLEAN, Cached(t)' = DiscoveryQuery(t, mst)
          PROVE  Names(Cached(t)') = {Append(t.name, d) : d \in dbs[t.conn] \cap Matches[t.pattern]}
      BY <3>3, FoundNames
    <3> QED  BY <3>1, <3>2, <3>3, ResolveGrows
  <2>2. ASSUME NEW r \in dcsAnswered'
        PROVE  listed'[r] = Selected(r, ClusterMembers(config[r].conn))'
    <3>1. r \in Patroni /\ r \in Source  BY <1>1, Kinds DEF TypeOK
    <3>2. Selected(r, ClusterMembers(config[r].conn))' = Selected(r, ClusterMembers(config[r].conn))
      BY ResolveGrows DEF Selected, ClusterMembers
    <3>3. r \in dcsAnswered => listed[r] = Selected(r, ClusterMembers(config[r].conn))
      BY DEF AInv, Fresh
    <3>4. CASE r # s
      <4>1. Spared(s, r)  BY <1>2, <3>1, <3>4
      <4> QED  BY <3>1, <3>2, <3>3, <4>1 DEF Spared
    <3>5. CASE r = s /\ pc[s] = "members"  BY <3>2, <3>3, <3>5, OwnTurn
    <3>6. CASE r = s /\ DcsAnswers(s)
      BY <1>1, <3>1, <3>2, <3>6 DEF DcsAnswers, BeginMembers, TypeOK, Selected
    <3>7. ~(r = s /\ (DcsFails(s) \/ HostConfigFails(s)))
      BY <1>1 DEF DcsFails, HostConfigFails, Phase, histVars
    <3> QED  BY <3>1, <3>4, <3>5, <3>6, <3>7, OwnTurn
  <2> QED  BY <2>1, <2>2
<1>6. ASSUME NEW r \in Source, NEW o \in result'[r] PROVE o.name[1] = r
  BY <1>2, OwnTurn DEF AInv, Spared
<1> QED  BY <1>3, <1>4, <1>5, <1>6 DEF AInv
\* A change of the world between or during rounds only disturbs the round.
LEMMA ADisturbed ==
  ASSUME IInv, AInv, UNCHANGED <<config, cacheVars, roundVars, histVars>>,
         disturbed' \/ UNCHANGED <<dcs, dbs, disturbed>>
  PROVE  AInv'
<1>1. Asked'
  BY DEF AInv, Asked, OwnTarget, MemberTarget, MemberName, roundVars, histVars
<1>2. \A s \in Patroni : Listed(s)'
  BY DEF AInv, Listed, Selected, cacheVars, roundVars, histVars
<1>3. \A s \in Source : \A o \in result'[s] : o.name[1] = s  BY DEF AInv, roundVars
<1>4. Fresh'
  <2> SUFFICES ASSUME ~disturbed' PROVE Fresh'  BY DEF Fresh
  <2> QED  BY DEF AInv, Fresh, Names, Cached, postgresDiscoveryKeyOf, Selected, ClusterMembers, cacheVars, histVars
<1> QED  BY <1>1, <1>2, <1>3, <1>4 DEF AInv

LEMMA ANext == ASSUME NamesUnambiguous, IInv, AInv, IInv', [Next]_vars PROVE AInv'
<1>1. ASSUME NEW s \in Source, EditConfig(s) PROVE AInv'
  <2>1. Idle /\ UNCHANGED <<cacheVars, roundVars, listed, dcsAnswered, answered>>
    BY <1>1 DEF EditConfig
  <2> QED  BY <2>1, IdleEmpty, AIdle, Kinds DEF cacheVars, roundVars
<1>2. CASE \E v \in Server, d \in Db : DatabaseChanges(v, d)
  BY <1>2, ADisturbed DEF DatabaseChanges
<1>3. CASE \E m \in Member : MemberChanges(m)
  BY <1>3, ADisturbed DEF MemberChanges
<1>4. CASE BeginRound
  <2>1. /\ Idle /\ pc' = [s \in Source |-> IF s \in Configured THEN "start" ELSE "done"]
        /\ UNCHANGED <<config, cacheVars, result, histVars>>
    BY <1>4 DEF BeginRound
  <2>2. \A s \in Source : pc'[s] = "start" \/ config'[s] = NoConfig  BY <2>1 DEF Configured
  <2> QED  BY <2>1, <2>2, IdleEmpty, AIdle, Kinds DEF cacheVars, histVars
<1>5. CASE LoadSources
  <2>1. /\ pc' = [s \in Source |-> "idle"] /\ result' = [s \in Source |-> {}]
        /\ lastFoundClusterMembers' = lastFoundClusterMembers
        /\ listed' = [s \in Patroni |-> {}] /\ dcsAnswered' = {} /\ answered' = {}
    BY <1>5 DEF LoadSources, cacheVars
  <2> QED  BY <2>1, AIdle, Kinds
<1>6. CASE UNCHANGED vars
  BY <1>6, ADisturbed DEF vars, envVars
<1> QED  BY <1>1, <1>2, <1>3, <1>4, <1>5, <1>6, AResolve DEF Next, Environment

\* In the state after a round, of a source are monitored the names it resolved to.
LEMMA NamesLoaded ==
  ASSUME NamesUnambiguous, IInv, AInv, LoadSources, NEW s \in Source
  PROVE  {n \in Names(monitored') : n[1] = s} = Names(result[s])
<1>1. TypeOK /\ \A r \in Source : \A o \in result[r] : o.name[1] = r  BY DEF IInv, AInv
<1>2. \A o : o \in ResolveDatabases <=> \E r \in Source : o \in result[r]  BY DEF ResolveDatabases
<1>3. Names(monitored') = Names(ResolveDatabases)  BY <1>1, LoadedNames DEF Names
<1>4. ASSUME NEW n \in Names(monitored'), n[1] = s PROVE n \in Names(result[s])
  <2>1. PICK o \in ResolveDatabases : n = o.name  BY <1>3, <1>4 DEF Names
  <2>2. PICK r \in Source : o \in result[r]  BY <1>2
  <2>3. r = s  BY <1>1, <1>4, <2>1, <2>2
  <2> QED  BY <2>1, <2>2, <2>3 DEF Names
<1>5. ASSUME NEW n \in Names(result[s]) PROVE n \in Names(monitored') /\ n[1] = s
  <2>1. PICK o \in result[s] : n = o.name  BY DEF Names
  <2>2. o \in ResolveDatabases /\ n[1] = s  BY <1>1, <1>2, <2>1
  <2> QED  BY <1>3, <2>1, <2>2 DEF Names
<1> QED  BY <1>4, <1>5

\* Only the end of a round makes the main loop idle.
LEMMA RoundEnds ==
  ASSUME NamesUnambiguous, IInv, [Next]_vars, Idle', ~Idle PROVE LoadSources
<1>1. ~Environment
  <2>1. Environment => pc' = pc
    BY DEF Environment, EditConfig, DatabaseChanges, MemberChanges, roundVars
  <2> QED  BY <2>1 DEF Idle
<1>2. \A s \in Source : ~Resolve(s)  BY ResolveGrows DEF Idle
<1>3. ~BeginRound  BY DEF BeginRound
<1>4. ~UNCHANGED vars  BY DEF vars, roundVars, Idle
<1> QED  BY <1>1, <1>2, <1>3, <1>4 DEF Next

\* What a source of which everything was answered resolved to.
LEMMA TruthResolved ==
  ASSUME NamesUnambiguous, OneScope, IInv, AInv, NEW s \in Configured, ~disturbed, AllAnswered(s), pc[s] = "done"
  PROVE  Names(result[s]) = Truth(s)
<1>1. s \in Source /\ config[s] # NoConfig /\ Phase(s) /\ Resolved(s) /\ TypeOK
  BY DEF Configured, IInv
<1>2. CASE s \in Plain  BY <1>1, <1>2 DEF Resolved, Truth
<1>3. CASE s \in PgDiscovery
  <2>1. PICK t \in answered : t.name = <<s>>
    BY <1>1, <1>3, Kinds DEF AllAnswered, IInv, TypeOK
  <2>2. t = OwnTarget(s)
    <3>1. t.name[1] = s  BY <2>1
    <3> QED  BY <1>3, <3>1, Kinds DEF AInv, Asked
  <2>3. Names(Cached(t)) = {Append(t.name, d) : d \in dbs[t.conn] \cap Matches[t.pattern]}
    BY DEF AInv, Fresh
  <2>4. \A d \in Part : Append(<<s>>, d) = <<s, d>>
    <3> SUFFICES ASSUME NEW d \in Part PROVE Append(<<s>>, d) = <<s, d>>  OBVIOUS
    <3>1. <<s>> \in Seq(Part) /\ <<s, d>> \in Seq(Part)  BY <1>1, Kinds DEF Part
    <3>2. Len(<<s>>) = 1 /\ Len(<<s, d>>) = 2 /\ <<s>>[1] = s /\ <<s, d>>[1] = s /\ <<s, d>>[2] = d
      OBVIOUS
    <3>3. /\ Append(<<s>>, d) \in Seq(Part) /\ Len(Append(<<s>>, d)) = 2
          /\ Append(<<s>>, d)[1] = s /\ Append(<<s>>, d)[2] = d
      BY <3>1, <3>2, AppendProperties
    <3>4. \A i \in 1..2 : Append(<<s>>, d)[i] = <<s, d>>[i]  BY <3>2, <3>3
    <3> QED  BY <3>1, <3>2, <3>3, <3>4, SeqEqual
  <2>5. Names(result[s]) = {Append(<<s>>, d) : d \in dbs[config[s].conn] \cap Matches[config[s].pattern]}
    BY <1>1, <1>3, <2>2, <2>3 DEF Resolved, OwnTarget, Target
  <2>6. dbs[config[s].conn] \cap Matches[config[s].pattern] \subseteq Part
    BY <1>1, <1>3, TargetsAreKeys, DiscoveryAssumption
    DEF TypeOK, OwnTarget, Target, DiscoveryTarget, Part
  <2> QED  BY <1>3, <2>4, <2>5, <2>6, Kinds DEF Truth
<1>4. CASE s \in Patroni
  <2>1. s \in dcsAnswered /\ \A m \in listed[s] : MemberTarget(s, m) \in answered
    BY <1>4, Kinds DEF AllAnswered
  <2>2. listed[s] = {n \in ClusterMembers(config[s].conn) : config[s].master => IsPrimary(n)}
    BY <2>1 DEF AInv, Fresh, Selected
  <2>3. Trusted(s) /\ todo[s] = {}  BY <1>1, <1>4, <2>1 DEF Trusted, Phase
  <2>4. result[s] = UNION {Cached(MemberTarget(s, m)) : m \in listed[s]}
    BY <1>1, <1>4, <2>3 DEF Resolved
  <2> DEFINE There(m) == {Append(MemberName(s, m), d) : d \in dbs[m.url] \cap Matches[config[s].pattern]}
  <2>5. ASSUME NEW m \in listed[s] PROVE Names(Cached(MemberTarget(s, m))) = There(m)
    <3>1. MemberTarget(s, m) \in answered  BY <2>1
    <3>2. \A t \in answered :
            Names(Cached(t)) = {Append(t.name, d) : d \in dbs[t.conn] \cap Matches[t.pattern]}
      BY DEF AInv, Fresh
    <3> QED  BY <3>1, <3>2 DEF MemberTarget, Target
  <2>6. Names(result[s]) = UNION {Names(Cached(MemberTarget(s, m))) : m \in listed[s]}
    BY <2>4 DEF Names
  <2>7. Truth(s) = UNION {There(m) : m \in listed[s]}
    BY <1>4, <2>2, Kinds DEF Truth
  <2> HIDE DEF There
  <2> QED  BY <2>5, <2>6, <2>7
<1> QED  BY <1>1, <1>2, <1>3, <1>4 DEF Source

\* Stale answers heal in one round: exactly what exists of a source whose every
\* question was answered is monitored after it, whatever the caches held and
\* whichever other source failed, provided that an address that names a cluster
\* is the prefix of the keys of no other and that joined names can be told apart.
THEOREM OneRoundHeals == ASSUME NamesUnambiguous, OneScope PROVE Spec => HealsInOneRound
<1>1. Init => AInv  BY AInit
<1>2. IInv /\ AInv /\ IInv' /\ [Next]_vars => AInv'  BY ANext
<1>3. IInv /\ AInv /\ [Next]_vars =>
        [\A s \in Configured : (Idle' /\ ~Idle /\ ~disturbed /\ AllAnswered(s)) =>
           {n \in Names(monitored') : n[1] = s} = Truth(s)]_vars
  <2> SUFFICES ASSUME IInv, AInv, [Next]_vars, NEW s \in Configured,
                      Idle', ~Idle, ~disturbed, AllAnswered(s)
               PROVE  {n \in Names(monitored') : n[1] = s} = Truth(s)
    OBVIOUS
  <2>1. LoadSources /\ s \in Source  BY RoundEnds DEF Configured
  <2>2. pc[s] = "done"  BY <2>1 DEF LoadSources
  <2> QED  BY <2>1, <2>2, NamesLoaded, TruthResolved
<1> QED  BY <1>1, <1>2, <1>3, Invariance, PTL DEF Spec, HealsInOneRound
-----------------------------------------------------------------------------
(* What is monitored.                                                      *)

LEMMA PrefixOfAppend ==
  ASSUME NEW o, NEW n \in Seq(Part), NEW d \in Part, o.name = Append(n, d)
  PROVE  Prefix(o) = n
<1>1. /\ o.name \in Seq(Part) /\ Len(o.name) = Len(n) + 1
      /\ \A i \in 1..Len(n) : o.name[i] = n[i]
  BY AppendProperties
<1>2. Len(n) \in Nat /\ Len(o.name) - 1 = Len(n)  BY <1>1, LenProperties
<1>3. /\ Prefix(o) \in Seq(Part) /\ Len(Prefix(o)) = Len(n)
      /\ \A i \in 1..Len(n) : Prefix(o)[i] = o.name[i]
  BY <1>1, <1>2 DEF Prefix
<1> QED  BY <1>1, <1>3, SeqEqual

\* A database of a Patroni source is one of a target.
LEMMA PrefixType ==
  ASSUME NEW o \in SourceConn, Owner(o) \in Patroni
  PROVE  KeyOf(o) \in DiscoveryTarget
<1>1. o.name \in DatabaseNames /\ o.conn \in Server /\ o.pattern \in DOMAIN Matches  BY DEF SourceConn
<1>2. \A s \in Plain : o.name # <<s>>  BY Kinds DEF Owner
<1>3. PICK n \in TargetNames, d \in Db : o.name = Append(n, d)  BY <1>1, <1>2 DEF DatabaseNames
<1>4. Prefix(o) = n
  <2>1. n \in Seq(Part) /\ d \in Part  BY TargetParts DEF Part
  <2> QED  BY <1>3, <2>1, PrefixOfAppend
<1> QED  BY <1>1, <1>4 DEF KeyOf, Target, DiscoveryTarget

\* An object of the cache tells its key.
LEMMA CachedKey ==
  ASSUME NamesUnambiguous, TypeOK, CacheOfKeys, NEW t \in DiscoveryTarget, NEW o \in Cached(t)
  PROVE  Prefix(o) = t.name /\ o.pattern = t.pattern /\ KeyOf(o) = t
<1>1. /\ o.conn = t.conn /\ o.pattern = t.pattern /\ t.name \in Seq(Part)
      /\ \E d \in Part : o.name = Append(t.name, d)
  BY CachedName
<1>2. Prefix(o) = t.name  BY <1>1, PrefixOfAppend
<1> QED  BY <1>1, <1>2 DEF KeyOf, Target, DiscoveryTarget

LEMMA MInit == Init => MInv
BY DEF Init, MInv

\* A goroutine may forget a database only with an answer.
LEMMA MResolve == ASSUME NamesUnambiguous, IInv, MInv, NEW s \in Source, Resolve(s) PROVE MInv'
<1>1. TypeOK  BY DEF IInv
<1>2. UNCHANGED <<config, edited, monitored, inherited>> /\ dcsAnswered \subseteq dcsAnswered'
  BY ResolveGrows
<1>3. \A u \in DiscoveryTarget : \A n : Known(u, n) => Known(u, n)'
  BY ResolveGrows DEF Known, Names
<1>4. ASSUME NEW o \in monitored PROVE Remembered(o)'
  <2> DEFINE r == Owner(o)
  <2>1. Remembered(o) /\ r \in Source  BY DEF MInv, Remembered
  <2>2. r \in Patroni => KeyOf(o) \in DiscoveryTarget  BY <1>1, PrefixType DEF TypeOK
  <2>3. ASSUME r \in PgDiscovery \ edited
        PROVE  config[r] # NoConfig /\ Prefix(o) = <<r>> /\ Known(OwnTarget(r), o.name)'
    <3>1. config[r] # NoConfig /\ Prefix(o) = <<r>> /\ Known(OwnTarget(r), o.name)
      BY <2>1, <2>3 DEF Remembered
    <3>2. OwnTarget(r) \in DiscoveryTarget /\ OwnTarget(r)' = OwnTarget(r)
      BY <1>1, <1>2, <2>1, <2>3, <3>1, TargetsAreKeys DEF OwnTarget
    <3>3. \A u \in DiscoveryTarget : u = OwnTarget(r) => (Known(OwnTarget(r), o.name)' <=> Known(u, o.name)')
      BY <3>2 DEF Known, Cached, postgresDiscoveryKeyOf, Names
    <3> QED  BY <1>3, <3>1, <3>2, <3>3
  <2>4. ASSUME r \in Patroni \ (edited \cup inherited)
        PROVE  /\ config[r] # NoConfig /\ Supported(config[r].conn) /\ o.pattern = config[r].pattern
               /\ lastFoundClusterMembers'[r] # NoMembers
               /\ \/ r \in dcsAnswered'
                  \/ \E m \in Selected(r, lastFoundClusterMembers[r])' :
                       MemberName(r, m)' = Prefix(o) /\ Known(MemberTarget(r, m), o.name)'
    <3>1. /\ config[r] # NoConfig /\ Supported(config[r].conn) /\ o.pattern = config[r].pattern
          /\ lastFoundClusterMembers[r] # NoMembers
          /\ \/ r \in dcsAnswered
             \/ \E m \in Selected(r, lastFoundClusterMembers[r]) :
                  MemberName(r, m) = Prefix(o) /\ Known(MemberTarget(r, m), o.name)
      BY <2>1, <2>4 DEF Remembered
    <3>2. \/ lastFoundClusterMembers'[r] = lastFoundClusterMembers[r]
          \/ r \in dcsAnswered' /\ lastFoundClusterMembers'[r] # NoMembers
      BY <2>4, ResolveGrows
    <3>3. ASSUME NEW m \in Member
          PROVE  /\ MemberName(r, m)' = MemberName(r, m)
                 /\ Known(MemberTarget(r, m), o.name) => Known(MemberTarget(r, m), o.name)'
      <4>1. /\ MemberName(r, m)' = MemberName(r, m) /\ MemberTarget(r, m)' = MemberTarget(r, m)
            /\ MemberTarget(r, m) \in DiscoveryTarget
        BY <1>1, <1>2, <2>1, <2>4, <3>1, TargetsAreKeys DEF MemberTarget, MemberName
      <4>2. \A u \in DiscoveryTarget : u = MemberTarget(r, m) =>
              (Known(MemberTarget(r, m), o.name)' <=> Known(u, o.name)')
        BY <4>1 DEF Known, Cached, postgresDiscoveryKeyOf, Names
      <4> QED  BY <1>3, <4>1, <4>2
    <3>4. lastFoundClusterMembers[r] \in SUBSET Member  BY <1>1, <2>4, <3>1 DEF TypeOK
    <3> QED  BY <1>2, <3>1, <3>2, <3>3, <3>4 DEF Selected
  <2>5. (r \in Patroni /\ OneAddress') => Known(KeyOf(o), o.name)'
    <3>1. r \in Patroni /\ OneAddress => Known(KeyOf(o), o.name)  BY <2>1 DEF Remembered
    <3> QED  BY <1>3, <2>2, <3>1 DEF OneAddress
  <2> QED  BY <1>2, <2>1, <2>3, <2>4, <2>5 DEF Remembered
<1> QED  BY <1>2, <1>4 DEF MInv
\* What only the environment or the begin of a round changes.
LEMMA MStays ==
  ASSUME MInv, UNCHANGED <<cacheVars, monitored, dcsAnswered, answered>>,
         edited \subseteq edited', inherited \subseteq inherited',
         \A r \in Source \ edited' : config'[r] = config[r]
  PROVE  MInv'
<1>1. ASSUME NEW u, NEW n PROVE Known(u, n)' <=> Known(u, n)
  BY DEF Known, Names, Cached, postgresDiscoveryKeyOf, cacheVars
<1>2. ASSUME NEW o \in monitored PROVE Remembered(o)'
  <2> DEFINE r == Owner(o)
  <2>1. Remembered(o) /\ r \in Source  BY DEF MInv, Remembered
  <2>2. r \notin edited' =>
          /\ OwnTarget(r)' = OwnTarget(r)
          /\ \A m : MemberTarget(r, m)' = MemberTarget(r, m) /\ MemberName(r, m)' = MemberName(r, m)
    BY <2>1 DEF OwnTarget, MemberTarget, MemberName
  <2>3. r \notin edited' =>
          /\ Known(OwnTarget(r), o.name)' <=> Known(OwnTarget(r), o.name)
          /\ \A m : Known(MemberTarget(r, m), o.name)' <=> Known(MemberTarget(r, m), o.name)
    BY <2>2 DEF Known, Names, Cached, postgresDiscoveryKeyOf, cacheVars
  <2>4. Known(KeyOf(o), o.name)' <=> Known(KeyOf(o), o.name)  BY <1>1
  <2>5. r \in PgDiscovery \ edited' =>
          config'[r] # NoConfig /\ Prefix(o) = <<r>> /\ Known(OwnTarget(r), o.name)'
    BY <2>1, <2>3 DEF Remembered
  <2>6. r \in Patroni \ (edited' \cup inherited') =>
          /\ config'[r] # NoConfig /\ Supported(config'[r].conn) /\ o.pattern = config'[r].pattern
          /\ lastFoundClusterMembers'[r] # NoMembers
          /\ \/ r \in dcsAnswered'
             \/ \E m \in Selected(r, lastFoundClusterMembers[r])' :
                  MemberName(r, m)' = Prefix(o) /\ Known(MemberTarget(r, m), o.name)'
    BY <2>1, <2>2, <2>3 DEF Remembered, Selected, cacheVars
  <2>7. (r \in Patroni /\ OneAddress') => Known(KeyOf(o), o.name)'
    BY <2>1, <2>4 DEF Remembered, OneAddress
  <2> QED  BY <2>1, <2>5, <2>6, <2>7 DEF Remembered
<1> QED  BY <1>2 DEF MInv

\* Two members of one name a trusted source went over are one.
LEMMA ListedOnce ==
  ASSUME IInv, NEW r \in Patroni, Trusted(r), config[r] # NoConfig,
         NEW m \in listed[r], NEW n \in listed[r], MemberName(r, m) = MemberName(r, n)
  PROVE  m = n
<1>1. TypeOK /\ MembersKnown(r) /\ m \in Member /\ n \in Member  BY DEF IInv, TypeOK
<1>2. m.scope = n.scope /\ m.name = n.name  BY <1>1, OneMember DEF Trusted, MembersKnown
<1> QED  BY <1>1, <1>2 DEF MembersKnown, Unambiguous

LEMMA MLoad == ASSUME NamesUnambiguous, OneScope, IInv, AInv, MInv, LoadSources PROVE MInv'
<1>1. /\ \A r \in Source : pc[r] = "done"
      /\ UNCHANGED <<config, cacheVars>>
      /\ edited' = {} /\ inherited' = inherited \ dcsAnswered
      /\ answered' = {} /\ dcsAnswered' = {}
  BY DEF LoadSources
<1>2. TypeOK /\ CacheOfKeys  BY DEF IInv
<1>3. \A u : Cached(u)' = Cached(u)  BY <1>1 DEF Cached, postgresDiscoveryKeyOf, cacheVars
<1>4. ASSUME NEW q \in monitored' PROVE Remembered(q)'
  <2>1. PICK o \in ResolveDatabases :
          q.name = o.name /\ (q = o \/ (q \in monitored /\ Equal(q, o)))
    BY <1>2, LoadedNames
  <2>2. PICK r \in Source : o \in result[r]  BY DEF ResolveDatabases
  <2>3. Owner(q) = r  BY <2>1, <2>2 DEF AInv, Owner
  <2>4. Prefix(q) = Prefix(o) /\ q.pattern = o.pattern  BY <2>1 DEF Prefix, Equal
  <2>5. config[r] # NoConfig /\ Resolved(r) /\ Phase(r)  BY <2>2 DEF IInv, Phase
  <2>6. ASSUME r \in PgDiscovery
        PROVE  config'[r] # NoConfig /\ Prefix(q) = <<r>> /\ Known(OwnTarget(r), q.name)'
    <3>1. o \in Cached(OwnTarget(r)) /\ OwnTarget(r) \in DiscoveryTarget
      BY <1>1, <1>2, <2>2, <2>5, <2>6, TargetsAreKeys DEF Resolved
    <3>2. Prefix(o) = <<r>>  BY <1>2, <3>1, CachedKey DEF OwnTarget, Target
    <3>3. OwnTarget(r)' = OwnTarget(r)  BY <1>1 DEF OwnTarget
    <3>4. Cached(OwnTarget(r))' = Cached(OwnTarget(r))
      BY <1>1, <3>3 DEF Cached, postgresDiscoveryKeyOf, cacheVars
    <3> QED  BY <1>1, <2>1, <2>4, <2>5, <3>1, <3>2, <3>4 DEF Known, Names
  <2>7. ASSUME r \in Patroni, Trusted(r)
        PROVE  \E m \in listed[r] :
                 /\ o \in Cached(MemberTarget(r, m)) /\ Cached(MemberTarget(r, m))' = Cached(MemberTarget(r, m))
                 /\ MemberName(r, m) = Prefix(q) /\ MemberName(r, m)' = MemberName(r, m)
                 /\ q.pattern = config[r].pattern /\ KeyOf(o) = MemberTarget(r, m) /\ m \in Member
    <3>1. PICK m \in listed[r] : o \in Cached(MemberTarget(r, m))  BY <2>2, <2>5, <2>7 DEF Resolved
    <3>2. m \in Member  BY <1>2, <2>7 DEF TypeOK
    <3>3. MemberTarget(r, m) \in DiscoveryTarget  BY <1>2, <2>5, <2>7, <3>2, TargetsAreKeys
    <3>4. /\ Prefix(o) = MemberName(r, m) /\ o.pattern = config[r].pattern
          /\ KeyOf(o) = MemberTarget(r, m)
      BY <1>2, <3>1, <3>3, CachedKey DEF MemberTarget, Target
    <3>5. MemberName(r, m)' = MemberName(r, m) /\ MemberTarget(r, m)' = MemberTarget(r, m)
      BY <1>1 DEF MemberTarget, MemberName
    <3>6. Cached(MemberTarget(r, m))' = Cached(MemberTarget(r, m))
      BY <1>1, <3>5 DEF Cached, postgresDiscoveryKeyOf, cacheVars
    <3> QED  BY <2>4, <3>1, <3>2, <3>4, <3>5, <3>6
  <2>8. ASSUME r \in Patroni, OneAddress PROVE Known(KeyOf(q), q.name)'
    <3>1. Trusted(r)  BY <2>8 DEF Trusted
    <3>2. PICK m \in listed[r] :
            /\ o \in Cached(MemberTarget(r, m)) /\ MemberName(r, m) = Prefix(q)
            /\ q.pattern = config[r].pattern /\ KeyOf(o) = MemberTarget(r, m) /\ m \in Member
      BY <2>7, <2>8, <3>1
    <3>3. q.name \in Names(Cached(KeyOf(q)))
      <4>1. CASE q = o  BY <3>2, <4>1 DEF Names
      <4>2. CASE q \in monitored /\ KeyOf(q) \in answered
        <5>1. KeyOf(q).name[1] = r /\ KeyOf(q).name = Prefix(q)
          BY <2>2, <3>2, MemberNames DEF KeyOf, Target
        <5>2. PICK n \in listed[r] : KeyOf(q) = MemberTarget(r, n)
          BY <2>8, <4>2, <5>1, Kinds DEF AInv, Asked
        <5>3. MemberName(r, n) = MemberName(r, m)  BY <3>2, <5>1, <5>2 DEF MemberTarget, Target
        <5>4. m = n  BY <2>5, <2>8, <3>1, <5>3, ListedOnce
        <5> QED  BY <2>1, <3>2, <5>2, <5>4 DEF Names
      <4>3. CASE q \in monitored /\ KeyOf(q) \notin answered
        BY <2>3, <2>8, <4>3 DEF MInv, Remembered, Known
      <4> QED  BY <2>1, <4>1, <4>2, <4>3
    <3> QED  BY <1>3, <3>3 DEF Known, Names
  <2>9. ASSUME r \in Patroni \ inherited'
        PROVE  /\ config'[r] # NoConfig /\ Supported(config'[r].conn) /\ q.pattern = config'[r].pattern
               /\ lastFoundClusterMembers'[r] # NoMembers
               /\ \E m \in Selected(r, lastFoundClusterMembers[r])' :
                    MemberName(r, m)' = Prefix(q) /\ Known(MemberTarget(r, m), q.name)'
    <3>1. Trusted(r)  BY <1>1, <2>9 DEF Trusted
    <3>2. PICK m \in listed[r] :
            /\ o \in Cached(MemberTarget(r, m)) /\ Cached(MemberTarget(r, m))' = Cached(MemberTarget(r, m))
            /\ MemberName(r, m)' = Prefix(q) /\ q.pattern = config[r].pattern
      BY <2>7, <2>9, <3>1
    <3>3. /\ Supported(config[r].conn) /\ lastFoundClusterMembers[r] # NoMembers
          /\ listed[r] = Selected(r, lastFoundClusterMembers[r])
      BY <1>1, <2>5, <2>9, <3>2, Kinds DEF AInv, Listed
    <3>4. Selected(r, lastFoundClusterMembers[r])' = Selected(r, lastFoundClusterMembers[r])
      BY <1>1 DEF Selected, cacheVars
    <3>5. Known(MemberTarget(r, m), q.name)'  BY <2>1, <3>2 DEF Known, Names
    <3> QED  BY <1>1, <2>5, <3>2, <3>3, <3>4, <3>5 DEF cacheVars
  <2>10. OneAddress' <=> OneAddress  BY DEF OneAddress
  <2> QED  BY <1>1, <2>3, <2>6, <2>8, <2>9, <2>10 DEF Remembered
<1> QED  BY <1>4 DEF MInv

LEMMA MNext == ASSUME NamesUnambiguous, OneScope, IInv, AInv, MInv, [Next]_vars PROVE MInv'
<1>1. ASSUME NEW s \in Source, EditConfig(s) PROVE MInv'
  <2>1. /\ UNCHANGED <<cacheVars, monitored, dcsAnswered, answered>>
        /\ edited' = edited \cup {s} /\ inherited \subseteq inherited'
    BY <1>1 DEF EditConfig
  <2>2. \A r \in Source \ edited' : config'[r] = config[r]
    BY <1>1, <2>1 DEF EditConfig, IInv, TypeOK
  <2> QED  BY <2>1, <2>2, MStays
<1>2. CASE \E v \in Server, d \in Db : DatabaseChanges(v, d)
  BY <1>2, MStays DEF DatabaseChanges, histVars
<1>3. CASE \E m \in Member : MemberChanges(m)
  BY <1>3, MStays DEF MemberChanges, histVars
<1>4. CASE BeginRound  BY <1>4, MStays DEF BeginRound, histVars
<1>5. CASE UNCHANGED vars  BY <1>5, MStays DEF vars, envVars, histVars
<1> QED  BY <1>1, <1>2, <1>3, <1>4, <1>5, MResolve, MLoad DEF Next, Environment
\* Nothing but the end of a round takes a database out of monitoring.
LEMMA LostByLoading ==
  ASSUME NamesUnambiguous, IInv, [Next]_vars, NEW o \in monitored, o.name \notin Names(monitored')
  PROVE  LoadSources
<1>1. monitored' # monitored  BY DEF Names
<1>2. ~Environment /\ ~BeginRound /\ ~UNCHANGED vars
  BY <1>1 DEF Environment, EditConfig, DatabaseChanges, MemberChanges, BeginRound, vars
<1>3. \A s \in Source : ~Resolve(s)  BY <1>1, ResolveGrows
<1> QED  BY <1>2, <1>3 DEF Next

\* What a lost database is not.
LEMMA NotResolved ==
  ASSUME NamesUnambiguous, IInv, LoadSources, NEW o, o.name \notin Names(monitored'), NEW s \in Source
  PROVE  o.name \notin Names(result[s])
BY LoadedNames DEF IInv, Names, ResolveDatabases

\* The targets of a database of a discovery source are one that did answer.
LEMMA LostOfDiscovery ==
  ASSUME NamesUnambiguous, IInv, MInv, LoadSources, NEW o \in monitored, o.name \notin Names(monitored'),
         Owner(o) \in PgDiscovery \ edited
  PROVE  TargetsOf(o) \cap answered # {}
<1> DEFINE s == Owner(o)
<1>1. s \in Source /\ Resolved(s) /\ pc[s] = "done"  BY Kinds DEF IInv, LoadSources
<1>2. config[s] # NoConfig /\ Prefix(o) = <<s>> /\ Known(OwnTarget(s), o.name)
  BY DEF MInv, Remembered
<1>3. o.name \notin Names(Cached(OwnTarget(s)))  BY <1>1, <1>2, NotResolved DEF Resolved
<1>4. OwnTarget(s) \in answered /\ TargetsOf(o) = {OwnTarget(s)}
  BY <1>2, <1>3 DEF Known, TargetsOf, OwnTarget
<1> QED  BY <1>4

\* A database of a member is not in what the cache has of a member gone over.
LEMMA LostOfMember ==
  ASSUME NamesUnambiguous, OneScope, IInv, AInv, MInv, LoadSources, NEW o \in monitored, o.name \notin Names(monitored'),
         Owner(o) \in Patroni \ (edited \cup inherited)
  PROVE  /\ \A t \in TargetsOf(o) : o.name \notin Names(Cached(t))
         /\ \A t \in TargetsOf(o) : t.conn = o.conn => t = KeyOf(o)
         /\ Owner(o) \in dcsAnswered \/ TargetsOf(o) \cap answered # {}
<1> DEFINE s == Owner(o)
<1>1. s \in Source /\ s \notin PgDiscovery /\ Resolved(s) /\ Phase(s) /\ pc[s] = "done" /\ Trusted(s)
  BY Kinds DEF IInv, LoadSources, Trusted
<1>2. /\ config[s] # NoConfig /\ Supported(config[s].conn) /\ o.pattern = config[s].pattern
      /\ lastFoundClusterMembers[s] # NoMembers
      /\ \/ s \in dcsAnswered
         \/ \E m \in Selected(s, lastFoundClusterMembers[s]) :
              MemberName(s, m) = Prefix(o) /\ Known(MemberTarget(s, m), o.name)
  BY DEF MInv, Remembered
<1>3. result[s] = UNION {Cached(MemberTarget(s, m)) : m \in listed[s]}
  BY <1>1 DEF Resolved, Phase
<1>4. \A m \in listed[s] : o.name \notin Names(Cached(MemberTarget(s, m)))
  <2>1. o.name \notin Names(result[s])  BY <1>1, NotResolved
  <2> QED  BY <1>3, <2>1 DEF Names
<1>5. TargetsOf(o) = {MemberTarget(s, m) : m \in {n \in listed[s] : MemberName(s, n) = Prefix(o)}}
  BY <1>1 DEF TargetsOf
<1>6. \A t \in TargetsOf(o) : o.name \notin Names(Cached(t))  BY <1>4, <1>5
<1>7. \A t \in TargetsOf(o) : t.conn = o.conn => t = KeyOf(o)
  BY <1>2, <1>5 DEF MemberTarget, Target, KeyOf
<1>8. ASSUME s \notin dcsAnswered PROVE TargetsOf(o) \cap answered # {}
  <2>1. PICK m \in Selected(s, lastFoundClusterMembers[s]) :
          MemberName(s, m) = Prefix(o) /\ Known(MemberTarget(s, m), o.name)
    BY <1>2, <1>8
  <2>2. m \in listed[s]  BY <1>1, <1>2, <2>1 DEF AInv, Listed
  <2>3. MemberTarget(s, m) \in TargetsOf(o) /\ MemberTarget(s, m) \in answered
    BY <1>4, <1>5, <2>1, <2>2 DEF Known
  <2> QED  BY <2>3
<1> QED  BY <1>6, <1>7, <1>8

\* A discovery that fails costs no database its monitoring: one goes only when
\* its own server answered, or the DCS did and nobody last found it where its
\* member now is, provided that an address that names a cluster is the prefix of
\* the keys of no other and that joined names can be told apart.
THEOREM OnlyAnswersCost == ASSUME NamesUnambiguous, OneScope PROVE Spec => LostOnlyByAnswer
<1> DEFINE Excused(o) ==
      (o.name \notin Names(monitored') /\ Owner(o) \notin edited \cup inherited \cup Plain) =>
        \/ TargetsOf(o) \cap answered # {}
        \/ Owner(o) \in dcsAnswered /\ \A t \in TargetsOf(o) : o.name \notin Names(Cached(t))
<1>1. Init => AInv /\ MInv  BY AInit, MInit
<1>2. IInv /\ AInv /\ MInv /\ IInv' /\ [Next]_vars => AInv' /\ MInv'  BY ANext, MNext
<1>3. IInv /\ AInv /\ MInv /\ [Next]_vars => [\A o \in monitored : Excused(o)]_vars
  <2> SUFFICES ASSUME IInv, AInv, MInv, [Next]_vars, NEW o \in monitored, o.name \notin Names(monitored'),
                      Owner(o) \notin edited \cup inherited \cup Plain
               PROVE  \/ TargetsOf(o) \cap answered # {}
                      \/ Owner(o) \in dcsAnswered /\ \A t \in TargetsOf(o) : o.name \notin Names(Cached(t))
    OBVIOUS
  <2>1. LoadSources  BY LostByLoading
  <2>2. Owner(o) \in PgDiscovery \/ Owner(o) \in Patroni  BY DEF MInv, Remembered, Source
  <2> QED  BY <2>1, <2>2, LostOfDiscovery, LostOfMember
<1> QED  BY <1>1, <1>2, <1>3, Invariance, PTL DEF Spec, LostOnlyByAnswer

\* If moreover no Patroni source is given another address, a database whose
\* server did not answer goes only if its member no longer is at the address its
\* connection has: the cache still serves what was last found there.  (An object
\* of a member of a cluster the source no longer reads can outlive its entry,
\* Source.Equal being blind to the server.)
LostOnlyIfMoved ==
  [][\A o \in monitored :
       (o.name \notin Names(monitored') /\ Owner(o) \notin edited \cup inherited \cup Plain) =>
         \/ TargetsOf(o) \cap answered # {}
         \/ Owner(o) \in dcsAnswered /\ \A t \in TargetsOf(o) : t.conn # o.conn]_vars

\* With fixed addresses and names that can be told apart, discovery never forgets
\* what a silent server last had (the fallback of ResolveDatabasesFromPostgres).
THEOREM OnlyMovesOrAnswersCost == ASSUME NamesUnambiguous, OneScope, OneAddress PROVE Spec => LostOnlyIfMoved
<1> DEFINE Excused(o) ==
      (o.name \notin Names(monitored') /\ Owner(o) \notin edited \cup inherited \cup Plain) =>
        \/ TargetsOf(o) \cap answered # {}
        \/ Owner(o) \in dcsAnswered /\ \A t \in TargetsOf(o) : t.conn # o.conn
<1>1. Init => AInv /\ MInv  BY AInit, MInit
<1>2. IInv /\ AInv /\ MInv /\ IInv' /\ [Next]_vars => AInv' /\ MInv'  BY ANext, MNext
<1>3. IInv /\ AInv /\ MInv /\ [Next]_vars => [\A o \in monitored : Excused(o)]_vars
  <2> SUFFICES ASSUME IInv, AInv, MInv, [Next]_vars, NEW o \in monitored, o.name \notin Names(monitored'),
                      Owner(o) \notin edited \cup inherited \cup Plain, TargetsOf(o) \cap answered = {}
               PROVE  Owner(o) \in dcsAnswered /\ \A t \in TargetsOf(o) : t.conn # o.conn
    OBVIOUS
  <2>1. LoadSources  BY LostByLoading
  <2>2. Owner(o) \in Patroni  BY <2>1, LostOfDiscovery DEF MInv, Remembered, Source
  <2>3. Known(KeyOf(o), o.name)  BY <2>2 DEF MInv, Remembered
  <2> QED  BY <2>1, <2>2, <2>3, LostOfMember DEF Known
<1> QED  BY <1>1, <1>2, <1>3, Invariance, PTL DEF Spec, LostOnlyIfMoved
=============================================================================
