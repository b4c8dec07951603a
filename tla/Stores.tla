------------------------------- MODULE Stores -------------------------------
(***************************************************************************)
(* The stores of sources, metrics and presets (internal/sources/yaml.go,   *)
(* internal/sources/postgres.go, internal/metrics/yaml.go,                 *)
(* internal/metrics/postgres.go, internal/metrics/default.go) and the      *)
(* requests of the web server (internal/webserver/source.go, metric.go)    *)
(* that change them while the reaper reads them.                           *)
(*                                                                         *)
(* A store holds metrics and presets, or sources: their names are those of *)
(* Metric then, and there are no presets.  A YAML file is read, changed    *)
(* and written back whole under the mutex of its reader-writer, and        *)
(* os.WriteFile first truncates it.  In a sources file a value may be a    *)
(* reference to an environment variable, expanded whenever the file is     *)
(* read.  A configuration database does each call in one statement, but    *)
(* reads metrics and presets in two.                                       *)
(***************************************************************************)
EXTENDS FiniteSets

CONSTANTS Client,      \* concurrent HTTP requests, and the reaper
          Metric, Preset,
          Value,       \* definitions clients send
          Reference,   \* a value that refers to an environment variable
          Secret,      \* what the variable holds
          Absent, Unreadable, NoRequest, None

Name == Metric \cup Preset
Stored == Value \cup {Reference, Secret}
Content == [Name -> Stored \cup {Absent}]
Empty == [n \in Name |-> Absent]

\* A request, what is left of it and how it went so far.
AnyRequest ==
  [op: {"get", "create", "update", "delete"}, todo: SUBSET Name, value: Value \cup {Absent},
   outcome: {"ok", "exists", "error"}, seen: Content]

ASSUME StoresAssumption ==
  /\ Metric \cap Preset = {}
  /\ Reference # Secret /\ {Reference, Secret} \cap Value = {}
  /\ Absent \notin Value \cup {Reference, Secret}
  /\ None \notin Client
  /\ NoRequest \notin AnyRequest /\ Unreadable \notin Content

VARIABLES
  backend,    \* which reader-writer was configured
  ofSources,  \* it is one of sources
  file,       \* the content of the file or the tables, as it is stored
  lock,       \* the mutex of the file's reader-writer: its holder or None
  pc,         \* where each client is in its request
  request,    \* what it asked for, what is left of it and how it went so far
  item,       \* the name the current call is about
  image       \* the content the current call is going to write

vars == <<backend, ofSources, file, lock, pc, request, item, image>>

\* What the store has names for.
Held == IF ofSources THEN Metric ELSE Name

\* expandEnvVars: only the YAML stores of sources expand references.
Expand(v) == IF v = Reference /\ ofSources /\ backend \in {"file", "directory"} THEN Secret ELSE v
Expanded(s) == IF s = Unreadable THEN s ELSE [n \in Name |-> Expand(s[n])]

\* What may be left of content s when writing it stops half-way.
Cut(s) == {Unreadable} \cup {[n \in Name |-> IF n \in K THEN s[n] ELSE Absent] : K \in SUBSET Name}

TypeOK ==
  /\ backend \in {"file", "directory", "database", "default"} /\ ofSources \in BOOLEAN
  /\ file \in Content \cup {Unreadable}
  /\ lock \in Client \cup {None}
  /\ pc \in [Client -> {"idle", "call", "locked", "open", "writing", "return"}]
  /\ request \in [Client -> AnyRequest \cup {NoRequest}]
  /\ image \in [Client -> Content] /\ item \in [Client -> Name \cup {None}]
  /\ \A c \in Client :
       /\ pc[c] = "idle" <=> request[c] = NoRequest
       /\ pc[c] \in {"locked", "open", "writing"} => lock = c
       /\ pc[c] = "writing" => file = Empty
  /\ \A c \in Client : lock = c => pc[c] \notin {"idle", "call"}

----------------------------------------------------------------------------

\* The store as it was set up, and no request yet.
Init ==
  /\ backend \in {"file", "directory", "database", "default"}
  /\ ofSources \in BOOLEAN /\ (backend = "default" => ~ofSources)
  /\ file \in [Name -> Value \cup {Reference, Absent}]
  /\ \A n \in Name \ Held : file[n] = Absent
  /\ (ofSources /\ backend \in {"file", "directory"}) \/ \A n \in Name : file[n] # Reference
  /\ lock = None
  /\ pc = [c \in Client |-> "idle"]
  /\ request = [c \in Client |-> NoRequest]
  /\ item = [c \in Client |-> None]
  /\ image = [c \in Client |-> Empty]

\* The requests of the handlers.  (One that cannot be parsed is refused before it
\* reaches the store.)  Every GET reads the whole store.
NewRequest(op, S, v) == [op |-> op, todo |-> S, value |-> v, outcome |-> "ok", seen |-> Empty]

\* A collection: a GET, and a POST of several new definitions.
handleMetrics ==
  {NewRequest("get", Held, Absent)} \cup {NewRequest("create", S, v) : S \in (SUBSET Metric) \ {{}}, v \in Value}
handlePresets ==
  {NewRequest("get", Held, Absent)} \cup {NewRequest("create", S, v) : S \in (SUBSET Preset) \ {{}}, v \in Value}

\* A source is created alone.
handleSources ==
  {NewRequest("get", Held, Absent)} \cup {NewRequest("create", {n}, v) : n \in Metric, v \in Value}

\* An item: GET, PUT, which creates what is not there, and DELETE.
Item(S) ==
  {NewRequest("get", Held, Absent)} \cup {NewRequest("update", {n}, v) : n \in S, v \in Value}
    \cup {NewRequest("delete", {n}, Absent) : n \in S}
handleMetricItem == Item(Metric)
handlePresetItem == Item(Preset)
handleSourceItem == Item(Metric)

Requests ==
  IF ofSources THEN handleSources \cup handleSourceItem
  ELSE UNION {handleMetrics, handleMetricItem, handlePresets, handlePresetItem}

Ask(c) ==
  /\ pc[c] = "idle"
  /\ \E r \in Requests : request' = [request EXCEPT ![c] = r]
  /\ pc' = [pc EXCEPT ![c] = "call"]
  /\ UNCHANGED <<backend, ofSources, file, lock, item, image>>

\* Plausible bug: the method starts without waiting for the lock.
Defect_NoLock(c) ==
  /\ pc[c] = "call" /\ backend \in {"file", "directory"}
  /\ lock' = IF lock = None THEN c ELSE lock
  /\ pc' = [pc EXCEPT ![c] = "locked"]
  /\ UNCHANGED <<backend, ofSources, file, request, item, image>>

\* fcr.Lock() / fmr.Lock() at the head of every exported method.
Lock(c) ==
  /\ pc[c] = "call" /\ backend \in {"file", "directory"}
  /\ lock = None
  /\ lock' = c
  /\ pc' = [pc EXCEPT ![c] = "locked"]
  /\ UNCHANGED <<backend, ofSources, file, request, item, image>>

\* The current call of c has come to its end with outcome o.
CallEnds(c, o) ==
  /\ request' = [request EXCEPT ![c].outcome = o]
  /\ pc' = [pc EXCEPT ![c] = "return"]

\* The entries of P are read, or those in S of them: the call of a GET is done when
\* there are none left.
See(c, P, S) ==
  request' = [request EXCEPT ![c].todo = @ \ P,
                             ![c].seen = [n \in Name |-> IF n \in S THEN Expanded(file)[n] ELSE @[n]]]

GetAll(c) ==
  /\ pc[c] = "locked" /\ file # Unreadable
  /\ request[c].op = "get"
  /\ See(c, Held, Held)
  /\ pc' = [pc EXCEPT ![c] = "return"]
  /\ UNCHANGED <<backend, ofSources, file, lock, item, image>>

\* The entry of n becomes the definition that was sent; that of a DELETE is Absent.
Edited(c, n, s) ==
  [s EXCEPT ![n] = request[c].value]

\* Plausible bug: a creation does not look for an entry of that name.
Defect_CreateReplaces(c) ==
  /\ pc[c] = "locked" /\ file # Unreadable
  /\ request[c].op # "get"
  /\ \E n \in request[c].todo :
       /\ item' = [item EXCEPT ![c] = n]
       /\ image' = [image EXCEPT ![c] = Edited(c, n, Expanded(file))]
       /\ pc' = [pc EXCEPT ![c] = "open"]
  /\ UNCHANGED <<backend, ofSources, file, lock, request>>

\* The content is read and the change is made to the copy; range over a map of
\* new definitions yields them in any order.
Edit(c) ==
  /\ pc[c] = "locked" /\ file # Unreadable
  /\ request[c].op # "get"
  /\ \E n \in request[c].todo :
       IF request[c].op = "create" /\ file[n] # Absent
       THEN CallEnds(c, "exists") /\ UNCHANGED <<item, image>>
       ELSE /\ item' = [item EXCEPT ![c] = n]
            /\ image' = [image EXCEPT ![c] = Edited(c, n, Expanded(file))]
            /\ pc' = [pc EXCEPT ![c] = "open"]
            /\ UNCHANGED request
  /\ UNCHANGED <<backend, ofSources, file, lock>>

\* os.Stat, os.ReadFile, yaml.Unmarshal or Validate fails: always when the file was
\* cut in the middle of an entry.
ReadFails(c) ==
  /\ pc[c] = "locked"
  /\ CallEnds(c, "error")
  /\ UNCHANGED <<backend, ofSources, file, lock, item, image>>

\* os.WriteFile opens the file: that truncates it.
Truncate(c) ==
  /\ pc[c] = "open" /\ backend = "file"
  /\ file' = Empty
  /\ request' = [request EXCEPT ![c].todo = @ \ {item[c]}]
  /\ pc' = [pc EXCEPT ![c] = "writing"]
  /\ UNCHANGED <<backend, ofSources, lock, item, image>>

\* It cannot be opened; a directory never can.
OpenFails(c) ==
  /\ pc[c] = "open"
  /\ CallEnds(c, "error")
  /\ UNCHANGED <<backend, ofSources, file, lock, item, image>>

WriteOut(c) ==
  /\ pc[c] = "writing"
  /\ file' = image[c]
  /\ pc' = [pc EXCEPT ![c] = "return"]
  /\ UNCHANGED <<backend, ofSources, lock, request, item, image>>

\* The disk is full.
WriteFails(c) ==
  /\ pc[c] = "writing"
  /\ file' \in Cut(image[c])
  /\ CallEnds(c, "error")
  /\ UNCHANGED <<backend, ofSources, lock, item, image>>

\* Plausible bug: the early return of a creation that finds the name taken leaves
\* the mutex locked.
Defect_LockedOnConflict(c) ==
  IF lock = c /\ request[c].outcome # "exists" THEN None ELSE lock

\* The deferred Unlock.
Unlocked(c) == IF lock = c THEN None ELSE lock

\* The method returns: the handler goes on with the next definition or answers.
Return(c) ==
  /\ pc[c] = "return"
  /\ lock' = Unlocked(c)
  /\ item' = [item EXCEPT ![c] = None]
  /\ image' = [image EXCEPT ![c] = Empty]
  /\ IF request[c].outcome = "ok" /\ request[c].todo # {}
     THEN pc' = [pc EXCEPT ![c] = "call"] /\ UNCHANGED request
     ELSE /\ pc' = [pc EXCEPT ![c] = "idle"]
          /\ request' = [request EXCEPT ![c] = NoRequest]
  /\ UNCHANGED <<backend, ofSources, file>>

----------------------------------------------------------------------------
\* The configuration database.

\* GetMetrics reads pgwatch.metric, then pgwatch.preset; GetSources has one table.
NextTable(c) == IF Metric \subseteq request[c].todo THEN Metric ELSE Preset

SelectTable(c) ==
  /\ pc[c] = "call" /\ backend = "database"
  /\ request[c].op = "get"
  /\ See(c, NextTable(c), NextTable(c))
  /\ pc' = [pc EXCEPT ![c] = IF request'[c].todo = {} THEN "return" ELSE "call"]
  /\ UNCHANGED <<backend, ofSources, file, lock, item, image>>

\* The connection is lost while GetMetrics goes over the rows: rows.Next says there
\* are no more, and rows.Err is not asked.  (CollectRows of GetSources asks.)
RowsEndEarly(c) ==
  /\ pc[c] = "call" /\ backend = "database" /\ ~ofSources
  /\ request[c].op = "get"
  /\ \E S \in (SUBSET NextTable(c)) \ {NextTable(c)} : See(c, NextTable(c), S)
  /\ pc' = [pc EXCEPT ![c] = IF request'[c].todo = {} THEN "return" ELSE "call"]
  /\ UNCHANGED <<backend, ofSources, file, lock, item, image>>

\* One statement: insert, insert on conflict do update, or delete.
Execute(c) ==
  /\ pc[c] = "call" /\ backend = "database"
  /\ request[c].op # "get"
  /\ \E n \in request[c].todo :
       IF request[c].op = "create" /\ file[n] # Absent
       THEN CallEnds(c, "exists") /\ UNCHANGED file
       ELSE /\ file' = Edited(c, n, file)
            /\ request' = [request EXCEPT ![c].todo = @ \ {n}]
            /\ pc' = [pc EXCEPT ![c] = "return"]
  /\ UNCHANGED <<backend, ofSources, lock, item, image>>

\* The statement fails, or its answer is lost after it was done.
ConnectionFails(c) ==
  /\ backend = "database"
  /\ \/ pc[c] = "call"
     \/ pc[c] = "return" /\ request[c].outcome = "ok"
  /\ CallEnds(c, "error")
  /\ UNCHANGED <<backend, ofSources, file, lock, item, image>>

\* The definitions built into the program: they can be read and not changed.
BuiltIn(c) ==
  /\ pc[c] = "call" /\ backend = "default"
  /\ \/ /\ request[c].op = "get"
        /\ See(c, Held, Held)
        /\ pc' = [pc EXCEPT ![c] = "return"]
     \/ request[c].op # "get" /\ CallEnds(c, "error")
  /\ UNCHANGED <<backend, ofSources, file, lock, item, image>>

\* The process dies, at worst while it writes the file, and is started again.
Crash ==
  /\ file' \in (UNION {Cut(image[c]) : c \in {d \in Client : pc[d] = "writing"}})
               \cup IF \E d \in Client : pc[d] = "writing" THEN {} ELSE {file}
  /\ lock' = None
  /\ pc' = [c \in Client |-> "idle"]
  /\ request' = [c \in Client |-> NoRequest]
  /\ item' = [c \in Client |-> None]
  /\ image' = [c \in Client |-> Empty]
  /\ UNCHANGED <<backend, ofSources>>

----------------------------------------------------------------------------

Step(c) ==
  \/ GetAll(c) \/ Edit(c) \/ Truncate(c) \/ WriteOut(c) \/ Return(c)
  \/ SelectTable(c) \/ Execute(c) \/ BuiltIn(c)

Failure(c) == ReadFails(c) \/ OpenFails(c) \/ WriteFails(c) \/ ConnectionFails(c) \/ RowsEndEarly(c)

Next == Crash \/ \E c \in Client : Ask(c) \/ Lock(c) \/ Step(c) \/ Failure(c)

Spec == Init /\ [][Next]_vars

\* A call goes on by itself or fails; a mutex of Go hands itself to a waiter after
\* one millisecond, so none waits for ever while others lock and unlock it.
Fairness == \A c \in Client : SF_vars(Lock(c)) /\ WF_vars(Step(c) \/ Failure(c))

FairSpec == Spec /\ Fairness

----------------------------------------------------------------------------
\* Properties

\* While the file is being written, the change it is written for has taken place.
Current ==
  IF \E c \in Client : pc[c] = "writing"
  THEN image[CHOOSE c \in Client : pc[c] = "writing"]
  ELSE file

Atomic == INSTANCE AtomicStore
  WITH Value <- Stored,
       Parts <- {Name, Metric, Preset},
       lossy <- backend = "database" /\ ~ofSources,
       store <- Expanded(Current)

\* Whatever requests and reads overlap, each call is done at one moment: no
\* update is lost, no two creations of a name both succeed, no reader sees a
\* half-written file, and only a failed or interrupted write loses entries
\* (AtomicStore).  A read of the metrics of a database may still miss some, see
\* RowsEndEarly.
CallsAreAtomic == Atomic!Spec

\* Every request is answered unless the process dies: whichever way a call
\* returns, the mutex is free for the next one.
EveryRequestAnswered == \A c \in Client : request[c] # NoRequest ~> request[c] = NoRequest

\* What docs/howto/yaml_configuration.md says: references in the file keep secrets
\* out of it, as long as no client sends the secret.
SecretsStayOut == file # Unreadable => \A n \in Name : file[n] # Secret

\* What internal/metrics/postgres.go says of GetMetrics: it "reads the metrics and
\* presets definitions from the pgwatch.metric and pgwatch.preset tables".  Of the
\* names a read has done with, it has what the tables held then.
ReadsTheTables ==
  [][\A c \in Client :
       (/\ backend = "database" /\ request[c] # NoRequest /\ request[c].op = "get"
        /\ request'[c] # NoRequest /\ request'[c].outcome = "ok")
         => \A n \in request[c].todo \ request'[c].todo : request'[c].seen[n] = file[n]]_vars
=============================================================================
