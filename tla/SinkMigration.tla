--------------------------- MODULE SinkMigration ---------------------------
(***************************************************************************)
(* The measurements database before pgwatch uses it                        *)
(* (internal/sinks/postgres.go): the admin schema is installed statement   *)
(* by statement if it does not exist, and "config upgrade" applies the     *)
(* migrations that admin.migration does not list.  All but one of them run *)
(* in a transaction together with their entry in the list.  Number 01409,  *)
(* which turns tables partitioned by database into ones partitioned by     *)
(* time, does not: the command may die or get an error after any of its    *)
(* statements, and is then run again.                                      *)
(*                                                                         *)
(* A table of the old layout has one partition per database, with leaves   *)
(* that hold the rows.  Rows are told apart by their leaf.  The library    *)
(* that keeps the list (pgx-migrator) is external.                         *)
(*                                                                         *)
(* A definition Defect_X is not part of the specification: it is a slip    *)
(* the definition below it could have, kept to show that the properties    *)
(* notice it.                                                              *)
(***************************************************************************)
EXTENDS MeasurementsDatabase

dbVars == <<installed, applied, timescale, own, renamed, parts, place>>
cmdVars == <<table, todo, moving>>
vars == <<dbVars, cmdVars, pc, aborts>>

\* The types.  01409 in progress has renamed the table it moves rows from.
TypeOK ==
  /\ installed \in 0..Statements /\ applied \in 0..Migrations /\ timescale \in BOOLEAN
  /\ own \in [Table -> {"list", "range", "hyper"}] /\ renamed \subseteq Table
  /\ parts \in [Table -> SUBSET Part] /\ place \in [Table -> [Leaf -> SUBSET {"old", "new"}]]
  /\ pc \in {"down", "install", "migrate", "list", "next", "rename", "subpartitions", "move",
             "drop", "record", "done"}
  /\ table \in Table \cup {NoTable} /\ todo \subseteq Table /\ moving \subseteq Part
  /\ aborts \in 0..MaxAborts
  /\ pc \in {"subpartitions", "move", "drop"} => table \in renamed

\* A new database, or one of an older version: with none, two or more of the
\* migrations, and tables of the layout of that time.
Init ==
  /\ \/ installed = 0 /\ applied = 0 /\ timescale = FALSE
     \/ installed = Statements /\ applied \in 0..Migrations /\ timescale \in BOOLEAN
  /\ own = [t \in Table |-> IF timescale THEN "hyper"
                            ELSE IF installed = 0 \/ applied >= Repartition THEN "range" ELSE "list"]
  /\ renamed = {}
  /\ parts = [t \in Table |-> IF own[t] = "list" THEN Part ELSE {}]
  /\ place = [t \in Table |-> [l \in Leaf |-> IF own[t] = "list" THEN {"old"} ELSE {"new"}]]
  /\ pc = "down" /\ table = NoTable /\ todo = {} /\ moving = {} /\ aborts = 0

-----------------------------------------------------------------------------
(* NewPostgresSinkMigrator.                                                *)

Start ==
  /\ pc = "down"
  /\ pc' = IF installed > 0 THEN "migrate" ELSE "install"
  /\ UNCHANGED <<dbVars, cmdVars, aborts>>

\* The first statement creates the schema, with a full admin.migration.
InstallStatement ==
  /\ pc = "install" /\ installed < Statements
  /\ installed' = installed + 1
  /\ applied' = Migrations
  /\ pc' = IF installed' = Statements THEN "migrate" ELSE "install"
  /\ UNCHANGED <<timescale, own, renamed, parts, place, cmdVars, aborts>>

-----------------------------------------------------------------------------
(* Migrate.                                                                *)

\* A migration that only replaces functions, and its entry: one transaction.
TxMigration ==
  /\ pc = "migrate" /\ applied < Migrations /\ applied # Repartition - 1
  /\ applied' = applied + 1
  /\ UNCHANGED <<installed, timescale, own, renamed, parts, place, cmdVars, pc, aborts>>

UpToDate ==
  /\ pc = "migrate" /\ applied = Migrations
  /\ pc' = "done"
  /\ UNCHANGED <<dbVars, cmdVars, aborts>>

Defect_NoTimescaleGuard ==
  /\ pc = "migrate" /\ applied = Repartition - 1
  /\ pc' = "list"
  /\ UNCHANGED <<dbVars, cmdVars, aborts>>

\* 01409: functions are replaced, and a TimescaleDB has nothing else to do.
BeginRepartition ==
  /\ pc = "migrate" /\ applied = Repartition - 1
  /\ pc' = IF timescale THEN "record" ELSE "list"
  /\ UNCHANGED <<dbVars, cmdVars, aborts>>

\* sqlListMetricTables; the renamed ones are among them and skipped.
ListMetricTables ==
  /\ pc = "list"
  /\ todo' = Table /\ pc' = "next"
  /\ UNCHANGED <<dbVars, table, moving, aborts>>

Defect_MigratedIfMoved(t) == own[t] = "range" /\ t \notin renamed
isTableMigrated(t) == own[t] = "range"

NextTable ==
  /\ pc = "next"
  /\ \/ /\ todo = {} /\ pc' = "record" /\ UNCHANGED <<table, todo>>
     \/ \E t \in todo :
          /\ table' = t /\ todo' = todo \ {t}
          /\ pc' = IF isTableMigrated(t) THEN "next" ELSE "rename"
  /\ UNCHANGED <<dbVars, moving, aborts>>

\* One transaction: the old table is renamed and a new one takes its name; an
\* error if there is a table of that name.
RenameTable ==
  /\ pc = "rename"
  /\ IF table \in renamed THEN pc' = "down" /\ UNCHANGED <<own, renamed>>
     ELSE /\ own' = [own EXCEPT ![table] = "range"] /\ renamed' = renamed \cup {table}
          /\ pc' = "subpartitions"
  /\ UNCHANGED <<installed, applied, timescale, parts, place, cmdVars, aborts>>

Subpartitions(t) == parts[t]

ListSubpartitions ==
  /\ pc = "subpartitions"
  /\ moving' = Subpartitions(table) /\ pc' = "move"
  /\ UNCHANGED <<dbVars, table, todo, aborts>>

Defect_CopyOnly(p) ==
  /\ place' = [place EXCEPT ![table] = [l \in Leaf |-> IF l = p THEN @[l] \cup {"new"} ELSE @[l]]]
  /\ UNCHANGED parts

\* The rows are inserted into the new table and their partition is dropped, in
\* one transaction.
MoveRows(p) ==
  /\ place' = [place EXCEPT ![table] = [l \in Leaf |-> IF l = p THEN {"new"} ELSE @[l]]]
  /\ parts' = [parts EXCEPT ![table] = @ \ {p}]

\* Leaves come first.
MoveSubpartition ==
  /\ pc = "move"
  /\ \E p \in moving :
       /\ p \in Leaf \/ moving \cap Leaf = {}
       /\ MoveRows(p) /\ moving' = moving \ {p}
  /\ UNCHANGED <<installed, applied, timescale, own, renamed, table, todo, pc, aborts>>

AllMoved ==
  /\ pc = "move" /\ moving = {}
  /\ pc' = "drop"
  /\ UNCHANGED <<dbVars, cmdVars, aborts>>

\* The renamed table, with all that is still below it.
DropRenamed ==
  /\ pc = "drop"
  /\ renamed' = renamed \ {table}
  /\ parts' = [parts EXCEPT ![table] = {}]
  /\ place' = [place EXCEPT ![table] = [l \in Leaf |-> @[l] \ {"old"}]]
  /\ pc' = "next"
  /\ UNCHANGED <<installed, applied, timescale, own, cmdVars, aborts>>

\* The library enters 01409 into the list.
RecordRepartition ==
  /\ pc = "record"
  /\ applied' = Repartition /\ pc' = "migrate"
  /\ UNCHANGED <<installed, timescale, own, renamed, parts, place, cmdVars, aborts>>

\* A statement fails and the command ends with an error, or it is killed.
Abort ==
  /\ pc \notin {"down", "done"} /\ aborts < MaxAborts
  /\ aborts' = aborts + 1 /\ pc' = "down"
  /\ table' = NoTable /\ todo' = {} /\ moving' = {}
  /\ UNCHANGED dbVars

\* The command is called again, or another one is: nothing changes.
Again ==
  /\ pc = "done" /\ pc' = "down"
  /\ table' = NoTable /\ todo' = {} /\ moving' = {}
  /\ UNCHANGED <<dbVars, aborts>>

Work ==
  \/ Start \/ InstallStatement \/ TxMigration \/ UpToDate
  \/ BeginRepartition \/ ListMetricTables \/ NextTable \/ RenameTable
  \/ ListSubpartitions \/ MoveSubpartition \/ AllMoved \/ DropRenamed \/ RecordRepartition

Next == Work \/ Abort \/ Again

Spec == Init /\ [][Next]_vars

\* The administrator repeats the command until it succeeds.
FairSpec == Spec /\ WF_vars(Work)

-----------------------------------------------------------------------------
(* Properties.                                                             *)

\* The upgrade succeeds in the end: no earlier attempt has left anything behind
\* that later ones stumble over.
UpgradeSucceeds == <>(pc = "done")
=============================================================================
