------------------------ MODULE MeasurementsDatabase ------------------------
(***************************************************************************)
(* The state of the measurements database and of the command that installs *)
(* and migrates it (internal/sinks/postgres.go), and what the operator may *)
(* expect of the database at any time.  The steps are in SinkMigration.    *)
(***************************************************************************)
EXTENDS Naturals, FiniteSets

CONSTANTS
  Table,         \* metric tables
  Leaf, Branch,  \* subpartitions with rows, subpartitions of databases
  NoTable,
  MaxAborts      \* bound: crashes and errors

ASSUME MigrationAssumption ==
  /\ IsFiniteSet(Table) /\ Leaf \cap Branch = {} /\ NoTable \notin Table
  /\ MaxAborts \in Nat

Part == Leaf \cup Branch

Statements == 6   \* metricSchemaSQLs
Migrations == 6   \* migrations()
Repartition == 3  \* the place of 01409 in the list

VARIABLES
  \* the database
  installed,   \* statements of metricSchemaSQLs that were executed
  applied,     \* length of admin.migration
  timescale,   \* admin.storage_schema_type
  own,         \* [Table -> "list", "range", "hyper"]: the table of the metric's name
  renamed,     \* tables whose old self exists under another name
  parts,       \* [Table -> SUBSET Part]: subpartitions of the old layout
  place,       \* [Table -> [Leaf -> SUBSET {"old", "new"}]]: where the rows are
  \* the command
  pc, table, todo, moving, aborts

-----------------------------------------------------------------------------
(* Properties.                                                             *)

\* No row is lost and none is there twice, wherever the command was cut off and
\* however often it was run again.
RowsInOnePlace == \A t \in Table, l \in Leaf : \E p \in {"old", "new"} : place[t][l] = {p}

\* A database that is said to be up to date has tables partitioned by time, or
\* those of TimescaleDB as they were.
UpToDateMeansPartitioned ==
  applied >= Repartition => \A t \in Table : own[t] = IF timescale THEN "hyper" ELSE "range"

\* "Idempotency: running the migrations again must not error and must not lose
\* data": once the upgrade is done, the rows are in the tables of their metrics.
RerunFindsAllRows == applied >= Repartition => \A t \in Table, l \in Leaf : "new" \in place[t][l]

\* What docs/reference/cli_env.md says of "config init": it is to "initialize the
\* configuration and/or sink database with the required tables and functions".  A
\* command that ends without an error has left all of them.
InitInstallsAll == pc = "done" => installed = Statements
=============================================================================
