-------------------------- MODULE MCSinkMigration --------------------------
(***************************************************************************)
(* Instances of SinkMigration for TLC.                                     *)
(***************************************************************************)
EXTENDS SinkMigration
=============================================================================
