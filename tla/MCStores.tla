------------------------------ MODULE MCStores ------------------------------
(***************************************************************************)
(* Instances of Stores for TLC.                                            *)
(***************************************************************************)
EXTENDS Stores
=============================================================================
