-------------------------- MODULE MCDbConnReaper --------------------------
(***************************************************************************)
(* DbConnReaper for TLC: metrics a, b and c with intervals of 1, 1 and 2   *)
(* seconds, so a tick of 1 and a metric that is due every other tick.      *)
(***************************************************************************)
EXTENDS DbConnReaper, TLC

CONSTANTS a, b, c

MCInterval == (a :> 1) @@ (b :> 1) @@ (c :> 2)
====
