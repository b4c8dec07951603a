------------------------- MODULE MCChangeDetection -------------------------
(***************************************************************************)
(* Instances of ChangeDetection for TLC.  The detectors share nothing but  *)
(* their order, so that a behaviour has one or two kinds in focus: the     *)
(* server changes and queries fail for them, while the other kinds are     *)
(* empty and their queries succeed.                                        *)
(***************************************************************************)
EXTENDS ChangeDetection

VARIABLE focus

Focuses == {{k} : k \in Kind} \cup {{"functions", "settings"}, {"settings", "privileges"}}

MCInit ==
  /\ focus \in Focuses /\ Init
  /\ \A k \in Kind \ focus : catalog[k] = Empty

MCNext ==
  /\ UNCHANGED focus
  /\ \/ \E k \in focus, o \in Obj : ServerChanges(k, o)
     \/ NewDbConn \/ BeginRun \/ EndRun
     \/ \E k \in Kind : Detector(k) /\ (k \in focus \/ ChangeState'[k] = catalog[k])

MCSpec == MCInit /\ [][MCNext]_<<vars, focus>> /\ Fairness
=============================================================================
