---------------------------- MODULE MCLogParser ----------------------------
(***************************************************************************)
(* Instances of LogParser for TLC.  The files are alike: one of them is    *)
(* the first, and the next new one is the next of the others.  Time stands *)
(* still only where that makes two files tie.  Behaviours with a third     *)
(* rotation have no failing reads and no ties.                             *)
(***************************************************************************)
EXTENDS LogParser

CONSTANTS f1, f2, f3

\* The first lines are of a known severity, the last two of another word.
MCSeverityOf == [l \in Line |-> IF l <= 2 THEN "ERROR" ELSE "23505"]

MCInit == Init /\ active = f1

MCNext ==
  /\ Next
  /\ content'[f3] # None => f2 \in Exists
  /\ faults' = 0 \/ rotations' <= 2
  /\ tied' => rotations' <= 2
  /\ <<active, lines>>' # <<active, lines>> => tied' \/ now' > now

MCSpec == MCInit /\ [][MCNext]_vars /\ WF_vars(Parse)
=============================================================================
