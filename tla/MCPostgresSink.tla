-------------------------- MODULE MCPostgresSink --------------------------
(***************************************************************************)
(* PostgresSink for TLC, in one of two scenarios: "time", where envelopes  *)
(* of one row come from several days, at most two to a batch, and "rows",  *)
(* where envelopes of one day hold no or two rows, three to a batch, and   *)
(* nobody drops partitions.                                                *)
(***************************************************************************)
EXTENDS PostgresSink

VARIABLE scenario

MCInit == Init /\ scenario \in {"time", "rows"}

InScenario ==
  IF scenario = "time"
  THEN /\ Len(cache) <= 2
       /\ \A i \in DOMAIN cache : cache[i].rows = 1 /\ cache[i].metric <= 2
  ELSE /\ today = 0 /\ \A m \in Metric : dropped[m] = "no"
       /\ \A i \in DOMAIN cache : cache[i].rows # 1

MCNext == Next /\ UNCHANGED scenario /\ InScenario'

MCSpec == MCInit /\ [][MCNext]_<<vars, scenario>> /\ WF_<<vars, scenario>>(Flush /\ UNCHANGED scenario)
=============================================================================
