------------------------------ MODULE MCSinks ------------------------------
(***************************************************************************)
(* Instances of Sinks for TLC.  Scrapes and failing writers meet only in   *)
(* the cache, which no failure touches, so that a behaviour has either:    *)
(* with scrapes the writers answer and nothing is stopped.                 *)
(***************************************************************************)
EXTENDS Sinks

VARIABLE scenario

\* The rows of an envelope have one of their identities twice.
MCSeries  == [m \in Metric |-> <<"i", "i", "j">>]
MCWriters == <<"rpc", "prometheus", "json">>

MCInit == scenario \in {"scrapes", "faults"} /\ Init

MCNext ==
  /\ UNCHANGED scenario
  /\ Next
  /\ IF scenario = "faults" THEN scrape' = scrape
     ELSE stopped' = stopped /\ \A t \in Thread : call'[t] # None => ~call'[t].err

MCSpec == MCInit /\ [][MCNext]_<<vars, scenario>> /\ Fairness
=============================================================================
