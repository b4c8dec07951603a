----------------------------- MODULE MCReaper -----------------------------
(***************************************************************************)
(* Reaper for TLC: a small number of edits, outages, failovers and         *)
(* interrupts is explored against every interleaving of the process's own  *)
(* goroutines.  A behaviour has some sources in focus: these start with    *)
(* the configuration c1 (removing one is one move, re-adding it two), the  *)
(* others are never configured.                                            *)
(***************************************************************************)
EXTENDS Reaper

CONSTANTS
  v1, v2,
  Focuses,   \* the sets of sources to look at, each by itself
  MaxEvents  \* bound: moves of the environment
VARIABLES focus, events

ASSUME MaxEvents \in Nat /\ Focuses \subseteq SUBSET Source

\* A first configuration, one with other metrics, one with another server.
c1 == [addr |-> v1, pattern |-> 1, other |-> 1]
c2 == [addr |-> v1, pattern |-> 1, other |-> 2]
c3 == [addr |-> v2, pattern |-> 1, other |-> 1]
OneConfig == {c1}
TwoConfigs == {c1, c2}
ThreeConfigs == {c1, c2, c3}

\* One move less where a discovered source, with more objects than others, meets
\* another one.
Moves ==
  IF focus \cap DiscoveredSource # {} /\ focus \ DiscoveredSource # {}
  THEN MaxEvents - 1 ELSE MaxEvents

MCInit ==
  /\ focus \in Focuses /\ events = 0 /\ Init
  /\ stored = [s \in Source |-> IF s \in focus THEN c1 ELSE NoConfig]
MCNext ==
  /\ UNCHANGED focus
  /\ \/ /\ events < Moves /\ events' = events + 1
        /\ Environment
        /\ \A s \in Source \ focus : stored'[s] = stored[s] /\ eligible'[s] = eligible[s]
     \/ UNCHANGED events /\ Process
MCSpec == MCInit /\ [][MCNext]_<<vars, events, focus>>

\* For one source.  The main loop and its only sweep goroutine take turns, so
\* that fairness of the two together is fairness of each, with half the cases
\* for TLC to look at.
LoopFairness == SF_vars(MainLoop \/ \E s \in Source : SweepTask(s)) /\ WorkerFairness
MCFairSpec == MCSpec /\ LoopFairness

\* Only outages and pauses.
OutageNext ==
  /\ UNCHANGED focus
  /\ \/ /\ events < Moves /\ events' = events + 1
        /\ TogglePause \/ \E v \in Server : ServerFailsOrRecovers(v)
     \/ UNCHANGED events /\ Process
OutageFairSpec == MCInit /\ [][OutageNext]_<<vars, events, focus>> /\ LoopFairness
====
