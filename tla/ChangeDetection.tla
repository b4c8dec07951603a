-------------------------- MODULE ChangeDetection --------------------------
(***************************************************************************)
(* The metric change_events (internal/reaper/database.go, from             *)
(* GetObjectChangesMeasurement down): five detectors run one after the     *)
(* other, each compares what it reads from the server with the ChangeState *)
(* of the DbConn and sends the differences as events.  The server changes  *)
(* beside them and any query may fail.                                     *)
(*                                                                         *)
(* An object has a fingerprint: the md5 of a function or a table, the md5  *)
(* and validity of an index, the value of a setting.  A privilege is there *)
(* or not.  A detector holds the lock of the DbConn and reads one snapshot *)
(* of the server, so that it is one step.                                  *)
(*                                                                         *)
(* A definition Defect_X is not part of the specification: it is a slip    *)
(* the definition below it could have, kept to show that the properties    *)
(* notice it.                                                              *)
(***************************************************************************)
EXTENDS Naturals, FiniteSets

CONSTANTS
  Obj,         \* identities of objects
  Hash,        \* fingerprints
  Granted,     \* the one fingerprint of a privilege
  Absent,      \* the object does not exist
  NoState,     \* the map of a kind is missing in ChangeState
  MaxChanges   \* bound on what happens beside the detectors

ASSUME ChangeAssumption ==
  /\ Granted \in Hash /\ Absent \notin Hash /\ IsFiniteSet(Obj)
  /\ NoState \notin [Obj -> Hash \cup {Absent}]
  /\ MaxChanges \in Nat

Hashed == {"functions", "tables", "indexes"}
Kind   == Hashed \cup {"settings", "privileges"}

Fingerprint(k) == IF k = "privileges" THEN {Granted} ELSE Hash

\* The state of one kind of objects.
Objects == [Obj -> Hash \cup {Absent}]
Empty   == [o \in Obj |-> Absent]
Present(S) == {o \in Obj : S[o] # Absent}

VARIABLES
  catalog,      \* [Kind -> Objects]: what the server holds
  changes,      \* how much has happened
  ChangeState,  \* [Kind -> Objects or NoState]
  pc,           \* the detector that runs next, "idle" or "summary"
  \* what the sinks were sent, and what a reader makes of it
  events,       \* the events of the last envelope: [kind, obj, event]
  view,         \* [Kind -> Objects]: the first snapshot and the events since
  unsent        \* kinds whose events were lost to a row that cannot be read

stateVars == <<ChangeState, events, view, unsent>>
vars == <<catalog, changes, pc, stateVars>>

\* The order of the detectors in GetObjectChangesMeasurement.
After == [functions |-> "tables", tables |-> "indexes", indexes |-> "settings",
          settings |-> "privileges", privileges |-> "summary"]

Event == [kind: Kind, obj: Obj, event: {"create", "alter", "drop"}]

\* The types.  By the end of a run every kind has its map, failed queries or not.
TypeOK ==
  /\ catalog \in [Kind -> Objects] /\ changes \in 0..MaxChanges
  /\ ChangeState \in [Kind -> Objects \cup {NoState}]
  /\ pc = "summary" => ChangeState \in [Kind -> Objects]
  /\ pc \in Kind \cup {"idle", "summary"}
  /\ events \subseteq Event /\ view \in [Kind -> Objects] /\ unsent \subseteq Kind

Init ==
  /\ \E P \in [Kind -> SUBSET Obj] :
       catalog = [k \in Kind |-> [o \in Obj |-> IF o \in P[k] THEN Granted ELSE Absent]]
  /\ changes = 0
  /\ ChangeState = [k \in Kind |-> NoState]
  /\ pc = "idle"
  /\ events = {}
  /\ view = [k \in Kind |-> Empty] /\ unsent = {}

-----------------------------------------------------------------------------
(* The environment.                                                        *)

Happens == changes < MaxChanges /\ changes' = changes + 1

\* Somebody creates, alters or drops an object, or grants or revokes.
ServerChanges(k, o) ==
  /\ Happens
  /\ \E h \in (Fingerprint(k) \cup {Absent}) \ {catalog[k][o]} : catalog' = [catalog EXCEPT ![k][o] = h]
  /\ UNCHANGED <<pc, stateVars>>

\* The source is edited or pgwatch restarted: a new DbConn knows nothing.
NewDbConn ==
  /\ Happens /\ pc = "idle"
  /\ ChangeState' = [k \in Kind |-> NoState]
  /\ view' = [k \in Kind |-> Empty] /\ unsent' = {}
  /\ events' = {} /\ UNCHANGED <<catalog, pc>>

-----------------------------------------------------------------------------
(* The detectors.                                                          *)

\* The map is made before the query, and its absence is what firstRun means.
firstRun(k) == ChangeState[k] = NoState
Known(k) == IF firstRun(k) THEN Empty ELSE ChangeState[k]

EventsOf(k, kinds) == UNION {{[kind |-> k, obj |-> o, event |-> e] : o \in kinds[e]} : e \in DOMAIN kinds}

\* A detector ends: state is its map, and evs is sent unless it is empty.  A
\* reader applies them to what he has, or starts from the first snapshot.
Detected(k, first, state, evs) ==
  /\ ChangeState' = [ChangeState EXCEPT ![k] = state]
  /\ events' = evs
  /\ view' = [view EXCEPT ![k] =
       IF first THEN state
       ELSE [o \in Obj |->
               IF \E e \in evs : e.obj = o /\ e.event = "drop" THEN Absent
               ELSE IF \E e \in evs : e.obj = o THEN state[o] ELSE @[o]]]
  /\ pc' = After[k]

Defect_ForgetOnFailure(k) ==
  /\ pc = k
  /\ ChangeState' = [ChangeState EXCEPT ![k] = Empty]
  /\ pc' = After[k] /\ events' = {}
  /\ UNCHANGED <<catalog, changes, view, unsent>>

\* No definition of the metric, or the query fails: the map is there all the
\* same, so the next run is not the first.
DetectionFails(k) ==
  /\ pc = k
  /\ ChangeState' = [ChangeState EXCEPT ![k] = Known(k)]
  /\ pc' = After[k] /\ events' = {}
  /\ UNCHANGED <<catalog, changes, view, unsent>>

Defect_LengthBefore(k, S) ==
  IF ~firstRun(k) /\ Cardinality(Present(Known(k))) # Cardinality(Present(S))
  THEN Present(Known(k)) \ Present(S) ELSE {}

\* Drops are looked for if the map, with what is new in it, is longer than the
\* result.
Dropped(k, S) ==
  LET merged == Present(Known(k)) \cup Present(S)
  IN IF ~firstRun(k) /\ Cardinality(merged) # Cardinality(Present(S))
     THEN merged \ Present(S) ELSE {}

Altered(k, S) == {o \in Present(Known(k)) \cap Present(S) : S[o] # Known(k)[o]}

Defect_EmptyIsFirst(k, S) == IF Present(Known(k)) = {} THEN {} ELSE Present(S) \ Present(Known(k))
Created(k, S) == IF firstRun(k) THEN {} ELSE Present(S) \ Present(Known(k))

\* The functions, tables and indexes: all differences of the snapshot.
DetectHashes(k) ==
  LET S     == catalog[k]
      drops == Dropped(k, S)
      evs   == EventsOf(k, [create |-> Created(k, S), alter |-> Altered(k, S), drop |-> drops])
      state == [o \in Obj |-> IF o \in drops THEN Absent ELSE IF o \in Present(S) THEN S[o] ELSE Known(k)[o]]
  IN /\ pc = k
     /\ Detected(k, firstRun(k), state, evs)
     /\ UNCHANGED <<catalog, changes, unsent>>

DetectSprocChanges == DetectHashes("functions")
DetectTableChanges == DetectHashes("tables")
DetectIndexChanges == DetectHashes("indexes")

\* Revokes are looked for only while some privilege is left.
Revoked(k, S) ==
  IF ~firstRun(k) /\ Present(S) # {} THEN Present(Known(k)) \ Present(S) ELSE {}

DetectPrivilegeChanges ==
  LET k     == "privileges"
      S     == catalog[k]
      gone  == Revoked(k, S)
      evs   == EventsOf(k, [create |-> Created(k, S), drop |-> gone])
      state == [o \in Obj |-> IF o \in gone THEN Absent ELSE IF o \in Present(S) THEN S[o] ELSE Known(k)[o]]
  IN /\ pc = k
     /\ Detected(k, firstRun(k), state, evs)
     /\ UNCHANGED <<catalog, changes, unsent>>

\* The settings, as far as the rows in seen were read: what is missing from the
\* result is no drop.
SettingsSeen(seen) == [o \in Obj |-> IF o \in seen THEN catalog["settings"][o] ELSE Known("settings")[o]]
SettingsEvents(seen) ==
  LET k == "settings" IN
  EventsOf(k, [create |-> Created(k, catalog[k]) \cap seen, alter |-> Altered(k, catalog[k]) \cap seen])

\* The rows end, perhaps because the connection did: rows.Err is not asked.
DetectConfigurationChanges ==
  \E seen \in SUBSET Present(catalog["settings"]) :
    /\ pc = "settings"
    /\ Detected("settings", firstRun("settings"), SettingsSeen(seen), SettingsEvents(seen))
    /\ UNCHANGED <<catalog, changes, unsent>>

\* A row cannot be read: the map has what came before it, and no event is sent.
SettingCannotBeScanned ==
  \E seen \in SUBSET Present(catalog["settings"]) :
    /\ pc = "settings" /\ Present(catalog["settings"]) # seen
    /\ ChangeState' = [ChangeState EXCEPT !["settings"] = SettingsSeen(seen)]
    /\ unsent' = unsent \cup {"settings"}
    /\ view' = IF firstRun("settings") THEN [view EXCEPT !["settings"] = SettingsSeen(seen)] ELSE view
    /\ pc' = After["settings"] /\ events' = {}
    /\ UNCHANGED <<catalog, changes>>

-----------------------------------------------------------------------------
(* GetObjectChangesMeasurement.                                            *)

BeginRun ==
  /\ pc = "idle"
  /\ pc' = "functions" /\ events' = {}
  /\ UNCHANGED <<catalog, changes, ChangeState, view, unsent>>

\* The summary object_changes repeats the numbers of the events and changes
\* nothing here.
EndRun ==
  /\ pc = "summary"
  /\ pc' = "idle" /\ events' = {}
  /\ UNCHANGED <<catalog, changes, ChangeState, view, unsent>>

Detector(k) ==
  \/ DetectionFails(k)
  \/ k = "functions" /\ DetectSprocChanges
  \/ k = "tables" /\ DetectTableChanges
  \/ k = "indexes" /\ DetectIndexChanges
  \/ k = "privileges" /\ DetectPrivilegeChanges
  \/ k = "settings" /\ (DetectConfigurationChanges \/ SettingCannotBeScanned)

Next ==
  \/ \E k \in Kind, o \in Obj : ServerChanges(k, o)
  \/ NewDbConn \/ BeginRun \/ EndRun
  \/ \E k \in Kind : Detector(k)

Spec == Init /\ [][Next]_vars

\* The worker runs the metric at every interval, and a query that is asked
\* again and again succeeds now and then.
Fairness ==
  /\ WF_vars(BeginRun \/ EndRun \/ \E k \in Kind : Detector(k))
  /\ SF_vars(DetectSprocChanges) /\ SF_vars(DetectTableChanges)
  /\ SF_vars(DetectIndexChanges) /\ SF_vars(DetectPrivilegeChanges)

FairSpec == Spec /\ Fairness

-----------------------------------------------------------------------------
(* Properties.                                                             *)

\* Every event fits what the reader knows: he is told of a creation only of
\* what he did not have, of a change or a drop only of what he had (after a
\* setting that could not be read, not of the settings).
EventsFitView ==
  [][\A e \in {x \in events' \ events : x.kind \notin unsent} :
       IF e.event = "create" THEN view[e.kind][e.obj] = Absent ELSE view[e.kind][e.obj] # Absent]_vars

\* The events tell all of ChangeState: a reader of the first snapshot and of
\* the events since has what the detectors compare with, unless a setting
\* could not be read.
EventsTellState ==
  \A k \in Kind \ unsent : ChangeState[k] = NoState \/ view[k] = ChangeState[k]

Functions == INSTANCE SnapshotFollower
  WITH Truth <- Objects, Nothing <- Empty, truth <- catalog["functions"], view <- view["functions"]
Privileges == INSTANCE SnapshotFollower
  WITH Truth <- Objects, Nothing <- Empty, truth <- catalog["privileges"], view <- view["privileges"]

\* The events are as good as whole snapshots (SnapshotFollower): whatever was
\* created, altered, dropped and created again between two runs, whichever runs
\* failed.  So for the functions (tables and indexes are alike) and for the
\* grants and revokes, although the last revoke is told late or never: what the
\* reader has is then a state that was.
FollowsSnapshots == Functions!Spec /\ Privileges!Spec

\* Once the server is quiet, the reader comes to know its functions, tables and
\* indexes, and its privileges if it has any left, although runs go on failing.
CatchesUp ==
  /\ \A k \in Hashed : <>[](view[k] = catalog[k])
  /\ <>[](Present(catalog["privileges"]) # {} => Present(view["privileges"]) = Present(catalog["privileges"]))

\* "check revokes - exists in old state only", says DetectPrivilegeChanges: once
\* it has read the privileges, its map holds none that the server has not.  The
\* code does not look for revokes when no privilege is left at all.
RevokesAreTold ==
  [][DetectPrivilegeChanges => Present(ChangeState'["privileges"]) \subseteq Present(catalog["privileges"])]_vars
=============================================================================
