----------------------- MODULE ChangeDetectionProofs -----------------------
(***************************************************************************)
(* What the events of change_events are worth to their reader, for any     *)
(* objects and fingerprints, whatever queries fail and whatever changes on *)
(* the server between them: they carry all that the detectors know, fit    *)
(* what the reader has, and let him follow snapshots of the server.        *)
(***************************************************************************)
EXTENDS ChangeDetection, FiniteSetTheorems, TLAPS

\* A privilege is there or not: two grants of it are not told apart.
OneGrant ==
  /\ \A o \in Obj : catalog["privileges"][o] \in {Granted, Absent}
  /\ ChangeState["privileges"] # NoState =>
       \A o \in Obj : ChangeState["privileges"][o] \in {Granted, Absent}

\* Before the first run of a kind its reader knows nothing, and only settings
\* are ever unsent.
ReaderStartsEmpty ==
  /\ \A k \in Kind : ChangeState[k] = NoState => view[k] = Empty
  /\ unsent \subseteq {"settings"}

\* By the end of a run every kind has been looked at.
MapsMade ==
  /\ pc = "tables" => ChangeState["functions"] # NoState
  /\ pc = "indexes" => \A k \in {"functions", "tables"} : ChangeState[k] # NoState
  /\ pc = "settings" => \A k \in Hashed : ChangeState[k] # NoState
  /\ pc = "privileges" => \A k \in Hashed \cup {"settings"} : ChangeState[k] # NoState

\* The inductive invariant.
IInv == TypeOK /\ OneGrant /\ ReaderStartsEmpty /\ MapsMade /\ EventsTellState

-----------------------------------------------------------------------------
(* The comparisons of the detectors.                                       *)

\* Comparing lengths finds every drop: the map with what is new in it is as long
\* as the result only if it holds nothing else.
LEMMA DropsFound ==
  ASSUME NEW k \in Kind, NEW S \in Objects, Known(k) \in Objects
  PROVE  Dropped(k, S) = IF firstRun(k) THEN {} ELSE Present(Known(k)) \ Present(S)
<1> DEFINE merged == Present(Known(k)) \cup Present(S)
<1>1. IsFiniteSet(merged)  BY ChangeAssumption, FS_Subset DEF Present
<1>2. Cardinality(merged) = Cardinality(Present(S)) => merged = Present(S)
  BY <1>1, FS_Subset
<1>3. merged \ Present(S) = Present(Known(k)) \ Present(S)  OBVIOUS
<1> QED  BY <1>2, <1>3 DEF Dropped

\* What a kind is compared with is a state of its objects.
LEMMA KnownType == ASSUME TypeOK, NEW k \in Kind PROVE Known(k) \in Objects
BY DEF Known, firstRun, TypeOK, Empty, Objects

\* Which events a detector makes of the sets it found.
LEMMA EventsOfThree ==
  ASSUME NEW k, NEW C, NEW A, NEW D
  PROVE  EventsOf(k, [create |-> C, alter |-> A, drop |-> D]) =
           {[kind |-> k, obj |-> o, event |-> "create"] : o \in C}
           \cup {[kind |-> k, obj |-> o, event |-> "alter"] : o \in A}
           \cup {[kind |-> k, obj |-> o, event |-> "drop"] : o \in D}
BY DEF EventsOf

LEMMA EventsOfGrants ==
  ASSUME NEW k, NEW C, NEW D
  PROVE  EventsOf(k, [create |-> C, drop |-> D]) =
           {[kind |-> k, obj |-> o, event |-> "create"] : o \in C}
           \cup {[kind |-> k, obj |-> o, event |-> "drop"] : o \in D}
BY DEF EventsOf

LEMMA EventsOfSettings ==
  ASSUME NEW k, NEW C, NEW A
  PROVE  EventsOf(k, [create |-> C, alter |-> A]) =
           {[kind |-> k, obj |-> o, event |-> "create"] : o \in C}
           \cup {[kind |-> k, obj |-> o, event |-> "alter"] : o \in A}
BY DEF EventsOf

\* What a reader has of a kind before its detector runs.
LEMMA ReaderKnows ==
  ASSUME IInv, NEW k \in Kind \ unsent
  PROVE  view[k] = Known(k)
BY DEF IInv, EventsTellState, ReaderStartsEmpty, Known, firstRun, Kind, Hashed

\* Every event is about kind k, and fits what the reader has of it.
Fitting(k, evs) ==
  \A e \in evs : /\ e \in Event /\ e.kind = k
                 /\ IF e.event = "create" THEN view[k][e.obj] = Absent
                                          ELSE view[k][e.obj] # Absent

\* A run that reads the functions, tables or indexes ends with the snapshot it
\* read, in the map and at the reader.
LEMMA HashesFollow ==
  ASSUME IInv, NEW k \in Hashed, DetectHashes(k)
  PROVE  /\ ChangeState' = [ChangeState EXCEPT ![k] = catalog[k]]
         /\ view' = [view EXCEPT ![k] = catalog[k]]
         /\ Fitting(k, events')
         /\ pc = k /\ pc' = After[k]
         /\ UNCHANGED <<catalog, changes, unsent>>
<1> DEFINE S == catalog[k]
<1> DEFINE drops == Dropped(k, S)
<1> DEFINE evs == EventsOf(k, [create |-> Created(k, S), alter |-> Altered(k, S), drop |-> drops])
<1> DEFINE state == [o \in Obj |-> IF o \in drops THEN Absent
                                   ELSE IF o \in Present(S) THEN S[o] ELSE Known(k)[o]]
<1>1. k \in Kind /\ k \in Kind \ unsent  BY DEF IInv, ReaderStartsEmpty, Kind, Hashed
<1>2. /\ S \in Objects /\ Known(k) \in Objects /\ view[k] = Known(k)
      /\ ChangeState \in [Kind -> Objects \cup {NoState}] /\ view \in [Kind -> Objects]
  BY <1>1, KnownType, ReaderKnows DEF IInv, TypeOK
<1>3. drops = IF firstRun(k) THEN {} ELSE Present(Known(k)) \ Present(S)
  BY <1>1, <1>2, DropsFound
<1>4. firstRun(k) => Known(k) = Empty  BY DEF Known
<1>5. state = S
  <2> HIDE DEF drops
  <2>1. ASSUME NEW o \in Obj PROVE state[o] = S[o]
    BY <1>2, <1>3, <1>4 DEF Present, Empty, Objects
  <2> QED  BY <1>2, <2>1 DEF Objects
<1>6. /\ pc = k /\ Detected(k, firstRun(k), S, evs)
      /\ UNCHANGED <<catalog, changes, unsent>>
  <2>1. /\ pc = k /\ Detected(k, firstRun(k), state, evs)
        /\ UNCHANGED <<catalog, changes, unsent>>
    BY DEF DetectHashes
  <2> QED  BY <1>5, <2>1
<1> HIDE DEF state
<1>7. evs = {[kind |-> k, obj |-> o, event |-> "create"] : o \in Created(k, S)}
            \cup {[kind |-> k, obj |-> o, event |-> "alter"] : o \in Altered(k, S)}
            \cup {[kind |-> k, obj |-> o, event |-> "drop"] : o \in drops}
  BY EventsOfThree
<1> HIDE DEF evs, drops
<1>8. Fitting(k, evs)
  BY <1>1, <1>2, <1>3, <1>7 DEF Fitting, Event, Created, Altered, Present
<1>9. view' = [view EXCEPT ![k] = S]
  <2> DEFINE applied == [o \in Obj |->
               IF \E e \in evs : e.obj = o /\ e.event = "drop" THEN Absent
               ELSE IF \E e \in evs : e.obj = o THEN S[o] ELSE view[k][o]]
  <2>1. view' = [view EXCEPT ![k] = IF firstRun(k) THEN S ELSE applied]
    BY <1>1, <1>2, <1>6 DEF Detected
  <2>2. ASSUME ~firstRun(k) PROVE applied = S
    <3>1. ASSUME NEW o \in Obj, S[o] # view[k][o] PROVE \E e \in evs : e.obj = o
      <4>1. \/ o \in Created(k, S) \/ o \in Altered(k, S) \/ o \in drops
        BY <1>2, <1>3, <2>2, <3>1 DEF Created, Altered, Present
      <4>2. PICK ev : [kind |-> k, obj |-> o, event |-> ev] \in evs  BY <1>7, <4>1
      <4> QED  BY <4>2
    <3>2. \A e \in evs : e.event = "drop" => e.obj \in Obj /\ S[e.obj] = Absent
      BY <1>3, <1>7, <2>2 DEF Present
    <3> QED  BY <1>2, <3>1, <3>2 DEF Objects
  <2> HIDE DEF applied
  <2> QED  BY <2>1, <2>2
<1> QED  BY <1>6, <1>8, <1>9 DEF Detected

\* So does one that reads the privileges, unless none is left: then it changes
\* nothing.
LEMMA PrivilegesFollow ==
  ASSUME IInv, DetectPrivilegeChanges
  PROVE  /\ \/ /\ ChangeState' = [ChangeState EXCEPT !["privileges"] = catalog["privileges"]]
               /\ view' = [view EXCEPT !["privileges"] = catalog["privileges"]]
            \/ /\ ChangeState["privileges"] # NoState
               /\ ChangeState' = ChangeState /\ view' = view
         /\ Fitting("privileges", events')
         /\ pc = "privileges" /\ pc' = After["privileges"]
         /\ UNCHANGED <<catalog, changes, unsent>>
<1> DEFINE k == "privileges"
<1> DEFINE S == catalog[k]
<1> DEFINE gone == Revoked(k, S)
<1> DEFINE evs == EventsOf(k, [create |-> Created(k, S), drop |-> gone])
<1> DEFINE state == [o \in Obj |-> IF o \in gone THEN Absent
                                   ELSE IF o \in Present(S) THEN S[o] ELSE Known(k)[o]]
<1>1. k \in Kind /\ k \in Kind \ unsent  BY DEF IInv, ReaderStartsEmpty, Kind, Hashed
<1>2. /\ S \in Objects /\ Known(k) \in Objects /\ view[k] = Known(k)
      /\ ChangeState \in [Kind -> Objects \cup {NoState}] /\ view \in [Kind -> Objects]
  BY <1>1, KnownType, ReaderKnows DEF IInv, TypeOK
<1>3. /\ pc = k /\ Detected(k, firstRun(k), state, evs)
      /\ UNCHANGED <<catalog, changes, unsent>>
  BY DEF DetectPrivilegeChanges
<1>4. evs = {[kind |-> k, obj |-> o, event |-> "create"] : o \in Created(k, S)}
            \cup {[kind |-> k, obj |-> o, event |-> "drop"] : o \in gone}
  BY EventsOfGrants
<1>5. /\ firstRun(k) => Known(k) = Empty
      /\ \A o \in Obj : S[o] \in {Granted, Absent} /\ Known(k)[o] \in {Granted, Absent}
  BY DEF Known, firstRun, IInv, OneGrant, Empty
<1> HIDE DEF evs
<1>6. Fitting(k, evs)
  BY <1>1, <1>2, <1>4 DEF Fitting, Event, Created, Revoked, Present
<1>7. state \in Objects  BY <1>2 DEF Objects
<1>8. ASSUME firstRun(k) \/ Present(S) # {} PROVE state = S
  <2>1. ASSUME NEW o \in Obj PROVE state[o] = S[o]
    BY <1>2, <1>5, <1>8 DEF Revoked, Present, Empty
  <2> QED  BY <1>2, <2>1 DEF Objects
<1>9. ASSUME ~firstRun(k), Present(S) = {} PROVE state = Known(k) /\ evs = {}
  <2>1. ASSUME NEW o \in Obj PROVE state[o] = Known(k)[o]
    BY <1>9 DEF Revoked
  <2> QED  BY <1>2, <1>4, <1>9, <2>1 DEF Objects, Revoked, Created
<1> HIDE DEF state
<1>10. view' = [view EXCEPT ![k] = state]
  <2> DEFINE applied == [o \in Obj |->
               IF \E e \in evs : e.obj = o /\ e.event = "drop" THEN Absent
               ELSE IF \E e \in evs : e.obj = o THEN state[o] ELSE view[k][o]]
  <2>1. view' = [view EXCEPT ![k] = IF firstRun(k) THEN state ELSE applied]
    BY <1>1, <1>2, <1>3 DEF Detected
  <2>2. ASSUME ~firstRun(k) PROVE applied = state
    <3>1. ASSUME NEW o \in Obj, state[o] # view[k][o] PROVE \E e \in evs : e.obj = o
      <4>1. \/ o \in Created(k, S) \/ o \in gone
        BY <1>2, <1>5, <1>8, <1>9, <2>2, <3>1 DEF Created, Revoked, Present
      <4>2. PICK ev : [kind |-> k, obj |-> o, event |-> ev] \in evs  BY <1>4, <4>1
      <4> QED  BY <4>2
    <3>2. \A e \in evs : e.event = "drop" => e.obj \in Obj /\ state[e.obj] = Absent
      BY <1>4 DEF Present, Revoked, state
    <3> QED  BY <1>7, <3>1, <3>2 DEF Objects
  <2> HIDE DEF applied
  <2> QED  BY <2>1, <2>2
<1>11. CASE firstRun(k) \/ Present(S) # {}
  BY <1>3, <1>6, <1>8, <1>10, <1>11 DEF Detected
<1>12. CASE ~firstRun(k) /\ Present(S) = {}
  <2>1. state = ChangeState[k] /\ state = view[k] /\ ChangeState[k] # NoState
    BY <1>2, <1>9, <1>12 DEF Known, firstRun
  <2>2. ChangeState' = ChangeState /\ view' = view
    BY <1>1, <1>2, <1>3, <1>10, <2>1 DEF Detected
  <2> QED  BY <1>3, <1>6, <2>1, <2>2 DEF Detected
<1> QED  BY <1>11, <1>12

\* The settings: the map holds what was read of them.
LEMMA SettingsSeenType ==
  ASSUME IInv, NEW seen \in SUBSET Present(catalog["settings"])
  PROVE  SettingsSeen(seen) \in Objects
<1>1. Known("settings") \in Objects /\ catalog["settings"] \in Objects
  BY KnownType DEF IInv, TypeOK, Kind
<1> QED  BY <1>1 DEF SettingsSeen, Objects

\* What the events say of the settings that were read is what the map holds of
\* them.
LEMMA SettingsFollow ==
  ASSUME IInv, DetectConfigurationChanges
  PROVE  \E state \in Objects :
           /\ ChangeState' = [ChangeState EXCEPT !["settings"] = state]
           /\ "settings" \notin unsent => view'["settings"] = state
           /\ view' \in [Kind -> Objects] /\ \A j \in Kind \ {"settings"} : view'[j] = view[j]
           /\ \A e \in events' : e \in Event /\ e.kind = "settings"
           /\ "settings" \notin unsent => Fitting("settings", events')
           /\ pc = "settings" /\ pc' = After["settings"]
           /\ UNCHANGED <<catalog, changes, unsent>>
<1> DEFINE k == "settings"
<1> DEFINE S == catalog[k]
<1>1. PICK seen \in SUBSET Present(S) :
        /\ pc = k
        /\ Detected(k, firstRun(k), SettingsSeen(seen), SettingsEvents(seen))
        /\ UNCHANGED <<catalog, changes, unsent>>
  BY DEF DetectConfigurationChanges
<1> DEFINE state == SettingsSeen(seen)
<1> DEFINE evs == SettingsEvents(seen)
<1>2. k \in Kind  BY DEF Kind
<1>3. /\ S \in Objects /\ Known(k) \in Objects /\ state \in Objects
      /\ ChangeState \in [Kind -> Objects \cup {NoState}] /\ view \in [Kind -> Objects]
  BY <1>2, KnownType, SettingsSeenType DEF IInv, TypeOK
<1>4. evs = {[kind |-> k, obj |-> o, event |-> "create"] : o \in Created(k, S) \cap seen}
            \cup {[kind |-> k, obj |-> o, event |-> "alter"] : o \in Altered(k, S) \cap seen}
  BY EventsOfSettings DEF SettingsEvents
<1>5. \A o \in Obj : state[o] = IF o \in seen THEN S[o] ELSE Known(k)[o]
  BY DEF SettingsSeen
<1> HIDE DEF evs, state
<1>6. \A e \in evs : e \in Event /\ e.kind = k
  BY <1>2, <1>4 DEF Event, Created, Altered, Present
<1>7. k \notin unsent => Fitting(k, evs)
  <2> SUFFICES ASSUME k \notin unsent PROVE Fitting(k, evs)  OBVIOUS
  <2>1. view[k] = Known(k)  BY <1>2, ReaderKnows
  <2> QED  BY <1>2, <1>4, <2>1 DEF Fitting, Event, Created, Altered, Present
<1> DEFINE applied == [o \in Obj |->
               IF \E e \in evs : e.obj = o /\ e.event = "drop" THEN Absent
               ELSE IF \E e \in evs : e.obj = o THEN state[o] ELSE view[k][o]]
<1>8. view' = [view EXCEPT ![k] = IF firstRun(k) THEN state ELSE applied]
  BY <1>1, <1>2, <1>3 DEF Detected, state, evs
<1>9. applied \in Objects  BY <1>2, <1>3 DEF Objects
<1>10. ASSUME k \notin unsent, ~firstRun(k) PROVE applied = state
  <2>1. view[k] = Known(k)  BY <1>2, <1>10, ReaderKnows
  <2>2. ASSUME NEW o \in Obj, state[o] # view[k][o] PROVE \E e \in evs : e.obj = o
    <3>1. o \in Created(k, S) \cap seen \/ o \in Altered(k, S) \cap seen
      BY <1>3, <1>5, <1>10, <2>1, <2>2 DEF Created, Altered, Present
    <3>2. PICK ev : [kind |-> k, obj |-> o, event |-> ev] \in evs  BY <1>4, <3>1
    <3> QED  BY <3>2
  <2>3. \A e \in evs : e.event # "drop"  BY <1>4
  <2> QED  BY <1>3, <2>2, <2>3 DEF Objects
<1> HIDE DEF applied
<1>11. /\ view' \in [Kind -> Objects] /\ \A j \in Kind \ {k} : view'[j] = view[j]
       /\ k \notin unsent => view'[k] = state
  BY <1>2, <1>3, <1>8, <1>9, <1>10
<1>12. /\ ChangeState' = [ChangeState EXCEPT ![k] = state] /\ events' = evs /\ pc' = After[k]
  BY <1>1 DEF Detected, state, evs
<1> QED  BY <1>1, <1>3, <1>6, <1>7, <1>11, <1>12

-----------------------------------------------------------------------------
(* The invariant.                                                          *)

\* A server with any objects and a DbConn that knows nothing satisfy it.
LEMMA InitIInv == Init => IInv
<1> SUFFICES ASSUME Init PROVE IInv  OBVIOUS
<1>1. PICK P \in [Kind -> SUBSET Obj] :
        catalog = [k \in Kind |-> [o \in Obj |-> IF o \in P[k] THEN Granted ELSE Absent]]
  BY DEF Init
<1>2. catalog \in [Kind -> Objects]  BY <1>1, ChangeAssumption DEF Objects
<1>3. Empty \in Objects  BY DEF Empty, Objects
<1>4. TypeOK
  <2>1. /\ changes \in 0..MaxChanges /\ pc = "idle" /\ events \subseteq Event /\ unsent \subseteq Kind
        /\ ChangeState \in [Kind -> Objects \cup {NoState}] /\ view \in [Kind -> Objects]
    BY <1>3, ChangeAssumption DEF Init
  <2> QED  BY <1>2, <2>1 DEF TypeOK
<1>5. "privileges" \in Kind  BY DEF Kind
<1>6. OneGrant  BY <1>1, <1>5 DEF Init, OneGrant
<1>7. ReaderStartsEmpty /\ MapsMade /\ EventsTellState
  BY DEF Init, ReaderStartsEmpty, MapsMade, EventsTellState
<1> QED  BY <1>4, <1>6, <1>7 DEF IInv

\* What follows from the effects of a detector that ended: its map is state, and
\* the reader has it as well unless settings are unsent.
LEMMA DetectorKeepsIInv ==
  ASSUME IInv, NEW k \in Kind, NEW state \in Objects,
         ChangeState' = [ChangeState EXCEPT ![k] = state],
         view' \in [Kind -> Objects], \A j \in Kind \ {k} : view'[j] = view[j],
         k \notin unsent' => view'[k] = state,
         k = "privileges" => \A o \in Obj : state[o] \in {Granted, Absent},
         unsent' = unsent \/ unsent' = unsent \cup {"settings"},
         \A e \in events' : e \in Event,
         pc = k, pc' = After[k],
         UNCHANGED <<catalog, changes>>
  PROVE  IInv'
<1> USE DEF IInv
<1>1. state # NoState  BY ChangeAssumption DEF Objects
<1>2. /\ ChangeState' \in [Kind -> Objects \cup {NoState}]
      /\ ChangeState'[k] = state /\ \A j \in Kind \ {k} : ChangeState'[j] = ChangeState[j]
  BY DEF TypeOK
<1>3. unsent' \subseteq {"settings"}  BY DEF ReaderStartsEmpty
<1>4. MapsMade'
  BY <1>1, <1>2 DEF MapsMade, After, Kind, Hashed
<1>5. TypeOK'
  <2>1. pc' \in Kind \cup {"idle", "summary"}  BY DEF After, Kind, Hashed
  <2>2. ASSUME pc' = "summary" PROVE ChangeState' \in [Kind -> Objects]
    <3>1. k = "privileges"  BY <2>2 DEF After, Kind, Hashed
    <3>2. ASSUME NEW j \in Kind PROVE ChangeState'[j] \in Objects
      BY <1>2, <3>1 DEF MapsMade, Kind, TypeOK
    <3> QED  BY <1>2, <3>2
  <2>3. events' \subseteq Event /\ unsent' \subseteq Kind  BY <1>3 DEF Kind
  <2> QED  BY <1>2, <2>1, <2>2, <2>3 DEF TypeOK
<1>6. OneGrant'
  BY <1>2 DEF OneGrant, Kind
<1>7. ReaderStartsEmpty'
  BY <1>1, <1>2, <1>3 DEF ReaderStartsEmpty
<1>8. EventsTellState'
  BY <1>2 DEF EventsTellState
<1> QED  BY <1>4, <1>5, <1>6, <1>7, <1>8

\* Every change of the server, every detector, failed or not, and every new
\* DbConn keeps the invariant.
LEMMA StepIInv == IInv /\ [Next]_vars => IInv'
<1> SUFFICES ASSUME IInv, [Next]_vars PROVE IInv'  OBVIOUS
<1>1. Empty \in Objects /\ Empty # NoState
  BY ChangeAssumption DEF Empty, Objects
<1>2. TypeOK  BY DEF IInv
<1>3. ASSUME NEW k \in Kind, NEW o \in Obj, ServerChanges(k, o) PROVE IInv'
  <2>1. PICK h \in Fingerprint(k) \cup {Absent} : catalog' = [catalog EXCEPT ![k][o] = h]
    BY <1>3 DEF ServerChanges
  <2>2. h \in Hash \cup {Absent} /\ (k = "privileges" => h \in {Granted, Absent})
    BY ChangeAssumption DEF Fingerprint
  <2>3. catalog \in [Kind -> [Obj -> Hash \cup {Absent}]]  BY DEF IInv, TypeOK, Objects
  <2>4. catalog' \in [Kind -> Objects]  BY <2>1, <2>2, <2>3 DEF Objects
  <2>5. changes' \in 0..MaxChanges  BY <1>3, ChangeAssumption DEF ServerChanges, Happens, IInv, TypeOK
  <2>6. UNCHANGED <<pc, ChangeState, events, view, unsent>>
    BY <1>3 DEF ServerChanges, stateVars
  <2>7. TypeOK'  BY <2>4, <2>5, <2>6 DEF IInv, TypeOK
  <2>8. \A q \in Obj : catalog'["privileges"][q] \in {Granted, Absent}
    BY <2>1, <2>2, <2>3 DEF IInv, OneGrant, Kind
  <2>9. OneGrant'  BY <2>6, <2>8 DEF IInv, OneGrant
  <2>10. ReaderStartsEmpty' /\ MapsMade' /\ EventsTellState'
    BY <2>6 DEF IInv, ReaderStartsEmpty, MapsMade, EventsTellState
  <2> QED  BY <2>7, <2>9, <2>10 DEF IInv
<1>4. ASSUME NewDbConn PROVE IInv'
  <2>1. TypeOK'
    BY <1>1, <1>4, ChangeAssumption DEF NewDbConn, Happens, IInv, TypeOK
  <2>2. OneGrant' /\ ReaderStartsEmpty' /\ MapsMade' /\ EventsTellState'
    BY <1>4 DEF NewDbConn, IInv, OneGrant, ReaderStartsEmpty, MapsMade, EventsTellState,
                Kind
  <2> QED  BY <2>1, <2>2 DEF IInv
<1>5. ASSUME BeginRun PROVE IInv'
  <2>1. TypeOK'  BY <1>5 DEF BeginRun, IInv, TypeOK, Kind, Hashed
  <2>2. OneGrant' /\ ReaderStartsEmpty' /\ MapsMade' /\ EventsTellState'
    BY <1>5 DEF BeginRun, IInv, OneGrant, ReaderStartsEmpty, MapsMade, EventsTellState
  <2> QED  BY <2>1, <2>2 DEF IInv
<1>6. ASSUME EndRun PROVE IInv'
  <2>1. TypeOK'  BY <1>6 DEF EndRun, IInv, TypeOK
  <2>2. OneGrant' /\ ReaderStartsEmpty' /\ MapsMade' /\ EventsTellState'
    BY <1>6 DEF EndRun, IInv, OneGrant, ReaderStartsEmpty, MapsMade, EventsTellState
  <2> QED  BY <2>1, <2>2 DEF IInv
<1>7. ASSUME NEW k \in Kind, DetectionFails(k) PROVE IInv'
  <2>1. Known(k) \in Objects  BY <1>2, KnownType
  <2>2. k \notin unsent => view[k] = Known(k)  BY ReaderKnows
  <2>3. k = "privileges" => \A o \in Obj : Known(k)[o] \in {Granted, Absent}
    BY DEF Known, firstRun, IInv, OneGrant, Empty
  <2> QED  BY <1>2, <1>7, <2>1, <2>2, <2>3, DetectorKeepsIInv DEF DetectionFails, IInv, TypeOK
<1>8. ASSUME NEW k \in Hashed, DetectHashes(k) PROVE IInv'
  <2>1. k \in Kind /\ k # "privileges" /\ k # "idle" /\ catalog[k] \in Objects
    BY <1>2 DEF Kind, Hashed, TypeOK
  <2>2. /\ ChangeState' = [ChangeState EXCEPT ![k] = catalog[k]]
        /\ view' = [view EXCEPT ![k] = catalog[k]]
        /\ \A e \in events' : e \in Event
        /\ pc = k /\ pc' = After[k]
        /\ UNCHANGED <<catalog, changes, unsent>>
    BY <1>8, HashesFollow DEF Fitting
  <2>3. /\ view' \in [Kind -> Objects] /\ view'[k] = catalog[k]
        /\ \A j \in Kind \ {k} : view'[j] = view[j]
    BY <1>2, <2>1, <2>2 DEF TypeOK
  <2> QED  BY <2>1, <2>2, <2>3, DetectorKeepsIInv
<1>9. ASSUME DetectPrivilegeChanges PROVE IInv'
  <2> DEFINE k == "privileges"
  <2>1. PICK state \in {catalog[k], ChangeState[k]} :
          /\ state \in Objects
          /\ ChangeState' = [ChangeState EXCEPT ![k] = state]
          /\ view' = [view EXCEPT ![k] = state]
    <3>1. k \in Kind \ unsent  BY DEF IInv, ReaderStartsEmpty, Kind
    <3>2. catalog[k] \in Objects /\ ChangeState[k] \in Objects \cup {NoState}
      BY <1>2, <3>1 DEF TypeOK
    <3>3. CASE /\ ChangeState' = [ChangeState EXCEPT ![k] = catalog[k]]
               /\ view' = [view EXCEPT ![k] = catalog[k]]
      BY <3>2, <3>3
    <3>4. CASE ChangeState[k] # NoState /\ ChangeState' = ChangeState /\ view' = view
      <4>1. view[k] = ChangeState[k]  BY <3>1, <3>4 DEF IInv, EventsTellState
      <4>2. /\ ChangeState' = [ChangeState EXCEPT ![k] = ChangeState[k]]
            /\ view' = [view EXCEPT ![k] = ChangeState[k]]
        BY <1>2, <3>1, <3>4, <4>1 DEF TypeOK
      <4> QED  BY <3>2, <3>4, <4>2
    <3> QED  BY <1>9, <3>3, <3>4, PrivilegesFollow
  <2>2. /\ \A e \in events' : e \in Event
        /\ pc = k /\ pc' = After[k]
        /\ UNCHANGED <<catalog, changes, unsent>>
    BY <1>9, PrivilegesFollow DEF Fitting
  <2>3. k \in Kind /\ \A o \in Obj : state[o] \in {Granted, Absent}
    BY <2>1, ChangeAssumption DEF IInv, OneGrant, Kind, Objects
  <2>4. /\ view' \in [Kind -> Objects] /\ view'[k] = state
        /\ \A j \in Kind \ {k} : view'[j] = view[j]
    BY <1>2, <2>1, <2>3 DEF TypeOK
  <2> HIDE DEF k
  <2> QED  BY <2>1, <2>2, <2>3, <2>4, DetectorKeepsIInv
<1>10. ASSUME DetectConfigurationChanges PROVE IInv'
  <2> DEFINE k == "settings"
  <2>1. PICK state \in Objects :
           /\ ChangeState' = [ChangeState EXCEPT ![k] = state]
           /\ k \notin unsent => view'[k] = state
           /\ view' \in [Kind -> Objects] /\ \A j \in Kind \ {k} : view'[j] = view[j]
           /\ \A e \in events' : e \in Event
           /\ pc = k /\ pc' = After[k]
           /\ UNCHANGED <<catalog, changes, unsent>>
    BY <1>10, SettingsFollow
  <2>2. k \in Kind /\ k # "privileges"  BY DEF Kind
  <2> HIDE DEF k
  <2> QED  BY <2>1, <2>2, DetectorKeepsIInv
<1>11. ASSUME SettingCannotBeScanned PROVE IInv'
  <2> DEFINE k == "settings"
  <2>1. PICK seen \in SUBSET Present(catalog[k]) :
          /\ pc = k /\ ChangeState' = [ChangeState EXCEPT ![k] = SettingsSeen(seen)]
          /\ unsent' = unsent \cup {"settings"}
          /\ view' = IF firstRun(k) THEN [view EXCEPT ![k] = SettingsSeen(seen)] ELSE view
          /\ pc' = After[k] /\ events' = {}
          /\ UNCHANGED <<catalog, changes>>
    BY <1>11 DEF SettingCannotBeScanned
  <2>2. SettingsSeen(seen) \in Objects  BY SettingsSeenType
  <2>3. k \in Kind /\ k # "privileges" /\ k \in unsent'  BY <2>1 DEF Kind
  <2>4. view' \in [Kind -> Objects] /\ \A j \in Kind \ {k} : view'[j] = view[j]
    BY <1>2, <2>1, <2>2 DEF TypeOK
  <2> HIDE DEF k
  <2> QED  BY <2>1, <2>2, <2>3, <2>4, DetectorKeepsIInv
<1>12. ASSUME UNCHANGED vars PROVE IInv'
  BY <1>12 DEF vars, stateVars, IInv, TypeOK, OneGrant, ReaderStartsEmpty, MapsMade,
               EventsTellState
<1> QED
  BY <1>3, <1>4, <1>5, <1>6, <1>7, <1>8, <1>9, <1>10, <1>11, <1>12
  DEF Next, Detector, DetectSprocChanges, DetectTableChanges, DetectIndexChanges, Hashed

-----------------------------------------------------------------------------
(* The theorems.                                                           *)

\* The state of the detectors is always one of its type; by the end of a run
\* every kind has its map, and the four parts of the invariant hold between any
\* two detectors.
THEOREM Invariance == Spec => []IInv
<1> QED  BY InitIInv, StepIInv, PTL DEF Spec

\* The events tell all of ChangeState: for every kind without unsent settings a
\* reader of the first snapshot and of the events since has what the detector
\* of that kind will compare with next.
THEOREM ReaderHasWhatIsCompared == Spec => []EventsTellState
<1>1. IInv => EventsTellState  BY DEF IInv
<1> QED  BY <1>1, Invariance, PTL

\* No event contradicts what its reader has: nothing is created that he had,
\* nothing altered or dropped that he had not.
THEOREM NoEventContradicts == Spec => EventsFitView
<1> DEFINE Fits == \A e \in {x \in events' \ events : x.kind \notin unsent} :
                     IF e.event = "create" THEN view[e.kind][e.obj] = Absent
                                           ELSE view[e.kind][e.obj] # Absent
<1>1. ASSUME IInv, [Next]_vars PROVE [Fits]_vars
  <2>1. ASSUME events' = {} \/ events' = events PROVE Fits  BY <2>1
  <2>2. ASSUME NEW k \in Kind, k \notin unsent => Fitting(k, events'),
               \A e \in events' : e.kind = k
        PROVE  Fits
    BY <2>2 DEF Fitting
  <2> HIDE DEF Fits
  <2>3. ASSUME NEW k \in Kind, NEW o \in Obj, ServerChanges(k, o) PROVE Fits
    BY <2>1, <2>3 DEF ServerChanges, stateVars
  <2>4. ASSUME NewDbConn \/ BeginRun \/ EndRun PROVE Fits
    BY <2>1, <2>4 DEF NewDbConn, BeginRun, EndRun
  <2>5. ASSUME NEW k \in Kind, DetectionFails(k) PROVE Fits
    BY <2>1, <2>5 DEF DetectionFails
  <2>6. ASSUME NEW k \in Hashed, DetectHashes(k) PROVE Fits
    <3>1. k \in Kind /\ Fitting(k, events')  BY <1>1, <2>6, HashesFollow DEF Kind
    <3> QED  BY <2>2, <3>1 DEF Fitting
  <2>7. ASSUME DetectPrivilegeChanges PROVE Fits
    <3>1. "privileges" \in Kind /\ Fitting("privileges", events')
      BY <1>1, <2>7, PrivilegesFollow DEF Kind
    <3> QED  BY <2>2, <3>1 DEF Fitting
  <2>8. ASSUME DetectConfigurationChanges PROVE Fits
    <3>1. "settings" \notin unsent => Fitting("settings", events')
      BY <1>1, <2>8, SettingsFollow
    <3>2. "settings" \in Kind /\ \A e \in events' : e.kind = "settings"
      BY <1>1, <2>8, SettingsFollow DEF Kind
    <3> QED  BY <2>2, <3>1, <3>2
  <2>9. ASSUME SettingCannotBeScanned PROVE Fits
    BY <2>1, <2>9 DEF SettingCannotBeScanned
  <2> QED
    BY <1>1, <2>3, <2>4, <2>5, <2>6, <2>7, <2>8, <2>9
    DEF Next, Detector, DetectSprocChanges, DetectTableChanges, DetectIndexChanges, Hashed
<1> QED  BY <1>1, Invariance, PTL DEF Spec, EventsFitView

\* No step makes the view of the functions, or that of the privileges, anything
\* but what it was, nothing, or the server's state of that moment.
LEMMA StepFollows ==
  ASSUME IInv, [Next]_vars, NEW k \in {"functions", "privileges"}
  PROVE  \/ catalog'[k] \in Objects /\ view'[k] = view[k]
         \/ view'[k] = catalog[k] /\ catalog'[k] = catalog[k]
         \/ view'[k] = Empty /\ catalog'[k] = catalog[k]
<1>1. /\ k \in Kind /\ catalog \in [Kind -> Objects] /\ view \in [Kind -> Objects]
      /\ catalog'[k] \in Objects
  BY StepIInv DEF IInv, TypeOK, Kind, Hashed
<1>2. ASSUME NEW j \in Kind, NEW o \in Obj, ServerChanges(j, o) PROVE view' = view
  BY <1>2 DEF ServerChanges, stateVars
<1>3. ASSUME NewDbConn PROVE view'[k] = Empty /\ catalog' = catalog
  BY <1>1, <1>3 DEF NewDbConn
<1>4. ASSUME BeginRun \/ EndRun PROVE view' = view  BY <1>4 DEF BeginRun, EndRun
<1>5. ASSUME NEW j \in Kind, DetectionFails(j) PROVE view' = view  BY <1>5 DEF DetectionFails
<1>6. ASSUME NEW j \in Hashed, DetectHashes(j)
      PROVE  catalog' = catalog /\ (view'[k] = view[k] \/ view'[k] = catalog[k])
  <2>1. view' = [view EXCEPT ![j] = catalog[j]] /\ catalog' = catalog  BY <1>6, HashesFollow
  <2> QED  BY <1>1, <2>1
<1>7. ASSUME DetectPrivilegeChanges
      PROVE  catalog' = catalog /\ (view'[k] = view[k] \/ view'[k] = catalog[k])
  <2>1. /\ view' = [view EXCEPT !["privileges"] = catalog["privileges"]] \/ view' = view
        /\ catalog' = catalog
    BY <1>7, PrivilegesFollow
  <2> QED  BY <1>1, <2>1
<1>8. ASSUME DetectConfigurationChanges PROVE view'[k] = view[k]
  BY <1>1, <1>8, SettingsFollow
<1>9. ASSUME SettingCannotBeScanned PROVE view'[k] = view[k]
  BY <1>1, <1>9 DEF SettingCannotBeScanned
<1>10. ASSUME UNCHANGED vars PROVE view' = view  BY <1>10 DEF vars, stateVars
<1> QED
  BY <1>1, <1>2, <1>3, <1>4, <1>5, <1>6, <1>7, <1>8, <1>9, <1>10
  DEF Next, Detector, DetectSprocChanges, DetectTableChanges, DetectIndexChanges, Hashed

\* The events are as good as whole snapshots: the detectors implement
\* SnapshotFollower for the functions (tables and indexes run the same code)
\* and for the privileges, although they compare lengths to find drops, leave
\* out the last revoke, and fail.
THEOREM EventsFollowSnapshots == Spec => FollowsSnapshots
<1>1. Init => Functions!Init /\ Privileges!Init
  <2> SUFFICES ASSUME Init PROVE Functions!Init /\ Privileges!Init  OBVIOUS
  <2>1. catalog \in [Kind -> Objects]  BY InitIInv DEF IInv, TypeOK
  <2> QED  BY <2>1 DEF Init, Functions!Init, Privileges!Init, Kind, Hashed
<1>2. IInv /\ [Next]_vars => [Functions!Next]_<<catalog["functions"], view["functions"]>>
  BY StepFollows DEF Functions!Next, Functions!Change, Functions!Sync, Functions!Restart
<1>3. IInv /\ [Next]_vars => [Privileges!Next]_<<catalog["privileges"], view["privileges"]>>
  BY StepFollows DEF Privileges!Next, Privileges!Change, Privileges!Sync, Privileges!Restart
<1> QED
  BY <1>1, <1>2, <1>3, Invariance, PTL DEF Spec, FollowsSnapshots, Functions!Spec, Privileges!Spec
=============================================================================
