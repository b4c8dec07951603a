--------------------------- MODULE ReaperProofs ---------------------------
(***************************************************************************)
(* What Reaper promises, for every set of sources, configurations and      *)
(* objects and every channel capacity and sweep limit.                     *)
(***************************************************************************)
EXTENDS Reaper, TLAPS

\* The initial state of the process is well typed.
LEMMA InitTypeOK == Init => TypeOK
<1> SUFFICES ASSUME Init PROVE TypeOK  OBVIOUS
<1>1. PICK t \in Source : TRUE  BY ReaperAssumption
<1>2. (CHOOSE s \in Source : TRUE) \in Source  BY <1>1, Zenon
<1>3. measurementCh \in Seq(Envelope) /\ Len(measurementCh) <= ChanCap
  BY ReaperAssumption DEF Init
<1> QED  BY <1>2, <1>3 DEF Init, TypeOK, TaskState, PoolState, WorkerState

\* Edits, outages, failovers, pauses and the interrupt keep the types.
LEMMA TypeEnvironment == TypeOK /\ Environment => TypeOK'
<1> SUFFICES ASSUME TypeOK, Environment PROVE TypeOK'  OBVIOUS
<1> USE DEF TypeOK, loopVars, taskVars, connVars, workVars, sinkVars
<1>1. CASE StoreFailsOrRecovers  BY <1>1 DEF StoreFailsOrRecovers
<1>2. CASE TogglePause  BY <1>2 DEF TogglePause
<1>3. CASE Interrupt  BY <1>3 DEF Interrupt
<1>4. ASSUME NEW s \in Source, EditConfig(s) PROVE TypeOK'
  BY <1>4 DEF EditConfig
<1>5. ASSUME NEW v \in Server, ServerFailsOrRecovers(v) PROVE TypeOK'
  BY <1>5 DEF ServerFailsOrRecovers
<1>6. ASSUME NEW s \in Source, RoleOrSizeChanges(s) PROVE TypeOK'
  BY <1>6 DEF RoleOrSizeChanges
<1> QED  BY <1>1, <1>2, <1>3, <1>4, <1>5, <1>6 DEF Environment

\* What LoadSources makes of the lists: an unused object of its own for every
\* source that was found, the last found one for every source that is served.
LEMMA LoadedObjects ==
  ASSUME TypeOK, LoadSources
  PROVE  \E obj \in [Fresh -> {o \in Conn : ~InUse(o)}] :
           /\ \A s, t \in Fresh : s # t => obj[s] # obj[t]
           /\ \A s \in Source :
                loaded'[s] = IF s \notin Resolved THEN NoConn
                             ELSE IF Keeps(s) THEN monitored[s]
                             ELSE IF Found(s) THEN obj[s] ELSE Entry(s)
           /\ \A s \in Source, k \in Key :
                \/ cached'[s][k] = cached[s][k]
                \/ s \in Fresh /\ cached'[s][k] = obj[s]
           /\ src' = [o \in Conn |->
                IF \E s \in Fresh : obj[s] = o
                THEN CHOOSE s \in Fresh : obj[s] = o ELSE src[o]]
           /\ pool' = [o \in Conn |->
                IF \E s \in Fresh : obj[s] = o THEN "nil" ELSE pool[o]]
           /\ worker' = [o \in Conn |->
                IF \E s \in Fresh : obj[s] = o THEN "none" ELSE worker[o]]
<1> DEFINE obj == CHOOSE f \in Allocations : TRUE
<1>1. obj \in Allocations
  BY Zenon DEF LoadSources
<1>2. /\ obj \in [Fresh -> {o \in Conn : ~InUse(o)}]
      /\ \A s, t \in Fresh : s # t => obj[s] # obj[t]
  BY <1>1 DEF Allocations
<1>3. /\ loaded' = [s \in Source |->
            IF s \notin Resolved THEN NoConn
            ELSE IF Keeps(s) THEN monitored[s]
            ELSE IF Found(s) THEN obj[s] ELSE Entry(s)]
      /\ cached' = [s \in Source |-> [k \in Key |->
            IF s \in Fresh \cap DiscoveredSource /\ k = KeyOf(stored[s])
            THEN obj[s] ELSE cached[s][k]]]
      /\ src' = [o \in Conn |->
            IF \E s \in Fresh : obj[s] = o
            THEN CHOOSE s \in Fresh : obj[s] = o ELSE src[o]]
      /\ pool' = [o \in Conn |->
            IF \E s \in Fresh : obj[s] = o THEN "nil" ELSE pool[o]]
      /\ worker' = [o \in Conn |->
            IF \E s \in Fresh : obj[s] = o THEN "none" ELSE worker[o]]
  BY DEF LoadSources
<1> HIDE DEF obj
<1> QED  BY <1>2, <1>3

\* The sequential sections of Reap keep the types: LoadSources hands out unused
\* objects, the shutdowns and the cleanup only clear entries.
LEMMA TypeMainLoop == TypeOK /\ MainLoop => TypeOK'
<1> SUFFICES ASSUME TypeOK, MainLoop PROVE TypeOK'  OBVIOUS
<1> USE ReaperAssumption
        DEF TypeOK, envVars, loopVars, taskVars, connVars, workVars, sinkVars
<1>1. CASE LoadPaused  BY <1>1 DEF LoadPaused
<1>2. CASE LoadFailed  BY <1>2 DEF LoadFailed
<1>3. CASE LoadSources
  <2> DEFINE obj == CHOOSE f \in Allocations : TRUE
  <2>1. obj \in [Fresh -> Conn]
    <3>1. obj \in Allocations  BY <1>3, Zenon DEF LoadSources
    <3> QED  BY <3>1 DEF Allocations
  <2>2. /\ loaded' = [s \in Source |->
             IF s \notin Resolved THEN NoConn
             ELSE IF Keeps(s) THEN monitored[s]
             ELSE IF Found(s) THEN obj[s] ELSE Entry(s)]
        /\ cached' = [s \in Source |-> [k \in Key |->
             IF s \in Fresh \cap DiscoveredSource /\ k = KeyOf(stored[s])
             THEN obj[s] ELSE cached[s][k]]]
        /\ src' = [o \in Conn |->
             IF \E s \in Fresh : obj[s] = o
             THEN CHOOSE s \in Fresh : obj[s] = o ELSE src[o]]
        /\ cfg' = [o \in Conn |->
             IF \E s \in Fresh : obj[s] = o THEN stored[src'[o]] ELSE cfg[o]]
        /\ pool' = [o \in Conn |->
             IF \E s \in Fresh : obj[s] = o THEN "nil" ELSE pool[o]]
        /\ worker' = [o \in Conn |->
             IF \E s \in Fresh : obj[s] = o THEN "none" ELSE worker[o]]
    BY <1>3 DEF LoadSources
  <2>3. /\ todo' \in SUBSET Source /\ reports' \in SUBSET DiscoveredSource /\ pc' = "reload"
        /\ UNCHANGED <<envVars, monitored, prevLoop, taskVars, live, sinkVars>>
    BY <1>3 DEF LoadSources, Restarted, Resolved
  <2>4. Fresh \subseteq Resolved /\ Resolved \subseteq Source
    BY DEF Fresh, Resolved
  <2> HIDE DEF obj
  <2>5. loaded' \in [Source -> Conn \cup {NoConn}]
    <3>1. \A s \in Resolved : Entry(s) \in Conn \cup {NoConn}
      <4> SUFFICES ASSUME NEW s \in Resolved PROVE Entry(s) \in Conn \cup {NoConn}
        OBVIOUS
      <4>1. s \in Source /\ stored[s] \in Config  BY DEF Resolved
      <4>2. KeyOf(stored[s]) \in Key  BY <4>1 DEF Key
      <4> QED  BY <4>1, <4>2 DEF Entry
    <3>2. \A s \in Resolved : ~Keeps(s) /\ Found(s) => obj[s] \in Conn
      BY <2>1 DEF Fresh
    <3> QED  BY <2>2, <3>1, <3>2
  <2>6. cached' \in [Source -> [Key -> Conn \cup {NoConn}]]
    BY <2>1, <2>2
  <2>7. src' \in [Conn -> Source]
    BY <2>2, <2>4
  <2>8. cfg' \in [Conn -> Config \cup {NoConfig}]
    BY <2>2, <2>7
  <2>9. pool' \in [Conn -> PoolState] /\ worker' \in [Conn -> WorkerState]
    BY <2>2 DEF PoolState, WorkerState
  <2> QED  BY <2>3, <2>5, <2>6, <2>7, <2>8, <2>9
<1>4. CASE ReloadEnd  BY <1>4 DEF ReloadEnd
<1>5. CASE BeginSweep  BY <1>5 DEF BeginSweep, TaskState
<1>6. CASE BeginCleanup  BY <1>6 DEF BeginCleanup
<1>7. CASE CleanupEnd  BY <1>7 DEF CleanupEnd, TaskState
<1>8. CASE WakeUp  BY <1>8 DEF WakeUp
<1>9. CASE Return  BY <1>9 DEF Return
<1>10. ASSUME NEW s \in Source, ReloadCancel(s) PROVE TypeOK'
  BY <1>10 DEF ReloadCancel, CancelWorker
<1>11. ASSUME NEW s \in Source, ReloadClose(s) PROVE TypeOK'
  BY <1>11 DEF ReloadClose, CloseWorker, PoolClosed, PoolState
<1>12. ASSUME NEW s \in Source, CleanupKeep(s) PROVE TypeOK'
  BY <1>12 DEF CleanupKeep
<1>13. ASSUME NEW s \in Source, CleanupCancel(s) PROVE TypeOK'
  BY <1>13 DEF CleanupCancel, CancelWorker
<1>14. ASSUME NEW s \in Source, CleanupClose(s) PROVE TypeOK'
  BY <1>14 DEF CleanupClose, CloseWorker, PoolClosed, PoolState
<1>15. ASSUME NEW s \in Source, CleanupPrevious(s) PROVE TypeOK'
  BY <1>15 DEF CleanupPrevious, Gone, PoolClosed, PoolState
<1>16. ASSUME NEW s \in Source, ReloadReport(s) PROVE TypeOK'
  <2>1. [src |-> s, val |-> "noList"] \in Envelope  BY DEF Envelope
  <2>2. measurementCh' \in Seq(Envelope) /\ Len(measurementCh') <= ChanCap
    BY <1>16, <2>1 DEF ReloadReport, Send, CanSend
  <2> QED  BY <1>16, <2>2 DEF ReloadReport
<1> QED  BY <1>1, <1>2, <1>3, <1>4, <1>5, <1>6, <1>7, <1>8, <1>9, <1>10,
            <1>11, <1>12, <1>13, <1>14, <1>15, <1>16 DEF MainLoop

\* The goroutine of a source in the sweep keeps the types; its send respects the
\* capacity of measurementCh.
LEMMA TypeSweep ==
  ASSUME NEW s \in Source, TypeOK, SweepTask(s) PROVE TypeOK'
<1> USE ReaperAssumption
        DEF TypeOK, envVars, loopVars, taskVars, connVars, workVars, sinkVars, TaskState
<1>1. CASE SweepConnect(s)
  <2> USE <1>1 DEF SweepConnect
  <2>1. task' \in [Source -> TaskState]  BY DEF Verdict
  <2>2. pool' \in [Conn -> PoolState]  BY DEF PoolState
  <2> QED  BY <2>1, <2>2
<1>2. CASE SweepDown(s)
  <2>1. [src |-> s, val |-> task[s]] \in Envelope  BY <1>2 DEF SweepDown, Envelope
  <2>2. measurementCh' \in Seq(Envelope) /\ Len(measurementCh') <= ChanCap
    BY <1>2, <2>1 DEF SweepDown, Send, CanSend
  <2> QED  BY <1>2, <2>2 DEF SweepDown
<1>3. CASE SweepFetch(s)  BY <1>3 DEF SweepFetch
<1>4. CASE SweepFilter(s)  BY <1>4 DEF SweepFilter, CancelWorker
<1>5. CASE SweepFilterClose(s)
  BY <1>5 DEF SweepFilterClose, CloseWorker, PoolClosed, PoolState
<1>6. CASE SweepStart(s)  BY <1>6 DEF SweepStart, WorkerState
<1> QED  BY <1>1, <1>2, <1>3, <1>4, <1>5, <1>6 DEF SweepTask

\* A worker's tick keeps the types, its send the capacity of measurementCh.
LEMMA TypeWorker ==
  ASSUME NEW o \in Conn, TypeOK, Worker(o) PROVE TypeOK'
<1> USE ReaperAssumption
        DEF TypeOK, envVars, loopVars, taskVars, connVars, workVars, sinkVars, WorkerState
<1>1. CASE WorkerFetch(o)  BY <1>1 DEF WorkerFetch, WorkerGoes
<1>2. CASE WorkerPingFails(o)  BY <1>2 DEF WorkerPingFails, WorkerGoes
<1>3. CASE WorkerTickEnds(o)  BY <1>3 DEF WorkerTickEnds, WorkerGoes
<1>4. CASE WorkerSend(o)
  <2>1. PICK v \in {"data", "down", "falseDown"} : Send(src[o], v)
    BY <1>4 DEF WorkerSend
  <2>2. [src |-> src[o], val |-> v] \in Envelope  BY <2>1 DEF Envelope
  <2>3. measurementCh' \in Seq(Envelope) /\ Len(measurementCh') <= ChanCap
    BY <1>4, <2>1, <2>2 DEF WorkerSend, Send, CanSend
  <2> QED  BY <1>4, <2>3 DEF WorkerSend
<1>5. CASE WorkerNextTick(o)  BY <1>5 DEF WorkerNextTick, WorkerGoes
<1>6. CASE WorkerExit(o)  BY <1>6 DEF WorkerExit, WorkerGoes
<1> QED  BY <1>1, <1>2, <1>3, <1>4, <1>5, <1>6 DEF Worker

\* WriteMeasurements keeps the types.
LEMMA TypeWriter == TypeOK /\ Writer => TypeOK'
<1> SUFFICES ASSUME TypeOK, Writer PROVE TypeOK'  OBVIOUS
<1> USE ReaperAssumption
        DEF TypeOK, envVars, loopVars, taskVars, connVars, workVars
<1>1. CASE WriterWrite
  <2>1. /\ measurementCh' \in Seq(Envelope) /\ Len(measurementCh') <= ChanCap
        /\ Head(measurementCh) \in Envelope
    BY <1>1 DEF WriterWrite
  <2> QED  BY <1>1, <2>1 DEF WriterWrite, Envelope
<1>2. CASE WriterExit  BY <1>2 DEF WriterExit
<1> QED  BY <1>1, <1>2 DEF Writer

\* Every step of the process and of its environment keeps the types.
LEMMA TypeStep == TypeOK /\ [Next]_vars => TypeOK'
<1> SUFFICES ASSUME TypeOK, [Next]_vars PROVE TypeOK'  OBVIOUS
<1>1. CASE UNCHANGED vars
  BY <1>1 DEF TypeOK, vars, envVars, loopVars, taskVars, connVars, workVars, sinkVars
<1> QED  BY <1>1, TypeEnvironment, TypeMainLoop, TypeSweep, TypeWorker, TypeWriter
         DEF Next, Process

\* Every variable of the reaper keeps its type, and measurementCh never holds
\* more than its capacity: a send into a full channel blocks instead.
THEOREM TypeCorrect == Spec => []TypeOK
<1> QED  BY InitTypeOK, TypeStep, PTL DEF Spec

-----------------------------------------------------------------------------
(* The inductive invariant, apart from TypeOK.                             *)

Agreement ==
  /\ Owned /\ SweepPhase /\ ReloadPhase /\ CleanupPhase
  /\ ListsAgree /\ PoolIsReachable
  /\ LiveWorkerIsRegistered /\ RegisteredWorkerIsCurrent /\ WorkerIsKnownToSinks

\* Before the first loop every list is empty and no worker runs.
LEMMA InitAgreement == Init => Agreement
BY ReaperAssumption DEF Init, Agreement, Owned, SweepPhase, ReloadPhase, CleanupPhase, ListsAgree, PoolIsReachable,
        LiveWorkerIsRegistered, RegisteredWorkerIsCurrent, WorkerIsKnownToSinks, LiveWorker, Running, Sending, AtRest

\* The environment touches no list, no worker and no pool.
LEMMA AgreementEnvironment == TypeOK /\ Agreement /\ Environment => Agreement'
<1> SUFFICES ASSUME TypeOK, Agreement, Environment PROVE Agreement'  OBVIOUS
<1>1. /\ UNCHANGED <<loopVars, taskVars, connVars, workVars, sinkVars>>
      /\ ctxDone => ctxDone'
  BY DEF TypeOK, Environment, StoreFailsOrRecovers, TogglePause, Interrupt, EditConfig,
         ServerFailsOrRecovers, RoleOrSizeChanges
<1> QED
  BY <1>1 DEF loopVars, taskVars, connVars, workVars, sinkVars, Agreement,
        Owned, SweepPhase, ReloadPhase, CleanupPhase, ListsAgree, PoolIsReachable,
        LiveWorkerIsRegistered, RegisteredWorkerIsCurrent, WorkerIsKnownToSinks, LiveWorker, AtRest

\* Cancelling the worker of one name stops no other worker: a cancel function
\* is held under the name of its own source only.
LEMMA CancelOnlyOne ==
  ASSUME NEW s \in Source, TypeOK, Owned, LiveWorkerIsRegistered,
         CancelWorker(s), UNCHANGED <<src, worker>>
  PROVE  /\ LiveWorkerIsRegistered'
         /\ \A t \in Source : cancelFuncs'[t] # NoConn =>
              /\ t # s /\ cancelFuncs'[t] = cancelFuncs[t]
              /\ live'[cancelFuncs[t]] = live[cancelFuncs[t]]
<1>1. /\ cancelFuncs \in [Source -> Conn \cup {NoConn}] /\ NoConn \notin Conn
      /\ \A o \in Conn : src[o] \in Source
  BY ReaperAssumption DEF TypeOK
<1>2. cancelFuncs'[s] = NoConn /\ \A t \in Source \ {s} : cancelFuncs'[t] = cancelFuncs[t]
  BY <1>1 DEF CancelWorker
<1>3. \A o \in Conn : live'[o] = (live[o] /\ o # cancelFuncs[s])
  BY DEF CancelWorker
<1>4. \A o \in Conn : (live'[o] => live[o]) /\ (live'[o] => o # cancelFuncs[s])
  BY <1>3
<1>5. \A t \in Source : cancelFuncs[t] # NoConn => src[cancelFuncs[t]] = t
  BY DEF Owned
<1>6. LiveWorkerIsRegistered'
  <2> SUFFICES ASSUME NEW o \in Conn, worker[o] \in Running, live'[o]
               PROVE  cancelFuncs'[src[o]] = o
    BY DEF LiveWorkerIsRegistered, LiveWorker
  <2>1. cancelFuncs[src[o]] = o /\ o # cancelFuncs[s]
    BY <1>4 DEF LiveWorkerIsRegistered, LiveWorker
  <2> QED  BY <1>1, <1>2, <2>1
<1>7. ASSUME NEW t \in Source, cancelFuncs'[t] # NoConn
      PROVE  /\ t # s /\ cancelFuncs'[t] = cancelFuncs[t]
             /\ live'[cancelFuncs[t]] = live[cancelFuncs[t]]
  <2>1. t # s /\ cancelFuncs'[t] = cancelFuncs[t] /\ cancelFuncs[t] # NoConn
    BY <1>2, <1>7
  <2>2. cancelFuncs[t] \in Conn /\ cancelFuncs[t] # cancelFuncs[s]
    BY <1>1, <1>5, <2>1
  <2>3. live \in [Conn -> BOOLEAN] /\ live' = [o \in Conn |-> live[o] /\ o # cancelFuncs[s]]
    BY DEF TypeOK, CancelWorker
  <2> QED  BY <2>1, <2>2, <2>3
<1> QED  BY <1>6, <1>7

\* The sequential sections of Reap keep the lists, the workers and the pools in
\* agreement: one case per section, LoadSources and the shutdowns in detail.
LEMMA AgreementMainLoop == TypeOK /\ Agreement /\ MainLoop => Agreement'
<1> SUFFICES ASSUME TypeOK, Agreement, MainLoop PROVE Agreement'  OBVIOUS
<1> USE ReaperAssumption
        DEF TypeOK, Agreement, Owned, SweepPhase, ReloadPhase, CleanupPhase, ListsAgree, PoolIsReachable,
        LiveWorkerIsRegistered, RegisteredWorkerIsCurrent, WorkerIsKnownToSinks,
        LiveWorker, AtRest,
        envVars, loopVars, taskVars, connVars, workVars, sinkVars
<1>1. CASE LoadPaused  BY <1>1 DEF LoadPaused
<1>2. CASE LoadFailed  BY <1>2 DEF LoadFailed
<1>3. CASE LoadSources
  <2>1. PICK obj \in [Fresh -> {o \in Conn : ~InUse(o)}] :
          /\ \A s, t \in Fresh : s # t => obj[s] # obj[t]
          /\ \A s \in Source :
               loaded'[s] = IF s \notin Resolved THEN NoConn
                            ELSE IF Keeps(s) THEN monitored[s]
                            ELSE IF Found(s) THEN obj[s] ELSE Entry(s)
          /\ \A s \in Source, k \in Key :
               \/ cached'[s][k] = cached[s][k]
               \/ s \in Fresh /\ cached'[s][k] = obj[s]
          /\ src' = [o \in Conn |->
               IF \E s \in Fresh : obj[s] = o
               THEN CHOOSE s \in Fresh : obj[s] = o ELSE src[o]]
          /\ pool' = [o \in Conn |->
               IF \E s \in Fresh : obj[s] = o THEN "nil" ELSE pool[o]]
          /\ worker' = [o \in Conn |->
               IF \E s \in Fresh : obj[s] = o THEN "none" ELSE worker[o]]
    BY <1>3, LoadedObjects
  <2>2. /\ pc = "load" /\ pc' = "reload" /\ todo' = Restarted
        /\ UNCHANGED <<ctxDone, monitored, prevLoop, cancelFuncs, closing, task,
                       live, registered>>
    BY <1>3 DEF LoadSources
  <2>3. \A o \in Conn : InUse(o) => src'[o] = src[o] /\ pool'[o] = pool[o] /\ worker'[o] = worker[o]
    BY <2>1
  <2>4. \A s \in Fresh : obj[s] \in Conn /\ src'[obj[s]] = s /\ pool'[obj[s]] = "nil"
    BY <2>1
  <2>5. \A o \in Conn : ~InUse(o) => \A s \in Source :
          o \notin {monitored[s], loaded[s], prevLoop[s], cancelFuncs[s]}
    BY DEF InUse
  <2>6. \A s \in Source : \A o \in Conn :
          \/ o \in {monitored[s], prevLoop[s], cancelFuncs[s]}
          \/ \E k \in Key : o = cached[s][k]
          => InUse(o)
    BY DEF InUse
  \* What a source is loaded with: nothing, the object it has, a new one, or
  \* one from the cache.
  <2>7. ASSUME NEW s \in Source, loaded'[s] # NoConn
        PROVE  \/ loaded'[s] = monitored[s] /\ (s \in Resolved /\ Keeps(s))
               \/ s \in Fresh /\ loaded'[s] = obj[s] /\ s \in Resolved /\ ~Keeps(s)
               \/ /\ s \in Resolved /\ ~Keeps(s)
                  /\ \E k \in Key : loaded'[s] = cached[s][k]
    <3>1. s \in Resolved
      BY <2>1, <2>7
    <3>2. CASE Keeps(s)
      BY <2>1, <3>1, <3>2
    <3>3. CASE ~Keeps(s) /\ Found(s)
      BY <2>1, <3>1, <3>3 DEF Fresh
    <3>4. CASE ~Keeps(s) /\ ~Found(s)
      <4>1. loaded'[s] = Entry(s)  BY <2>1, <3>1, <3>4
      <4>2. KeyOf(stored[s]) \in Key  BY <3>1 DEF Resolved, Key
      <4> QED  BY <3>1, <3>4, <4>1, <4>2 DEF Entry
    <3> QED  BY <3>2, <3>3, <3>4
  <2>8. Owned'
    <3> SUFFICES ASSUME NEW s \in Source
                 PROVE  /\ loaded'[s] # NoConn => src'[loaded'[s]] = s
                        /\ monitored[s] # NoConn => src'[monitored[s]] = s
                        /\ prevLoop[s] # NoConn => src'[prevLoop[s]] = s
                        /\ cancelFuncs[s] # NoConn => src'[cancelFuncs[s]] = s
                        /\ \A k \in Key : cached'[s][k] # NoConn => src'[cached'[s][k]] = s
      BY <2>2
    <3>1. /\ \A o \in {monitored[s], prevLoop[s], cancelFuncs[s]} : o # NoConn => src'[o] = s
          /\ \A k \in Key : cached[s][k] # NoConn => src'[cached[s][k]] = s
      <4>1. /\ \A o \in {monitored[s], prevLoop[s], cancelFuncs[s]} :
                 o # NoConn => o \in Conn /\ src[o] = s
            /\ \A k \in Key : cached[s][k] # NoConn => cached[s][k] \in Conn /\ src[cached[s][k]] = s
        OBVIOUS
      <4> QED  BY ONLY <2>3, <2>6, <4>1
    <3>2. loaded'[s] # NoConn => src'[loaded'[s]] = s
      BY ONLY <2>4, <2>7, <3>1
    <3>3. \A k \in Key : cached'[s][k] # NoConn => src'[cached'[s][k]] = s
      BY ONLY <2>1, <2>4, <3>1
    <3> QED  BY ONLY <3>1, <3>2, <3>3
  <2>9. SweepPhase'
    BY <2>2
  <2>10. ReloadPhase'
    <3> SUFFICES ASSUME NEW s \in Source
                 PROVE  IF s \in Restarted
                        THEN cancelFuncs[s] # NoConn => loaded'[s] # cancelFuncs[s]
                        ELSE /\ cancelFuncs[s] # NoConn => loaded'[s] \in {cancelFuncs[s], NoConn}
                             /\ monitored[s] # NoConn /\ pool'[monitored[s]] = "open"
                                  => loaded'[s] \in {monitored[s], NoConn}
      BY <2>2
    <3>1. cancelFuncs[s] # NoConn => monitored[s] = cancelFuncs[s]
      BY <2>2
    <3>2. s \notin Restarted => loaded'[s] \in {monitored[s], NoConn} \/ monitored[s] = NoConn
      BY <2>7 DEF Restarted
    <3>3. CASE s \in Restarted
      <4>1. monitored[s] # NoConn /\ s \in Resolved /\ ~Keeps(s)
        BY <3>3 DEF Restarted
      <4>2. loaded'[s] # monitored[s]
        <5>1. CASE Found(s)
          <6>1. s \in Fresh /\ loaded'[s] = obj[s]  BY <2>1, <4>1, <5>1 DEF Fresh
          <6> QED  BY <2>1, <2>5, <6>1
        <5>2. CASE ~Found(s)
          <6>1. loaded'[s] = Entry(s)  BY <2>1, <4>1, <5>2
          <6>2. Entry(s) # monitored[s]
            BY <4>1, <5>2 DEF Keeps, NewConfig, Equal
          <6> QED  BY <6>1, <6>2
        <5> QED  BY <5>1, <5>2
      <4> QED  BY <3>1, <3>3, <4>2
    <3> QED  BY <3>1, <3>2, <3>3
  <2>11. ListsAgree' /\ CleanupPhase'
    BY <2>2
  <2>12. PoolIsReachable'
    BY <2>1, <2>2, <2>3
  <2>13. LiveWorkerIsRegistered'
    BY <2>1, <2>2, <2>3 DEF Running, Sending
  <2>14. RegisteredWorkerIsCurrent' /\ WorkerIsKnownToSinks'
    BY <2>2, <2>3, <2>6
  <2> QED  BY <2>8, <2>9, <2>10, <2>11, <2>12, <2>13, <2>14
<1>4. CASE ReloadEnd  BY <1>4 DEF ReloadEnd
<1>5. CASE BeginSweep
  <2>1. Owned' /\ ListsAgree' /\ PoolIsReachable'  BY <1>5 DEF BeginSweep
  <2>2. SweepPhase'  BY <1>5 DEF BeginSweep
  <2> QED  BY <1>5, <2>1, <2>2 DEF BeginSweep
<1>6. CASE BeginCleanup  BY <1>6 DEF BeginCleanup
<1>7. CASE CleanupEnd
  <2>1. Owned' /\ ListsAgree'  BY <1>7 DEF CleanupEnd
  <2>3. closing = {}  BY <1>7 DEF CleanupEnd
  <2>4. SweepPhase'  BY <1>7, <2>3 DEF CleanupEnd
  <2>2. PoolIsReachable' /\ RegisteredWorkerIsCurrent'  BY <1>7 DEF CleanupEnd, Gone
  <2> QED  BY <1>7, <2>1, <2>2, <2>4 DEF CleanupEnd
<1>8. CASE WakeUp  BY <1>8 DEF WakeUp
<1>9. CASE Return  BY <1>9 DEF Return
<1>10. ASSUME NEW s \in Source, ReloadCancel(s) PROVE Agreement'
  <2>1. /\ LiveWorkerIsRegistered'
        /\ \A t \in Source : cancelFuncs'[t] # NoConn =>
             /\ t # s /\ cancelFuncs'[t] = cancelFuncs[t]
             /\ live'[cancelFuncs[t]] = live[cancelFuncs[t]]
    BY <1>10, CancelOnlyOne DEF ReloadCancel
  <2>2. closing' = closing \cup {s} /\ cancelFuncs'[s] = NoConn
    BY <1>10 DEF ReloadCancel, CancelWorker
  <2> QED  BY <1>10, <2>1, <2>2 DEF ReloadCancel
<1>11. ASSUME NEW s \in Source, ReloadClose(s) PROVE Agreement'
  BY <1>11 DEF ReloadClose, CloseWorker, PoolClosed, PoolState
<1>12. ASSUME NEW s \in Source, CleanupKeep(s) PROVE Agreement'
  BY <1>12 DEF CleanupKeep
<1>13. ASSUME NEW s \in Source, CleanupCancel(s) PROVE Agreement'
  <2>1. /\ LiveWorkerIsRegistered'
        /\ \A t \in Source : cancelFuncs'[t] # NoConn =>
             /\ t # s /\ cancelFuncs'[t] = cancelFuncs[t]
             /\ live'[cancelFuncs[t]] = live[cancelFuncs[t]]
    BY <1>13, CancelOnlyOne DEF CleanupCancel
  <2>2. closing' = closing \cup {s} /\ cancelFuncs'[s] = NoConn
    BY <1>13 DEF CleanupCancel, CancelWorker
  <2> QED  BY <1>13, <2>1, <2>2 DEF CleanupCancel
<1>14. ASSUME NEW s \in Source, CleanupClose(s) PROVE Agreement'
  BY <1>14 DEF CleanupClose, CloseWorker, PoolClosed, PoolState
<1>15. ASSUME NEW s \in Source, CleanupPrevious(s) PROVE Agreement'
  BY <1>15 DEF CleanupPrevious, Gone, PoolClosed, PoolState
<1>16. ASSUME NEW s \in Source, ReloadReport(s) PROVE Agreement'
  BY <1>16 DEF ReloadReport
<1> QED  BY <1>1, <1>2, <1>3, <1>4, <1>5, <1>6, <1>7, <1>8, <1>9, <1>10,
            <1>11, <1>12, <1>13, <1>14, <1>15, <1>16 DEF MainLoop

\* The goroutine of one source keeps the agreement whatever those of the other
\* sources do at the same time: it only writes under its own name.
LEMMA AgreementSweep ==
  ASSUME NEW s \in Source, TypeOK, Agreement, SweepTask(s) PROVE Agreement'
<1> USE ReaperAssumption
        DEF TypeOK, Agreement, Owned, SweepPhase, ReloadPhase, CleanupPhase, ListsAgree, PoolIsReachable,
        LiveWorkerIsRegistered, RegisteredWorkerIsCurrent, WorkerIsKnownToSinks,
        LiveWorker, AtRest,
        envVars, loopVars, taskVars, connVars, workVars, sinkVars
<1>1. CASE SweepConnect(s)  BY <1>1 DEF SweepConnect, Verdict, PingOK, IsProm
<1>2. CASE SweepDown(s)  BY <1>2 DEF SweepDown
<1>3. CASE SweepFetch(s)  BY <1>3 DEF SweepFetch
<1>4. CASE SweepFilter(s)
  <2>1. /\ LiveWorkerIsRegistered'
        /\ \A t \in Source : cancelFuncs'[t] # NoConn =>
             /\ t # s /\ cancelFuncs'[t] = cancelFuncs[t]
             /\ live'[cancelFuncs[t]] = live[cancelFuncs[t]]
    BY <1>4, CancelOnlyOne DEF SweepFilter
  <2>2. closing' = closing \cup {s} /\ cancelFuncs'[s] = NoConn
    BY <1>4 DEF SweepFilter, CancelWorker
  <2> QED  BY <1>4, <2>1, <2>2 DEF SweepFilter
<1>5. CASE SweepFilterClose(s)
  BY <1>5 DEF SweepFilterClose, CloseWorker, PoolClosed, PoolState
<1>6. CASE SweepStart(s)
  <2> USE <1>6 DEF SweepStart
  <2>1. CASE cancelFuncs[s] # NoConn  BY <2>1
  <2>2. CASE cancelFuncs[s] = NoConn
    <3>1. /\ monitored[s] \in Conn /\ src[monitored[s]] = s /\ s \notin closing
          /\ s \in PromSource \/ pool[monitored[s]] = "open"
      <4>1. task[s] = "start" /\ pc = "sweep" /\ monitored[s] # NoConn  OBVIOUS
      <4>2. monitored[s] \in Conn /\ src[monitored[s]] = s  BY <4>1
      <4>3. s \notin closing /\ (s \in PromSource \/ pool[monitored[s]] = "open")  BY <4>1
      <4> QED  BY <4>2, <4>3
    <3>2. /\ cancelFuncs' = [cancelFuncs EXCEPT ![s] = monitored[s]]
          /\ worker' = [worker EXCEPT ![monitored[s]] = "tick"]
          /\ live' = [live EXCEPT ![monitored[s]] = TRUE]
      BY <2>2
    <3>3. \A o \in Conn : LiveWorker(o) => src[o] # s
      BY <2>2
    <3>4. LiveWorkerIsRegistered'  BY <3>1, <3>2, <3>3
    <3>5. RegisteredWorkerIsCurrent'  BY <3>1, <3>2 DEF Running, Sending
    <3>6. WorkerIsKnownToSinks'  BY <3>2
    <3>7. Owned' /\ SweepPhase'  BY <3>1, <3>2
    <3> QED  BY <3>2, <3>4, <3>5, <3>6, <3>7
  <2> QED  BY <2>1, <2>2
<1> QED  BY <1>1, <1>2, <1>3, <1>4, <1>5, <1>6 DEF SweepTask

\* A worker only moves within its tick, or ends when it is cancelled.
LEMMA AgreementWorker ==
  ASSUME NEW o \in Conn, TypeOK, Agreement, Worker(o) PROVE Agreement'
<1> USE ReaperAssumption
        DEF TypeOK, Agreement, Owned, SweepPhase, ReloadPhase, CleanupPhase, ListsAgree, PoolIsReachable,
        LiveWorkerIsRegistered, RegisteredWorkerIsCurrent, WorkerIsKnownToSinks,
        LiveWorker, AtRest,
        envVars, loopVars, taskVars, connVars, workVars, sinkVars
<1>1. /\ UNCHANGED <<envVars, loopVars, taskVars, connVars, live, writer, registered>>
      /\ \A c \in Conn : worker'[c] \in Running => worker[c] \in Running
      /\ \A c \in Conn : worker[c] \in Running /\ worker'[c] \notin Running
           => ctxDone \/ ~live[c]
  BY DEF Worker, WorkerFetch, WorkerPingFails, WorkerTickEnds, WorkerSend,
         WorkerNextTick, WorkerExit, WorkerGoes, Running, Sending, Cancelled
<1> QED  BY <1>1

\* WriteMeasurements only ever adds a source to those the sinks know.
LEMMA AgreementWriter == TypeOK /\ Agreement /\ Writer => Agreement'
<1> SUFFICES ASSUME TypeOK, Agreement, Writer PROVE Agreement'  OBVIOUS
<1> USE ReaperAssumption
        DEF TypeOK, Agreement, Owned, SweepPhase, ReloadPhase, CleanupPhase, ListsAgree, PoolIsReachable,
        LiveWorkerIsRegistered, RegisteredWorkerIsCurrent, WorkerIsKnownToSinks,
        LiveWorker, AtRest,
        envVars, loopVars, taskVars, connVars, workVars, sinkVars
<1>1. CASE WriterWrite  BY <1>1 DEF WriterWrite
<1>2. CASE WriterExit  BY <1>2 DEF WriterExit
<1> QED  BY <1>1, <1>2 DEF Writer

-----------------------------------------------------------------------------
(* Workers and their objects.                                              *)

\* A step keeps WorkerKeepsObject: a worker is started on an object that is
\* registered with it in the same step, a registered worker is cancelled by a
\* shutdown, which closes the pool, and an object with an open pool is never
\* brought back into the list.
LEMMA ObjectStep == TypeOK /\ Agreement /\ WorkerKeepsObject /\ [Next]_vars => WorkerKeepsObject'
<1> SUFFICES ASSUME TypeOK, Agreement, WorkerKeepsObject, [Next]_vars
             PROVE  WorkerKeepsObject'
  OBVIOUS
<1> USE ReaperAssumption
        DEF TypeOK, Agreement, WorkerKeepsObject,
            envVars, loopVars, taskVars, connVars, workVars, sinkVars
<1>1. CASE UNCHANGED <<src, worker, pool, monitored, cancelFuncs, closing>>
  BY <1>1
<1>2. CASE LoadSources
  <2>1. UNCHANGED <<monitored, cancelFuncs, closing>>
    BY <1>2 DEF LoadSources
  <2>2. \A o \in Conn : \/ src'[o] = src[o] /\ worker'[o] = worker[o] /\ pool'[o] = pool[o]
                        \/ worker'[o] = "none"
    BY <1>2, LoadedObjects
  <2> QED  BY <2>1, <2>2
<1>3. CASE LoadPaused  BY <1>3 DEF LoadPaused
<1>4. CASE ReloadEnd
  <2>1. \A o \in Conn : pool[o] = "open" => monitored[src[o]] = o
    BY <1>4 DEF ReloadEnd, PoolIsReachable
  <2> QED  BY <1>4, <2>1 DEF ReloadEnd
<1>5. ASSUME NEW s \in Source, CancelWorker(s), UNCHANGED <<src, worker, pool, monitored>>
      PROVE  WorkerKeepsObject'
  BY <1>5 DEF CancelWorker
<1>6. ASSUME NEW s \in Source, CloseWorker(s), UNCHANGED <<src, worker, monitored, cancelFuncs>>
      PROVE  WorkerKeepsObject'
  BY <1>6 DEF CloseWorker, PoolClosed, PoolState, Owned
<1>7. ASSUME NEW s \in Source, CleanupPrevious(s) PROVE WorkerKeepsObject'
  BY <1>7 DEF CleanupPrevious, PoolClosed, PoolState
<1>8. ASSUME NEW s \in Source, SweepConnect(s) PROVE WorkerKeepsObject'
  BY <1>8 DEF SweepConnect, SweepPhase, Owned, IsProm
<1>9. ASSUME NEW s \in Source, SweepStart(s) PROVE WorkerKeepsObject'
  <2>1. task[s] = "start" /\ pc = "sweep" /\ monitored[s] # NoConn
    BY <1>9 DEF SweepStart, SweepPhase
  <2>2. /\ monitored[s] \in Conn /\ src[monitored[s]] = s
        /\ s \in PromSource \/ pool[monitored[s]] = "open"
    BY <2>1 DEF SweepPhase, Owned
  <2>3. /\ UNCHANGED <<src, pool, monitored, closing>>
        /\ \/ UNCHANGED <<cancelFuncs, worker>>
           \/ /\ cancelFuncs' = [cancelFuncs EXCEPT ![s] = monitored[s]]
              /\ worker' = [worker EXCEPT ![monitored[s]] = "tick"]
    BY <1>9 DEF SweepStart
  <2>4. CASE UNCHANGED <<cancelFuncs, worker>>  BY <2>3, <2>4
  <2>5. CASE /\ cancelFuncs' = [cancelFuncs EXCEPT ![s] = monitored[s]]
             /\ worker' = [worker EXCEPT ![monitored[s]] = "tick"]
    BY <2>2, <2>3, <2>5
  <2> QED  BY <2>3, <2>4, <2>5
<1>10. ASSUME NEW c \in Conn, Worker(c) PROVE WorkerKeepsObject'
  BY <1>10 DEF Worker, WorkerFetch, WorkerPingFails, WorkerTickEnds, WorkerSend,
         WorkerNextTick, WorkerExit, WorkerGoes, Sending
<1>11. \/ UNCHANGED <<src, worker, pool, monitored, cancelFuncs, closing>>
       \/ LoadSources \/ LoadPaused \/ ReloadEnd
       \/ \E s \in Source :
            \/ CancelWorker(s) /\ UNCHANGED <<src, worker, pool, monitored>>
            \/ CloseWorker(s) /\ UNCHANGED <<src, worker, monitored, cancelFuncs>>
            \/ CleanupPrevious(s) \/ SweepConnect(s) \/ SweepStart(s)
       \/ \E c \in Conn : Worker(c)
  BY DEF Next, Process, MainLoop, SweepTask, Environment, Writer, vars,
     StoreFailsOrRecovers, TogglePause, Interrupt, EditConfig,
     ServerFailsOrRecovers, RoleOrSizeChanges, LoadFailed, ReloadReport, ReloadCancel,
     ReloadClose, BeginSweep, SweepDown, SweepFetch, SweepFilter, SweepFilterClose,
     BeginCleanup, CleanupKeep, CleanupCancel, CleanupClose, CleanupEnd, WakeUp,
     Return, WriterWrite, WriterExit
<1> QED  BY <1>1, <1>2, <1>3, <1>4, <1>5, <1>6, <1>7, <1>8, <1>9, <1>10, <1>11

-----------------------------------------------------------------------------
(* The theorems.                                                           *)

\* The inductive step: every step of Next, or a stutter, keeps IInv.
LEMMA Induction == IInv /\ [Next]_vars => IInv'
<1> SUFFICES ASSUME TypeOK, Agreement, WorkerKeepsObject, [Next]_vars
             PROVE  TypeOK' /\ Agreement'
  BY ObjectStep DEF IInv, Agreement
<1>1. CASE UNCHANGED vars
  BY <1>1 DEF vars, envVars, loopVars, taskVars, connVars, workVars, sinkVars, Agreement,
        Owned, SweepPhase, ReloadPhase, CleanupPhase, ListsAgree, PoolIsReachable,
        LiveWorkerIsRegistered, RegisteredWorkerIsCurrent, WorkerIsKnownToSinks,
        LiveWorker, AtRest, TypeOK
<1>2. CASE Environment  BY <1>2, TypeEnvironment, AgreementEnvironment
<1>3. CASE MainLoop  BY <1>3, TypeMainLoop, AgreementMainLoop
<1>4. ASSUME NEW s \in Source, SweepTask(s) PROVE TypeOK' /\ Agreement'
  BY <1>4, TypeSweep, AgreementSweep
<1>5. ASSUME NEW o \in Conn, Worker(o) PROVE TypeOK' /\ Agreement'
  BY <1>5, TypeWorker, AgreementWorker
<1>6. CASE Writer  BY <1>6, TypeWriter, AgreementWriter
<1> QED  BY <1>1, <1>2, <1>3, <1>4, <1>5, <1>6 DEF Next, Process

\* The inductive invariant holds in every reachable state: how the lists of the
\* main loop, the registered workers, the sweep goroutines and the pools agree
\* in each phase of Reap.
THEOREM Invariance == Spec => []IInv
<1>1. Init => WorkerKeepsObject  BY DEF Init, WorkerKeepsObject
<1>2. Init => IInv  BY <1>1, InitTypeOK, InitAgreement DEF IInv, Agreement
<1> QED  BY <1>2, Induction, PTL DEF Spec

\* No worker ever collects out of the reach of ShutdownWorker, and no name has
\* two live workers, however the sweep goroutines of StartWorker interleave.
THEOREM WorkersAreRegistered == Spec => []LiveWorkerIsRegistered
<1>1. IInv => LiveWorkerIsRegistered  BY DEF IInv
<1> QED  BY <1>1, Invariance, PTL

\* A registered worker runs on the monitored object of its name and on an open
\* pool, across every reload, filter, pause and cleanup.
THEOREM WorkersAreCurrent == Spec => []RegisteredWorkerIsCurrent
<1>1. IInv => RegisteredWorkerIsCurrent  BY DEF IInv
<1> QED  BY <1>1, Invariance, PTL

\* Replaced, removed and paused objects are closed by the end of each loop.
THEOREM PoolsAreClosed == Spec => []NoPoolLeak
<1>1. IInv => NoPoolLeak  BY DEF IInv, PoolIsReachable, NoPoolLeak, AtRest
<1> QED  BY <1>1, Invariance, PTL

\* No DeleteOp reaches the sinks for a database that has a worker.
THEOREM WorkersAreKnown == Spec => []WorkerIsKnownToSinks
<1>1. IInv => WorkerIsKnownToSinks  BY DEF IInv
<1> QED  BY <1>1, Invariance, PTL

\* No connection object is ever given a second worker, although the cache of
\* the resolver may bring back an object that had one: its pool was closed.
THEOREM ObjectsStartOnce == Spec => []StartedOnce
<1>1. IInv => StartedOnce
  BY ReaperAssumption DEF IInv, TypeOK, Owned, SweepPhase, WorkerKeepsObject, StartedOnce
<1> QED  BY <1>1, Invariance, PTL

\* A step that ends a live worker is a step of the shutdown of the process, of
\* a configuration change, removal or pause, or of FilterSource: never of a
\* failed Connect, fetch or configuration read.
THEOREM WorkersStopForCause == Spec => StoppedForCause
<1> DEFINE Cause(o) == ctxDone \/ loaded[src[o]] # o \/ task[src[o]] = "filter"
<1>1. ASSUME IInv, [Next]_vars, NEW o \in Conn, LiveWorker(o), ~LiveWorker(o)'
      PROVE  Cause(o)
  <2> USE ReaperAssumption, <1>1
      DEF IInv, TypeOK, LiveWorkerIsRegistered, LiveWorker,
          envVars, loopVars, taskVars, connVars, workVars, sinkVars
  <2>1. o \in Conn /\ cancelFuncs[src[o]] = o  OBVIOUS
  <2>2. CASE UNCHANGED workVars  BY <2>2
  <2>3. ASSUME NEW s \in Source, CancelWorker(s), worker' = worker PROVE s = src[o]
    BY <2>1, <2>3 DEF CancelWorker, Owned
  <2>4. CASE LoadSources
    <3>1. worker'[o] = worker[o] /\ live' = live
      <4>1. InUse(o) /\ live' = live  BY <2>4 DEF LoadSources, InUse
      <4>2. InUse(o) => worker'[o] = worker[o]  BY <2>4, LoadedObjects
      <4> QED  BY <4>1, <4>2
    <3> QED  BY <3>1
  <2>5. ASSUME NEW s \in Source, ReloadCancel(s) PROVE Cause(o)
    BY <2>1, <2>3, <2>5 DEF ReloadCancel, ReloadPhase
  <2>6. ASSUME NEW s \in Source, CleanupCancel(s) PROVE Cause(o)
    BY <2>1, <2>3, <2>6 DEF CleanupCancel, ListsAgree
  <2>7. ASSUME NEW s \in Source, SweepFilter(s) PROVE Cause(o)
    BY <2>1, <2>3, <2>7 DEF SweepFilter
  <2>8. ASSUME NEW s \in Source, SweepStart(s) PROVE Cause(o)
    BY <2>8 DEF SweepStart, Running, Sending
  <2>9. ASSUME NEW c \in Conn, Worker(c) PROVE Cause(o)
    BY <2>9 DEF Worker, WorkerFetch, WorkerPingFails, WorkerTickEnds, WorkerSend,
         WorkerNextTick, WorkerExit, WorkerGoes, Running, Sending, Cancelled
  <2>10. \/ UNCHANGED workVars \/ LoadSources
         \/ \E s \in Source : \/ ReloadCancel(s) \/ CleanupCancel(s)
                              \/ SweepFilter(s) \/ SweepStart(s)
         \/ \E c \in Conn : Worker(c)
    BY DEF Next, Process, MainLoop, SweepTask, Environment, Writer, vars,
       StoreFailsOrRecovers, TogglePause, Interrupt, EditConfig,
       ServerFailsOrRecovers, RoleOrSizeChanges, LoadPaused, LoadFailed, ReloadReport, ReloadClose,
       ReloadEnd, BeginSweep, SweepConnect, SweepDown, SweepFetch, SweepFilterClose,
       BeginCleanup, CleanupKeep, CleanupClose, CleanupPrevious, CleanupEnd, WakeUp,
       Return, WriterWrite, WriterExit
  <2> QED  BY <2>2, <2>4, <2>5, <2>6, <2>7, <2>8, <2>9, <2>10
<1>2. IInv /\ [Next]_vars =>
        [\A o \in Conn : LiveWorker(o) /\ ~LiveWorker(o)' =>
           ctxDone \/ loaded[src[o]] # o \/ task[src[o]] = "filter"]_vars
  BY <1>1
<1> QED  BY <1>2, Invariance, PTL DEF Spec, StoppedForCause
====
