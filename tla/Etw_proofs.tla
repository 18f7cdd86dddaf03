------------------------------ MODULE Etw_proofs ------------------------------
(***************************************************************************)
(* Proofs about the two specifications of the package etw: the sessions    *)
(* (SessionManager), for any number of restart goroutines and of stops by  *)
(* other tools, and the way of the events to the handlers (EventHandler),  *)
(* for any choice of groups and any number of events and disks.            *)
(***************************************************************************)
EXTENDS SessionManager, EventHandler, FiniteSetTheorems, TLAPS

-----------------------------------------------------------------------------
(* The sessions.  The inductive invariant IInv adds to the types that the  *)
(* goroutine that restarts a session is the one that entered it in         *)
(* restartingSessions, how the flags follow the main goroutine, and that a *)
(* goroutine about to release a session is no report of a later stop.      *)

Starting == mainpc \in {"startKernel", "startExporter", "startConsumer"}

Flags ==
    /\ ~Starting /\ mainpc \notin {"run", "failed"} => isStopping
    /\ isStopping => ~Starting /\ mainpc # "run"
    /\ isStopping => ~running \/ mainpc = "stopLocked"
    /\ cancelled => isStopping
    /\ mainpc = "run" => running

Entered == \A w \in Workers : Restarting(w) => wsession[w] \in restartingSessions

Reported ==
    mainpc = "run" =>
        \A s \in AlwaysRestarted \ (tracing \union gaveUp) :
            \/ stoppedTraces[s] > 0 \/ monitor = s
            \/ \E w \in Workers : wsession[w] = s /\ wpc[w] # "release"

Counted ==
    \A w \in Workers :
        /\ ~Restarting(w) => attempts[w] = 0
        /\ wpc[w] = "attempt" => attempts[w] < MaxAttempts

Typed == TypeOK /\ Counted

IInv == Typed /\ Flags /\ Entered /\ OneRestarter /\ Reported

\* What the goroutines that do not belong to the main one leave alone.
Apart == UNCHANGED <<config, mainVars>>

-----------------------------------------------------------------------------
\* The types hold at the start, where no goroutine has begun.
LEMMA InitType == Init => Typed
<1> SUFFICES ASSUME Init PROVE Typed
  OBVIOUS
<1>1. MaxStops \in Nat /\ MaxAttempts \in Nat
  BY SessionAssumption DEF SessionAssumption
<1>2. /\ wpc \in [Workers -> {"free", "begin", "readRunning", "acquire",
                             "sleep", "attempt", "pause", "release"}]
      /\ wsession \in [Workers -> Sessions \union {None}]
      /\ \A w \in Workers : (wsession[w] = None) <=> (wpc[w] = "free")
  BY DEF Init
<1>3. /\ attempts \in [Workers -> 0 .. MaxAttempts] /\ stops \in 0 .. MaxStops
      /\ stoppedTraces \in [Sessions -> Nat] /\ stopEvents \in [Sessions -> Nat]
  BY <1>1 DEF Init
<1> QED
  BY <1>2, <1>3 DEF Init, TypeOK, Typed, Counted, Restarting

\* Every step of the main goroutine keeps the types.
LEMMA MainType == Typed /\ Main => Typed'
<1> SUFFICES ASSUME Typed, Main PROVE Typed'
  OBVIOUS
<1> USE DEF TypeOK, Typed, Counted, Restarting, config, mainVars, windows,
            notices, background, restarts, history
<1>1. ASSUME NEW s \in Sessions, NEW here,
             NEW next \in {"startExporter", "startConsumer"},
             StartSession(s, here, next)
      PROVE  Typed'
  BY <1>1 DEF StartSession
<1>2. CASE StartConsumer
  BY <1>2 DEF StartConsumer
<1>3. CASE Stop
  BY <1>3 DEF Stop
<1>4. CASE StopUnlock
  BY <1>4 DEF StopUnlock
<1>5. CASE StopConsumer
  BY <1>5 DEF StopConsumer
<1>6. ASSUME NEW s \in Sessions, NEW here,
             NEW next \in {"stopKernel", "cancel"}, StopSession(s, here, next)
      PROVE  Typed'
  <2>1. owner' \in [Sessions -> {"none", "ours", "other"}]
    BY <1>6 DEF StopSession
  <2>2. /\ mainpc' \in {"stopKernel", "cancel"} /\ stopError' \in BOOLEAN
        /\ UNCHANGED <<config, running, isStopping, cancelled, tracing, notices,
                       background, restarts, stops, gaveUp>>
    BY <1>6 DEF StopSession
  <2> QED
    BY <2>1, <2>2
<1>7. CASE Cancel
  BY <1>7 DEF Cancel
<1>8. CASE WaitDone
  BY <1>8 DEF WaitDone
<1>9. Kernel \in Sessions /\ Exporter \in Sessions
  BY DEF Sessions
<1> QED
  BY <1>1, <1>2, <1>3, <1>4, <1>5, <1>6, <1>7, <1>8, <1>9 DEF Main

\* Handling a stop keeps the types of the goroutines.
LEMMA HandleType ==
    ASSUME Typed, NEW s \in Sessions, HandleSessionStop(s)
    PROVE  /\ wpc' \in [Workers -> {"free", "begin", "readRunning", "acquire",
                                    "sleep", "attempt", "pause", "release"}]
           /\ wsession' \in [Workers -> Sessions \union {None}]
           /\ \A w \in Workers : (wsession'[w] = None) <=> (wpc'[w] = "free")
           /\ attempts' = attempts => Counted'
  BY SessionAssumption
  DEF SessionAssumption, TypeOK, Typed, Counted, Restarting, HandleSessionStop,
      Spawn

\* Every step of the monitor, the watcher and the rundown keeps the types.
LEMMA BackgroundType ==
    Typed /\ (Monitor \/ RundownTick \/ RundownEnds) => Typed'
<1> SUFFICES ASSUME Typed, Monitor \/ RundownTick \/ RundownEnds PROVE Typed'
  OBVIOUS
<1> USE DEF config, mainVars, windows, notices, background, restarts, history
<1>1. ASSUME NEW s \in Sessions, TraceStopped(s) PROVE Typed'
  BY <1>1 DEF TypeOK, Typed, Counted, Restarting, TraceStopped
<1>2. ASSUME NEW s \in Sessions, LookUp(s) PROVE Typed'
  BY <1>2, HandleType DEF TypeOK, Typed, Counted, Restarting, LookUp
<1>3. CASE MonitorEnds
  BY <1>3 DEF TypeOK, Typed, Counted, Restarting, MonitorEnds
<1>4. CASE RundownTick
  BY <1>4 DEF TypeOK, Typed, Counted, Restarting, RundownTick
<1>5. CASE RundownEnds
  BY <1>5 DEF TypeOK, Typed, Counted, Restarting, RundownEnds
<1> QED
  BY <1>1, <1>2, <1>3, <1>4, <1>5 DEF Monitor

\* Every step of a restart goroutine keeps the types.
LEMMA RestartType == ASSUME NEW w \in Workers PROVE Typed /\ Restart(w) => Typed'
<1> SUFFICES ASSUME Typed, Restart(w) PROVE Typed'
  OBVIOUS
<1> USE SessionAssumption
    DEF SessionAssumption, TypeOK, Typed, Counted, Restarting, config, mainVars,
        windows, notices, background, Goto, WorkerStep
<1>1. CASE Begin(w)
  BY <1>1 DEF Begin
<1>2. CASE ReadRunning(w)
  BY <1>2 DEF ReadRunning
<1>3. CASE Acquire(w)
  BY <1>3 DEF Acquire
<1>4. CASE Recheck(w)
  BY <1>4 DEF Recheck, AwokenTo
<1>5. CASE Attempt(w)
  <2>1. wsession[w] \in Sessions
    BY <1>5 DEF Attempt
  <2>2. CASE /\ owner' = [owner EXCEPT ![wsession[w]] = "ours"]
             /\ tracing' = tracing \union {wsession[w]}
             /\ gaveUp' = gaveUp \ {wsession[w]}
             /\ Goto(w, "release")
             /\ UNCHANGED attempts
    BY <1>5, <2>1, <2>2 DEF Attempt
  <2>3. CASE /\ attempts' = [attempts EXCEPT ![w] = @ + 1]
             /\ Goto(w, "pause")
             /\ UNCHANGED <<windows, gaveUp>>
    BY <1>5, <2>1, <2>3 DEF Attempt
  <2> QED
    BY <1>5, <2>2, <2>3 DEF Attempt
<1>6. CASE Pause(w)
  BY <1>6 DEF Pause, StillTrying
<1>7. CASE Release(w)
  BY <1>7 DEF Release
<1> QED
  BY <1>1, <1>2, <1>3, <1>4, <1>5, <1>6, <1>7 DEF Restart

\* Every step of the watcher's callback and of other tools keeps the types.
LEMMA OthersType ==
    /\ Typed
    /\ \/ \E s \in Sessions : SessionStopEvent(s) \/ StoppedByOther(s)
       \/ OtherUsesKernel
    => Typed'
<1> USE DEF config, mainVars, windows, notices, background, restarts, history
<1>1. ASSUME Typed, NEW s \in Sessions, SessionStopEvent(s) PROVE Typed'
  BY <1>1, HandleType DEF TypeOK, Typed, Counted, Restarting, SessionStopEvent
<1>2. ASSUME Typed, NEW s \in Sessions, StoppedByOther(s) PROVE Typed'
  BY <1>2, SessionAssumption
  DEF SessionAssumption, TypeOK, Typed, Counted, Restarting, StoppedByOther
<1>3. ASSUME Typed, OtherUsesKernel PROVE Typed'
  <2>1. owner' \in [Sessions -> {"none", "ours", "other"}]
    BY <1>3 DEF TypeOK, Typed, Counted, Restarting, OtherUsesKernel, Sessions
  <2> QED
    BY <1>3, <2>1 DEF TypeOK, Typed, Counted, Restarting, OtherUsesKernel
<1> QED
  BY <1>1, <1>2, <1>3

\* The types and the count of attempts are inductive together.
LEMMA NextType == Typed /\ [Next]_vars => Typed'
<1>1. Typed /\ UNCHANGED vars => Typed'
  BY DEF TypeOK, Typed, Counted, Restarting, vars, config, mainVars, windows,
         notices, background, restarts, history
<1> QED
  BY <1>1, MainType, BackgroundType, RestartType, OthersType DEF Next

-----------------------------------------------------------------------------
\* The flags follow the main goroutine: only its steps change them.
LEMMA NextFlags == Typed /\ Flags /\ [Next]_vars => Flags'
<1> SUFFICES ASSUME Typed, Flags, [Next]_vars PROVE Flags'
  OBVIOUS
<1> USE DEF Flags, Starting
<1>1. ASSUME UNCHANGED mainVars PROVE Flags'
  BY <1>1 DEF mainVars
<1>2. ASSUME Main PROVE Flags'
  <2> USE DEF config, background, restarts, history, notices, windows
  <2>1. CASE StartSession(Kernel, "startKernel", "startExporter")
    BY <2>1 DEF StartSession
  <2>2. CASE StartSession(Exporter, "startExporter", "startConsumer")
    BY <2>2 DEF StartSession
  <2>3. CASE StartConsumer
    BY <2>3 DEF StartConsumer
  <2>4. CASE Stop \/ StopUnlock
    BY <2>4 DEF Stop, StopUnlock
  <2>5. CASE StopConsumer
    BY <2>5 DEF StopConsumer
  <2>6. CASE StopSession(Exporter, "stopExporter", "stopKernel")
    BY <2>6 DEF StopSession
  <2>7. CASE StopSession(Kernel, "stopKernel", "cancel")
    BY <2>7 DEF StopSession
  <2>8. CASE Cancel \/ WaitDone
    BY <2>8 DEF Cancel, WaitDone
  <2> QED
    BY <1>2, <2>1, <2>2, <2>3, <2>4, <2>5, <2>6, <2>7, <2>8 DEF Main
<1>3. ASSUME Monitor \/ RundownTick \/ RundownEnds PROVE UNCHANGED mainVars
  BY <1>3 DEF Monitor, TraceStopped, LookUp, MonitorEnds, RundownTick, RundownEnds
<1>4. ASSUME NEW w \in Workers, Restart(w) PROVE UNCHANGED mainVars
  BY <1>4 DEF Restart, Begin, ReadRunning, Acquire, Recheck, Attempt, Pause,
              Release, Goto
<1>5. ASSUME NEW s \in Sessions, SessionStopEvent(s) \/ StoppedByOther(s)
      PROVE  UNCHANGED mainVars
  BY <1>5 DEF SessionStopEvent, StoppedByOther
<1>6. ASSUME OtherUsesKernel PROVE UNCHANGED mainVars
  BY <1>6 DEF OtherUsesKernel
<1>7. ASSUME UNCHANGED vars PROVE UNCHANGED mainVars
  BY <1>7 DEF vars
<1> QED
  BY <1>1, <1>2, <1>3, <1>4, <1>5, <1>6, <1>7 DEF Next

Exclusive == Entered /\ OneRestarter

\* A goroutine that handles a stop only begins another.
LEMMA HandleExclusive ==
    ASSUME Typed, Exclusive, NEW s \in Sessions, HandleSessionStop(s),
           restartingSessions' = restartingSessions
    PROVE  Exclusive'
  BY DEF Typed, TypeOK, Exclusive, Entered, OneRestarter, Restarting,
         HandleSessionStop, Spawn

\* LoadOrStore lets one goroutine in, and only that one deletes the entry.
LEMMA NextExclusive == Typed /\ Exclusive /\ [Next]_vars => Exclusive'
<1> SUFFICES ASSUME Typed, Exclusive, [Next]_vars PROVE Exclusive'
  OBVIOUS
<1>1. ASSUME UNCHANGED <<restartingSessions, wpc, wsession>> PROVE Exclusive'
  BY <1>1 DEF Exclusive, Entered, OneRestarter, Restarting
<1>2. ASSUME Main PROVE UNCHANGED <<restartingSessions, wpc, wsession>>
  BY <1>2 DEF Main, StartSession, StartConsumer, Stop, StopUnlock, StopConsumer,
              StopSession, Cancel, WaitDone, restarts
<1>3. ASSUME NEW s \in Sessions, LookUp(s) \/ SessionStopEvent(s)
      PROVE  Exclusive'
  BY <1>3, HandleExclusive DEF LookUp, SessionStopEvent
<1>4. ASSUME \/ \E s \in Sessions : TraceStopped(s) \/ StoppedByOther(s)
             \/ MonitorEnds \/ RundownTick \/ RundownEnds \/ OtherUsesKernel
      PROVE  UNCHANGED <<restartingSessions, wpc, wsession>>
  BY <1>4 DEF TraceStopped, StoppedByOther, MonitorEnds, RundownTick,
              RundownEnds, OtherUsesKernel, restarts
<1>5. ASSUME NEW w \in Workers, Restart(w) PROVE Exclusive'
  <2> USE DEF Typed, TypeOK, Exclusive, Entered, OneRestarter, Restarting,
              WorkerStep, Goto
  <2>1. CASE Begin(w)
    BY <2>1 DEF Begin
  <2>2. CASE ReadRunning(w)
    BY <2>2 DEF ReadRunning
  <2>3. CASE Acquire(w)
    BY <2>3 DEF Acquire, Taken
  <2>4. CASE Recheck(w)
    BY <2>4 DEF Recheck, AwokenTo
  <2>5. CASE Attempt(w)
    BY <2>5 DEF Attempt
  <2>6. CASE Pause(w)
    BY <2>6 DEF Pause
  <2>7. CASE Release(w)
    BY <2>7 DEF Release
  <2> QED
    BY <1>5, <2>1, <2>2, <2>3, <2>4, <2>5, <2>6, <2>7 DEF Restart
<1>6. ASSUME UNCHANGED vars PROVE UNCHANGED <<restartingSessions, wpc, wsession>>
  BY <1>6 DEF vars, restarts
<1> QED
  BY <1>1, <1>2, <1>3, <1>4, <1>5, <1>6 DEF Next, Monitor

-----------------------------------------------------------------------------
\* What accounts for a session that is to be restarted and is not traced.
Told(s) ==
    \/ stoppedTraces[s] > 0 \/ monitor = s
    \/ \E w \in Workers : wsession[w] = s /\ wpc[w] # "release"

\* A step in which the main goroutine is not in its run state afterwards, or
\* in which nothing that accounts for a session changes, keeps Reported.
LEMMA ReportedKept ==
    ASSUME Reported,
           \/ mainpc' # "run"
           \/ UNCHANGED <<config, mainpc, tracing, gaveUp, stoppedTraces,
                          monitor, wpc, wsession>>
    PROVE  Reported'
  BY DEF Reported, AlwaysRestarted, config

\* The main goroutine starts the consumer on all sessions, and otherwise
\* leaves its run state.
LEMMA MainReported == Typed /\ Reported /\ Main => Reported'
<1> SUFFICES ASSUME Typed, Reported, Main PROVE Reported'
  OBVIOUS
<1>1. CASE StartConsumer
  <2>1. tracing' = Sessions \/ mainpc' = "failed"
    BY <1>1 DEF StartConsumer
  <2> QED
    BY <2>1 DEF Reported, AlwaysRestarted
<1>2. CASE ~StartConsumer
  <2>1. mainpc' # "run"
    BY <1>2 DEF Main, StartSession, Stop, StopUnlock, StopConsumer, StopSession,
                Cancel, WaitDone
  <2> QED
    BY <2>1, ReportedKept
<1> QED
  BY <1>1, <1>2

\* A stop that is handled leaves a goroutine that has just begun.
LEMMA HandleReported ==
    ASSUME Typed, Reported, NEW s \in Sessions, HandleSessionStop(s),
           UNCHANGED <<config, mainVars, tracing, gaveUp, stoppedTraces>>,
           monitor' = monitor \/ monitor = s
    PROVE  Reported'
<1> SUFFICES ASSUME mainpc = "run",
                    NEW t \in AlwaysRestarted \ (tracing \union gaveUp)
             PROVE  Told(t)'
  BY DEF Reported, Told, AlwaysRestarted, config, mainVars
<1>1. Told(t)
  BY DEF Reported, Told
<1>2. t \in AlwaysRestarted
  OBVIOUS
<1>3. CASE t = s
  <2>1. RestartAllowed(s)
    BY <1>2, <1>3 DEF AlwaysRestarted, RestartAllowed, Sessions
  <2>2. PICK w \in Workers : /\ wpc[w] = "free"
                             /\ wpc' = [wpc EXCEPT ![w] = "begin"]
                             /\ wsession' = [wsession EXCEPT ![w] = s]
    BY <2>1 DEF HandleSessionStop, Spawn
  <2>3. wsession'[w] = s /\ wpc'[w] = "begin"
    BY <2>2 DEF Typed, TypeOK
  <2> QED
    BY <1>3, <2>3 DEF Told
<1>4. CASE t # s
  <2>1. ASSUME NEW w \in Workers, wsession[w] = t, wpc[w] # "release"
        PROVE  wsession'[w] = t /\ wpc'[w] # "release"
    <3>1. wpc[w] # "free"
      BY <2>1, SessionAssumption
      DEF Typed, TypeOK, AlwaysRestarted, SessionAssumption
    <3> QED
      BY <2>1, <3>1 DEF HandleSessionStop, Spawn, Typed, TypeOK
  <2> QED
    BY <1>1, <1>4, <2>1 DEF Told
<1> QED
  BY <1>3, <1>4

\* The monitor, the watcher and the rundown lose no stop.
LEMMA BackgroundReported ==
    ASSUME Typed, Flags, Reported,
           \/ Monitor \/ RundownTick \/ RundownEnds
           \/ \E s \in Sessions : SessionStopEvent(s)
    PROVE  Reported'
<1>1. ASSUME NEW s \in Sessions, TraceStopped(s) PROVE Reported'
  <2> SUFFICES ASSUME mainpc = "run",
                      NEW t \in AlwaysRestarted \ (tracing \union gaveUp)
               PROVE  Told(t)'
    BY <1>1 DEF TraceStopped, Reported, Told, AlwaysRestarted, config, mainVars,
                windows, history
  <2>1. ~isStopping
    BY DEF Flags
  <2>2. monitor' = s /\ monitor = "idle"
    BY <1>1, <2>1 DEF TraceStopped
  <2>3. Told(t) /\ t \in Sessions
    BY DEF Reported, Told, AlwaysRestarted
  <2>4. UNCHANGED <<wpc, wsession>>
    BY <1>1 DEF TraceStopped, restarts
  <2>5. CASE t = s
    BY <2>2, <2>5 DEF Told
  <2>6. CASE t # s
    <3>1. stoppedTraces'[t] = stoppedTraces[t]
      BY <1>1, <2>3, <2>6 DEF TraceStopped, Typed, TypeOK
    <3>2. monitor # t
      BY <2>2, <2>3, SessionAssumption DEF SessionAssumption
    <3> QED
      BY <2>3, <2>4, <3>1, <3>2 DEF Told
  <2> QED
    BY <2>5, <2>6
<1>2. ASSUME NEW s \in Sessions, LookUp(s) PROVE Reported'
  BY <1>2, HandleReported DEF LookUp, windows, notices, history
<1>3. ASSUME NEW s \in Sessions, SessionStopEvent(s) PROVE Reported'
  BY <1>3, HandleReported DEF SessionStopEvent, windows, background, history
<1>4. ASSUME MonitorEnds PROVE Reported'
  <2>1. mainpc' # "run"
    BY <1>4 DEF MonitorEnds, Flags, mainVars
  <2> QED
    BY <2>1, ReportedKept
<1>5. ASSUME RundownTick \/ RundownEnds PROVE Reported'
  BY <1>5, ReportedKept
  DEF RundownTick, RundownEnds, mainVars, windows, notices, restarts, history
<1> QED
  BY <1>1, <1>2, <1>3, <1>4, <1>5 DEF Monitor

\* A restart goroutine ends only once the session is traced or given up, or
\* after it has released it.
LEMMA RestartReported ==
    ASSUME Typed, Flags, Reported, NEW w \in Workers, Restart(w)
    PROVE  Reported'
<1> SUFFICES ASSUME mainpc' = "run",
                    NEW t \in AlwaysRestarted \ (tracing' \union gaveUp')
             PROVE  Told(t)'
  <2>1. UNCHANGED config
    BY DEF Restart, Begin, ReadRunning, Acquire, Recheck, Attempt, Pause,
           Release, Goto
  <2> QED
    BY <2>1 DEF Reported, Told, AlwaysRestarted, config
<1>1. /\ mainpc = "run" /\ running /\ ~isStopping /\ ~cancelled
      /\ UNCHANGED <<stoppedTraces, monitor>>
  BY DEF Restart, Begin, ReadRunning, Acquire, Recheck, Attempt, Pause, Release,
         Goto, mainVars, notices, background, Flags
<1>2. wpc \in [Workers -> {"free", "begin", "readRunning", "acquire", "sleep",
                          "attempt", "pause", "release"}]
      /\ wsession \in [Workers -> Sessions \union {None}]
  BY DEF Typed, TypeOK
<1>3. ASSUME t \notin tracing \union gaveUp,
             wpc'[w] = "free" => wpc[w] = "release",
             wpc'[w] = "release" => wpc[w] = "release" \/ wsession[w] # t,
             \A v \in Workers \ {w} : wpc'[v] = wpc[v] /\ wsession'[v] = wsession[v],
             wpc'[w] # "free" => wsession'[w] = wsession[w]
      PROVE  Told(t)'
  BY <1>1, <1>3 DEF Reported, Told
<1>4. CASE Begin(w)
  BY <1>1, <1>2, <1>3, <1>4 DEF Begin, Goto, WorkerStep, windows
<1>5. CASE ReadRunning(w)
  BY <1>1, <1>2, <1>3, <1>5
  DEF ReadRunning, SeenRunning, Goto, WorkerStep, windows
<1>6. CASE Acquire(w)
  BY <1>1, <1>2, <1>3, <1>6 DEF Acquire, Goto, WorkerStep, windows
<1>7. CASE Recheck(w)
  <2>1. t \notin tracing \union gaveUp /\ wpc[w] = "sleep"
    BY <1>7 DEF Recheck, WorkerStep, windows
  <2>2. CASE wsession[w] \in tracing
    BY <1>1, <1>2, <1>7, <2>1, <2>2
    DEF Recheck, AwokenTo, Goto, Reported, Told
  <2>3. CASE wsession[w] \notin tracing
    BY <1>2, <1>3, <1>7, <2>1, <2>3 DEF Recheck, AwokenTo, Goto
  <2> QED
    BY <2>2, <2>3
<1>8. CASE Attempt(w)
  <2>1. CASE /\ tracing' = tracing \union {wsession[w]}
             /\ gaveUp' = gaveUp \ {wsession[w]}
             /\ Goto(w, "release")
    BY <1>2, <1>3, <1>8, <2>1 DEF Attempt, Goto, WorkerStep
  <2>2. CASE Goto(w, "pause") /\ UNCHANGED <<windows, gaveUp>>
    BY <1>2, <1>3, <1>8, <2>2 DEF Attempt, Goto, WorkerStep, windows
  <2> QED
    BY <1>8, <2>1, <2>2 DEF Attempt
<1>9. CASE Pause(w)
  <2>1. CASE Goto(w, "attempt") /\ UNCHANGED gaveUp
    BY <1>2, <1>3, <1>9, <2>1 DEF Pause, Goto, WorkerStep, windows
  <2>2. CASE gaveUp' = gaveUp \union {wsession[w]} /\ Goto(w, "release")
    BY <1>2, <1>3, <1>9, <2>2 DEF Pause, Goto, WorkerStep, windows
  <2> QED
    BY <1>9, <2>1, <2>2 DEF Pause
<1>10. CASE Release(w)
  BY <1>2, <1>3, <1>10 DEF Release, Goto, WorkerStep, windows
<1> QED
  BY <1>4, <1>5, <1>6, <1>7, <1>8, <1>9, <1>10 DEF Restart

\* A session that another tool stops is reported by its trace.
LEMMA OthersReported ==
    ASSUME Typed, Reported,
           (\E s \in Sessions : StoppedByOther(s)) \/ OtherUsesKernel
    PROVE  Reported'
<1>1. ASSUME NEW s \in Sessions, StoppedByOther(s) PROVE Reported'
  <2>1. /\ UNCHANGED <<policy, restartExporter, mainpc, gaveUp, monitor, wpc,
                       wsession>>
        /\ tracing' = tracing \ {s}
        /\ stoppedTraces' = [stoppedTraces EXCEPT ![s] = @ + 1]
    BY <1>1 DEF StoppedByOther, config, mainVars, background, restarts
  <2>2. stoppedTraces'[s] > 0
    BY <2>1 DEF Typed, TypeOK
  <2>3. ASSUME NEW t \in Sessions, t # s
        PROVE  stoppedTraces'[t] = stoppedTraces[t]
    BY <2>1, <2>3 DEF Typed, TypeOK
  <2> QED
    BY <2>1, <2>2, <2>3 DEF Reported, AlwaysRestarted
<1>2. ASSUME OtherUsesKernel PROVE Reported'
  BY <1>2, ReportedKept
  DEF OtherUsesKernel, mainVars, notices, background, restarts, history
<1> QED
  BY <1>1, <1>2

-----------------------------------------------------------------------------
\* The whole invariant holds at the start.
LEMMA InitIInv == Init => IInv
  BY InitType DEF Init, IInv, Flags, Starting, Entered, OneRestarter,
                  Restarting, Reported

\* Every step keeps it.
LEMMA StepIInv == IInv /\ [Next]_vars => IInv'
<1> SUFFICES ASSUME IInv, [Next]_vars PROVE IInv'
  OBVIOUS
<1>1. Typed /\ Flags /\ Exclusive /\ Reported
  BY DEF IInv, Exclusive
<1>2. Typed' /\ Flags' /\ Exclusive'
  BY <1>1, NextType, NextFlags, NextExclusive
<1>3. ASSUME UNCHANGED vars PROVE Reported'
  BY <1>1, <1>3, ReportedKept
  DEF vars, mainVars, windows, notices, background, restarts, history
<1>4. Reported'
  BY <1>1, <1>3, MainReported, BackgroundReported, RestartReported,
     OthersReported
  DEF Next
<1> QED
  BY <1>2, <1>4 DEF IInv, Exclusive

\* The invariant holds in every behaviour.
LEMMA Invariance == Spec => []IInv
  BY InitIInv, StepIInv, PTL DEF Spec

\* Every flag, notice and local has its type; in particular a restart makes no
\* more attempts than it is allowed (restartSession).
THEOREM TypeCorrect == Spec => []TypeOK
<1>1. IInv => TypeOK
  BY DEF IInv, Typed
<1> QED
  BY <1>1, Invariance, PTL

\* No two goroutines call RestartSessions for the same session, however many
\* reports of its stops there are (restartSession).
THEOREM RestartsExclusive == Spec => []OneRestarter
<1>1. IInv => OneRestarter
  BY DEF IInv
<1> QED
  BY <1>1, Invariance, PTL

\* While the exporter runs, no stop of a session that is to be restarted is
\* swallowed (startTraceMonitor, restartSession).
THEOREM StopsAccountedFor == Spec => []NoStopForgotten
<1>1. IInv => NoStopForgotten
  BY DEF IInv, Reported, NoStopForgotten
<1> QED
  BY <1>1, Invariance, PTL

\* Once Stop has begun, no restart passes the check of running
\* (restartSession, Stop).
THEOREM RestartsGated == Spec => StopGate
<1>1. IInv /\ [Next]_vars
        => [\A w \in Workers : isStopping /\ Gated(w) => Gated(w)']_vars
  <2> SUFFICES ASSUME IInv, Next, NEW w \in Workers, isStopping, Gated(w)
               PROVE  Gated(w)'
    OBVIOUS
  <2>1. Typed /\ Flags
    BY DEF IInv
  <2>2. CASE UNCHANGED wpc
    BY <2>2 DEF Gated
  <2>3. ASSUME NEW s \in Sessions, HandleSessionStop(s) PROVE Gated(w)'
    BY <2>1, <2>3 DEF HandleSessionStop, Spawn, Gated, Typed, TypeOK
  <2>4. ASSUME NEW v \in Workers, Restart(v) PROVE Gated(w)'
    <3>1. ~running \/ MuHeld
      BY <2>1 DEF Flags, MuHeld
    <3>2. CASE v = w
      BY <2>1, <2>4, <3>1, <3>2
      DEF Restart, Begin, ReadRunning, SeenRunning, Acquire, Recheck, Attempt,
          Pause, Release, WorkerStep, Goto, Gated, Typed, TypeOK
    <3>3. CASE v # w
      <4>1. wpc'[w] = wpc[w]
        BY <2>1, <2>4, <3>3
        DEF Restart, Begin, ReadRunning, Acquire, Recheck, Attempt, Pause,
            Release, Goto, Typed, TypeOK
      <4> QED
        BY <4>1 DEF Gated
    <3> QED
      BY <3>2, <3>3
  <2>5. Main \/ RundownTick \/ RundownEnds \/ MonitorEnds \/ OtherUsesKernel
          => UNCHANGED wpc
    BY DEF Main, StartSession, StartConsumer, Stop, StopUnlock, StopConsumer,
           StopSession, Cancel, WaitDone, RundownTick, RundownEnds, MonitorEnds,
           OtherUsesKernel, restarts
  <2>6. ASSUME NEW s \in Sessions, TraceStopped(s) \/ StoppedByOther(s)
        PROVE  UNCHANGED wpc
    BY <2>6 DEF TraceStopped, StoppedByOther, restarts
  <2>7. ASSUME NEW s \in Sessions, LookUp(s) \/ SessionStopEvent(s)
        PROVE  HandleSessionStop(s)
    BY <2>7 DEF LookUp, SessionStopEvent
  <2> QED
    BY <2>2, <2>3, <2>4, <2>5, <2>6, <2>7 DEF Next, Monitor
<1> QED
  BY <1>1, Invariance, PTL DEF Spec, StopGate

-----------------------------------------------------------------------------
(* The events, first their tables.  That the routes of two handlers and    *)
(* the events of two flags have nothing in common is a fact about the      *)
(* strings of the tables: lemmas state it once, and what is proved of the  *)
(* steps cites them and expands no table.                                  *)

\* The providers of the events that a handler has routes for.
ProvidersOf == [h \in Handlers |->
    CASE h = "process" -> {"Process"} [] h = "image" -> {"Image"}
      [] h = "sysconfig" -> {"SystemConfig"} [] h = "thread" -> {"Thread"}
      [] h = "disk" -> {"Disk"} [] h = "perfinfo" -> {"PerfInfo"}
      [] h = "network" -> {"TcpIp", "UdpIp"} [] h = "memory" -> {"PageFault"}
      [] h = "watcher" -> {"EventTracing"} [] h = "registry" -> {"Registry"}]

\* The handlers, and what each has routes for.
LEMMA RouteTable ==
    /\ RoutesOf["process"] = {ProcessStart, <<"Process", 2>>}
    /\ RoutesOf["image"] = {<<"Image", 10>>, <<"Image", 2>>}
    /\ RoutesOf["sysconfig"] = {PhysicalDisk, LogicalDisk, <<"SystemConfig", 15>>}
    /\ RoutesOf["thread"] = {ThreadStart, <<"Thread", 2>>, <<"Thread", 50>>, CSwitch}
    /\ RoutesOf["disk"] = {<<"Disk", 10>>, <<"Disk", 11>>, <<"Disk", 14>>}
    /\ RoutesOf["perfinfo"] = {<<"PerfInfo", 67>>, <<"PerfInfo", 68>>}
    /\ RoutesOf["network"] = {<<"TcpIp", 10>>, <<"TcpIp", 11>>, <<"UdpIp", 42>>}
    /\ RoutesOf["memory"] = {<<"PageFault", 32>>}
    /\ RoutesOf["watcher"] = {SessionStop}
  BY DEF RoutesOf, Routed, Prepared

\* A handler has routes for its own providers only.
LEMMA OwnProviders ==
    \A h \in Routed : \A e \in RoutesOf[h] : e[1] \in ProvidersOf[h]
<1> SUFFICES ASSUME NEW h \in Routed, NEW e \in RoutesOf[h]
             PROVE  e[1] \in ProvidersOf[h]
    OBVIOUS
<1> USE DEF ProvidersOf, Handlers, Routed, Prepared
<1>1. CASE h \in {"process", "image", "sysconfig"}
    BY <1>1, RouteTable DEF ProcessStart, PhysicalDisk, LogicalDisk
<1>2. CASE h \in {"thread", "disk", "perfinfo"}
    BY <1>2, RouteTable DEF ThreadStart, CSwitch
<1>3. CASE h \in {"network", "memory", "watcher"}
    BY <1>3, RouteTable DEF SessionStop
<1>4. QED
    BY <1>1, <1>2, <1>3

LEMMA ProvidersApart ==
    \A h, k \in Handlers : h # k => ProvidersOf[h] \intersect ProvidersOf[k] = {}
  BY DEF ProvidersOf, Handlers, Routed, Prepared

\* No two handlers have a route for the same event.
LEMMA RoutesApart ==
    \A h, k \in Routed : \A e \in RoutesOf[h] : e \in RoutesOf[k] => h = k
  BY OwnProviders, ProvidersApart DEF Handlers

\* Every event but that of the registry has a handler with a route for it.
LEMMA EventHasRoute ==
    /\ \A h \in Routed : RoutesOf[h] \subseteq Events
    /\ RegistryOp \in Events /\ \A h \in Routed : RegistryOp \notin RoutesOf[h]
    /\ \A e \in Events : e = RegistryOp \/ \E h \in Routed : e \in RoutesOf[h]
    /\ \A e \in Events : e[1] \in Providers
<1>1. /\ \A h \in Routed : RoutesOf[h] \subseteq Events
      /\ RegistryOp \in Events
      /\ \A e \in Events : e = RegistryOp \/ \E h \in Routed : e \in RoutesOf[h]
    <2>1. RegistryOp \in Events
        BY DEF Events
    <2>2. ASSUME NEW h \in Routed PROVE RoutesOf[h] \subseteq Events
        BY DEF Events
    <2>3. ASSUME NEW e \in Events, e # RegistryOp
          PROVE  \E h \in Routed : e \in RoutesOf[h]
        BY <2>3 DEF Events
    <2>4. QED
        BY <2>1, <2>2, <2>3
<1>2. RegistryOp[1] \in ProvidersOf["registry"]
    BY DEF RegistryOp, ProvidersOf, Handlers
<1>3. \A h \in Routed : RegistryOp \notin RoutesOf[h]
    BY <1>2, OwnProviders, ProvidersApart DEF Handlers, Routed, Prepared
<1>4. QED
    BY <1>1, <1>3 DEF Providers

\* The collectors and their groups.
LEMMA GroupTable ==
    /\ Collecting = {"thread", "disk", "perfinfo", "network", "memory", "registry"}
    /\ GroupOf["thread"] = "threadcs" /\ GroupOf["disk"] = "disk_io"
    /\ GroupOf["perfinfo"] = "perfinfo" /\ GroupOf["network"] = "network"
    /\ GroupOf["memory"] = "memory" /\ GroupOf["registry"] = "registry"
  BY DEF Collecting, Handlers, Routed, Prepared, GroupOf

\* Where the metrics of a group take an event is where the first stage sends
\* it when there are all the routes.
Sent(e) ==
    IF e = CSwitch THEN {"thread", "perfinfo"}
    ELSE IF e = RegistryOp THEN {"registry"}
    ELSE {h \in Routed \ Prepared : e \in RoutesOf[h]}

LEMMA AboutTable ==
    ASSUME NEW e \in Events, NEW h \in Collecting
    PROVE  e \in About[GroupOf[h]] <=> h \in Sent(e)
<1> DEFINE P == ProvidersOf[h]
<1>1. /\ CSwitch \in RoutesOf["thread"] /\ CSwitch[1] = "Thread"
      /\ RegistryOp[1] = "Registry"
    BY RouteTable DEF CSwitch, RegistryOp
<1>2. e \in About[GroupOf[h]] <=>
        \/ e[1] \in ProvidersOf[h]
        \/ e = CSwitch /\ h = "perfinfo"
    BY GroupTable, <1>1 DEF About, ProvidersOf, Handlers, Routed, Prepared, AllGroups
<1>3. CASE e = RegistryOp
    BY <1>1, <1>2, <1>3, GroupTable DEF Sent, ProvidersOf, Handlers, Routed, Prepared
<1>4. CASE e = CSwitch
    BY <1>1, <1>2, <1>4, GroupTable, RegistryOp # CSwitch
    DEF Sent, ProvidersOf, Handlers, Routed, Prepared
<1>5. CASE e # RegistryOp /\ e # CSwitch
    <2>1. PICK k \in Routed : e \in RoutesOf[k]
        BY <1>5, EventHasRoute
    <2>2. e[1] \in ProvidersOf[h] <=> h = k
        BY <2>1, OwnProviders, ProvidersApart DEF Collecting, Handlers
    <2>3. h \in Sent(e) <=> h = k
        BY <1>5, <2>1, RoutesApart DEF Sent, Collecting, Handlers, Routed, Prepared
    <2>4. QED
        BY <1>2, <1>5, <2>2, <2>3
<1>6. QED
    BY <1>3, <1>4, <1>5

-----------------------------------------------------------------------------
(* What the sessions receive.                                              *)

\* What a session with a flag receives is of the handlers with routes for it.
LEMMA FlagTable ==
    /\ EventsOf("PROCESS") = RoutesOf["process"]
    /\ EventsOf("IMAGE_LOAD") = RoutesOf["image"]
    /\ EventsOf("THREAD") = {ThreadStart, <<"Thread", 2>>}
    /\ EventsOf("DISPATCHER") = {<<"Thread", 50>>}
    /\ EventsOf("CSWITCH") = {CSwitch}
    /\ EventsOf("DISK_IO") = RoutesOf["disk"]
    /\ EventsOf("INTERRUPT") = {<<"PerfInfo", 67>>}
    /\ EventsOf("DPC") = {<<"PerfInfo", 68>>}
    /\ EventsOf("NETWORK_TCPIP") = RoutesOf["network"]
    /\ EventsOf("MEMORY_HARD_FAULTS") = RoutesOf["memory"]
    /\ EventsOf("REGISTRY") = {RegistryOp}
  BY DEF EventsOf

LEMMA FlagsTable ==
    /\ FlagsOf("disk_io") = {"DISK_IO", "THREAD", "PROCESS", "IMAGE_LOAD"}
    /\ FlagsOf("threadcs") =
            {"CSWITCH", "THREAD", "DISPATCHER", "PROCESS", "IMAGE_LOAD"}
    /\ FlagsOf("perfinfo") = {"INTERRUPT", "DPC", "IMAGE_LOAD", "CSWITCH"}
    /\ FlagsOf("network") = {"NETWORK_TCPIP", "PROCESS", "IMAGE_LOAD"}
    /\ FlagsOf("memory") =
            {"MEMORY_HARD_FAULTS", "THREAD", "PROCESS", "IMAGE_LOAD"}
    /\ FlagsOf("registry") = {"REGISTRY", "PROCESS", "IMAGE_LOAD"}
  BY DEF FlagsOf, Correlation

\* A flag brings the events of a handler that trusts its collector only for
\* the group of that handler.
LEMMA TrustedFlags ==
    ASSUME NEW g \in AllGroups, NEW f \in FlagsOf(g), NEW h \in Trusting,
           NEW e \in EventsOf(f), e \in RoutesOf[h]
    PROVE  g = GroupOf[h]
<1>1. h = "network" \/ h = "memory"
    BY DEF Trusting
<1>2. h \in Routed /\ h \in Handlers /\ e[1] \in ProvidersOf[h]
    BY <1>1, OwnProviders DEF Routed, Handlers
<1>3. e[1] \in {"TcpIp", "UdpIp", "PageFault"}
    BY <1>1, <1>2 DEF ProvidersOf
<1>4. f \notin {"PROCESS", "IMAGE_LOAD", "DISK_IO", "THREAD", "DISPATCHER",
                "CSWITCH", "INTERRUPT", "DPC", "REGISTRY"}
    <2>1. f \notin {"PROCESS", "IMAGE_LOAD", "DISK_IO"}
        BY <1>3, FlagTable, OwnProviders
        DEF ProvidersOf, Handlers, Routed, Prepared
    <2>2. f \notin {"THREAD", "DISPATCHER", "CSWITCH"}
        BY <1>3, FlagTable DEF ThreadStart, CSwitch
    <2>3. f \notin {"INTERRUPT", "DPC", "REGISTRY"}
        BY <1>3, FlagTable DEF RegistryOp
    <2>4. QED
        BY <2>1, <2>2, <2>3
<1>5. g \in {"disk_io", "threadcs", "perfinfo", "network", "memory", "registry"}
    BY DEF AllGroups
<1>6. \/ f = "NETWORK_TCPIP" /\ g = "network"
      \/ f = "MEMORY_HARD_FAULTS" /\ g = "memory"
    <2>1. f \in FlagsOf(g)
        OBVIOUS
    <2>2. g \notin {"disk_io", "threadcs", "perfinfo", "registry"}
        BY <1>4, <2>1, FlagsTable
    <2>3. g = "network" \/ g = "memory"
        BY <1>5, <2>2
    <2>4. CASE g = "network"
        BY <1>4, <2>1, <2>4, FlagsTable
    <2>5. CASE g = "memory"
        BY <1>4, <2>1, <2>5, FlagsTable
    <2>6. QED
        BY <2>3, <2>4, <2>5
<1>7. \/ e \in RoutesOf["network"] /\ g = "network"
      \/ e \in RoutesOf["memory"] /\ g = "memory"
    BY <1>6, FlagTable
<1>8. g \in Routed /\ e \in RoutesOf[g]
    BY <1>7 DEF Routed
<1>9. QED
    BY <1>1, <1>2, <1>7, <1>8, RoutesApart, GroupTable

\* What a running session brings.
LEMMA ReceivedRunning ==
    ASSUME phase = "running"
    PROVE  /\ ~modern => \A g \in enabledGroups : \A f \in FlagsOf(g) :
                            EventsOf(f) \subseteq Received
           /\ \A e \in Received :
                \/ ~modern /\ \E g \in enabledGroups : \E f \in FlagsOf(g) :
                                    e \in EventsOf(f)
                \/ e \in RoutesOf["sysconfig"] \/ e \in RoutesOf["watcher"]
           /\ modern => Received \subseteq RoutesOf["watcher"]
<1> DEFINE K == UNION {EventsOf(f) : f \in SessionFlags}
<1>1. Received = K \union (IF SessionFlags # {} THEN RoutesOf["sysconfig"] ELSE {})
                   \union (IF sessionWatcher THEN {SessionStop} ELSE {})
    <2>1. Received = Streams
        BY DEF Received
    <2>2. QED
        BY <2>1 DEF Streams
<1>2. \A f \in SessionFlags : EventsOf(f) \subseteq K
    OBVIOUS
<1>3. \A e \in K : \E f \in SessionFlags : e \in EventsOf(f)
    OBVIOUS
<1>4. \A f \in SessionFlags : ~modern /\ \E g \in enabledGroups : f \in FlagsOf(g)
    BY DEF SessionFlags, GetEnabledKernelFlags
<1>5. ~modern => \A g \in enabledGroups : FlagsOf(g) \subseteq SessionFlags
    BY DEF SessionFlags, GetEnabledKernelFlags
<1>6. modern => SessionFlags = {}
    BY DEF SessionFlags
<1>7. SessionStop \in RoutesOf["watcher"]
    BY RouteTable
<1> HIDE DEF K
<1>8. ~modern => \A g \in enabledGroups : \A f \in FlagsOf(g) :
                    EventsOf(f) \subseteq Received
    BY <1>1, <1>2, <1>5
<1>9. modern => Received \subseteq RoutesOf["watcher"]
    BY <1>1, <1>3, <1>6, <1>7
<1>10. QED
    BY <1>1, <1>3, <1>4, <1>7, <1>8, <1>9

\* The other phases: the capture session brings processes and the system
\* configuration, and there is no session in the others.
LEMMA ReceivedElse ==
    /\ phase = "capture" =>
            Received = RoutesOf["process"] \union RoutesOf["sysconfig"]
    /\ phase \notin {"capture", "running"} => Received = {}
  BY FlagTable DEF Received

\* With its flags a group is sent all that its metrics are about.
LEMMA GroupsAreFed ==
    ASSUME enabledGroups \subseteq AllGroups
    PROVE  EventsReceived
<1> SUFFICES ASSUME phase = "running", ~modern, NEW g \in enabledGroups,
                    NEW e \in About[g]
             PROVE  e \in Received
    BY DEF EventsReceived
<1>1. \A f \in FlagsOf(g) : EventsOf(f) \subseteq Received
    BY ReceivedRunning
<1>2. PICK h \in Collecting : g = GroupOf[h]
    BY GroupTable DEF AllGroups
<1>3. e \in Events
    BY EventHasRoute, RouteTable DEF About, AllGroups, Routed
<1>4. h \in Sent(e)
    BY <1>2, <1>3, AboutTable
<1>5. h \in {"thread", "disk", "perfinfo", "network", "memory", "registry"}
    BY GroupTable
<1>6. \/ e \in RoutesOf[h] /\ h # "registry"
      \/ e = CSwitch /\ h = "perfinfo"
      \/ e = RegistryOp /\ h = "registry"
    BY <1>4, <1>5, RouteTable DEF Sent, Routed, Prepared
<1>7. \E f \in FlagsOf(g) : e \in EventsOf(f)
    BY <1>2, <1>5, <1>6, GroupTable, FlagsTable, FlagTable, RouteTable
<1>8. QED
    BY <1>1, <1>7

-----------------------------------------------------------------------------
(* The inductive invariant.                                                *)

\* An event has the route of the one handler that has one for it, once that
\* handler has registered.
Routing ==
    /\ \A h \in registered : \A e \in RoutesOf[h] : routeMap[e] = h
    /\ \A e \in Events : routeMap[e] # NoHandler => e \in RoutesOf[routeMap[e]]

\* All routes and collectors are there before the first session.
Staged == phase # "setup" => AllRegistered /\ collectors = enabledGroups

\* In the running session the state manager knows the process and the thread
\* whose start it has been sent.
Begun ==
    phase = "running" =>
        /\ ProcessStart \in begun => "process" \in known
        /\ ThreadStart \in begun => "thread" \in known

\* The collector of disks asks once, for both metrics.
Requested ==
    LET asked == "disk_io" \in collectors
    IN  /\ isRegistered <=> asked
        /\ requestedMetrics = IF asked THEN Metrics ELSE {}
        /\ described = IF asked THEN Metrics ELSE {}

\* What is stored of the disks is what the events told of.
Stored ==
    /\ physicalDisks = {d \in Disks : <<d>> \in reported}
    /\ \A d \in Disks :
        IF logicalDisks[d] = NoVolume
        THEN \A p \in Partitions : <<d, p>> \notin reported
        ELSE <<d, logicalDisks[d]>> \in reported

Wiring == HandlersTypeOK /\ Routing /\ Staged
HandlersInv ==
    /\ Wiring /\ Begun /\ Requested /\ Stored
    /\ NothingMisrouted /\ ProcessesKnown /\ CountedOnce /\ NoNilCollector

\* Once there are all the routes the first stage hands an event to where the
\* metrics take it from, and the second stage to the others.
LEMMA Stages ==
    ASSUME Wiring, phase # "setup", NEW e \in Events
    PROVE  /\ FirstStage(e) = Sent(e)
           /\ SecondStage(e) \subseteq Prepared
           /\ e \in RoutesOf["process"] => SecondStage(e) = {"process"}
           /\ Sent(e) \subseteq Collecting
<1>1. Range(RegistrationOrder) =
        {"process", "image", "sysconfig", "thread", "disk", "perfinfo",
         "network", "memory"}
    BY DEF Range, RegistrationOrder
<1>2. Routed \ {"watcher"} \subseteq registered
    BY <1>1 DEF Wiring, Staged, AllRegistered, Routed, Prepared
<1>3. NoHandler \notin Prepared /\ NoHandler \notin Routed
    BY NoHandlerAssumption DEF Handlers, Routed
<1>4. routeMap[e] \in Routed \union {NoHandler}
    BY DEF Wiring, HandlersTypeOK
<1>5. \A h \in Routed \ {"watcher"} : e \in RoutesOf[h] <=> routeMap[e] = h
    BY <1>2, <1>3, <1>4 DEF Wiring, Routing
<1>6. FirstStage(e) = Sent(e)
    <2>1. ASSUME e # CSwitch, e # RegistryOp
          PROVE  {routeMap[e]} \ (Prepared \union {NoHandler})
                    = {h \in Routed \ Prepared : e \in RoutesOf[h]}
        BY <1>3, <1>4, <1>5 DEF Prepared
    <2>2. CSwitch # RegistryOp
        BY DEF CSwitch, RegistryOp
    <2>3. CASE e = CSwitch \/ e = RegistryOp
        BY <2>2, <2>3 DEF FirstStage, Sent
    <2>4. CASE e # CSwitch /\ e # RegistryOp
        <3>1. FirstStage(e) = {routeMap[e]} \ (Prepared \union {NoHandler})
            BY <2>4 DEF FirstStage
        <3>2. Sent(e) = {h \in Routed \ Prepared : e \in RoutesOf[h]}
            BY <2>4 DEF Sent
        <3>3. QED
            BY <2>1, <2>4, <3>1, <3>2
    <2>5. QED
        BY <2>3, <2>4
<1>7. e \in RoutesOf["process"] => SecondStage(e) = {"process"}
    <2>1. ASSUME e \in RoutesOf["process"] PROVE routeMap[e] = "process"
        BY <1>5, <2>1 DEF Routed, Prepared
    <2>2. QED
        BY <2>1 DEF SecondStage, Prepared
<1>8. Sent(e) \subseteq Collecting
    BY DEF Sent, Collecting, Handlers, Routed, Prepared
<1>9. QED
    BY <1>6, <1>7, <1>8 DEF SecondStage

\* Who works on an event of the running session.
LEMMA HandedRunning ==
    ASSUME Wiring, phase = "running", NEW e \in Events
    PROVE  /\ \A h \in Collecting : h \in HandlersOf(e) <=> e \in About[GroupOf[h]]
           /\ e = ProcessStart => "process" \in HandlersOf(e)
           /\ e = ThreadStart => "thread" \in HandlersOf(e)
           /\ TimesCounted(e) = 1
<1>1. /\ FirstStage(e) = Sent(e) /\ SecondStage(e) \subseteq Prepared
      /\ e \in RoutesOf["process"] => SecondStage(e) = {"process"}
    BY Stages
<1>2. HandlersOf(e) = Sent(e) \union (IF Sent(e) = {} THEN SecondStage(e) ELSE {})
    BY <1>1 DEF HandlersOf, GoesOn
<1>3. \A h \in Collecting : h \notin Prepared
    BY DEF Collecting
<1>4. \A h \in Collecting : h \in HandlersOf(e) <=> e \in About[GroupOf[h]]
    BY <1>1, <1>2, <1>3, AboutTable
<1>5. TimesCounted(e) = 1
    BY <1>1 DEF TimesCounted, GoesOn
<1>6. ASSUME e = ProcessStart PROVE "process" \in HandlersOf(e)
    <2>1. e \in RoutesOf["process"] /\ e # CSwitch /\ e # RegistryOp
        BY <1>6, RouteTable DEF ProcessStart, CSwitch, RegistryOp
    <2>2. Sent(e) = {}
        BY <2>1, RoutesApart DEF Sent, Routed, Prepared
    <2>3. QED
        BY <1>1, <1>2, <2>1, <2>2
<1>7. ASSUME e = ThreadStart PROVE "thread" \in HandlersOf(e)
    <2>1. e \in RoutesOf["thread"] /\ e # RegistryOp
        BY <1>7, RouteTable DEF ThreadStart, RegistryOp
    <2>2. "thread" \in Sent(e)
        BY <2>1 DEF Sent, Routed, Prepared
    <2>3. QED
        BY <1>2, <2>2
<1>8. QED
    BY <1>4, <1>5, <1>6, <1>7

\* The capture session reaches no collector, and brings nothing that one is
\* about.
LEMMA HandedCaptured ==
    ASSUME Wiring, phase = "capture", NEW e \in Events, e \in Received
    PROVE  /\ \A h \in Collecting : /\ h \notin HandlersOf(e)
                                    /\ e \notin About[GroupOf[h]]
           /\ TimesCounted(e) = 1
<1>1. HandlersOf(e) \subseteq Prepared
    BY Stages DEF HandlersOf
<1>2. e \in RoutesOf["process"] \/ e \in RoutesOf["sysconfig"]
    BY ReceivedElse
<1>3. Sent(e) = {}
    BY <1>2, RoutesApart, RouteTable, EventHasRoute DEF Sent, Routed, Prepared
<1>4. TimesCounted(e) = 1
    BY DEF TimesCounted
<1>5. QED
    BY <1>1, <1>3, <1>4, AboutTable DEF Collecting

\* What an event of the running session that a collector is about says of the
\* configuration: if the collector's group is enabled, the processes and
\* threads it looks up have been sent, and a trusting handler's group is
\* enabled.
LEMMA GroupOfEvent ==
    ASSUME HandlersTypeOK, phase = "running", NEW e \in Events, e \in Received,
           NEW h \in Collecting, e \in About[GroupOf[h]]
    PROVE  /\ h \in Trusting => GroupOf[h] \in enabledGroups
           /\ GroupOf[h] \in enabledGroups =>
                /\ "process" \in LooksUp(h) => ProcessStart \in Received
                /\ "thread" \in LooksUp(h) => ThreadStart \in Received
<1>1. h \in Sent(e)
    BY AboutTable
<1>2. e \notin RoutesOf["sysconfig"] /\ e \notin RoutesOf["watcher"]
    BY <1>1, RoutesApart, EventHasRoute, RouteTable DEF Sent, Routed, Prepared
<1>3. ~modern
    BY <1>2, ReceivedRunning
<1>4. PICK g \in enabledGroups : \E f \in FlagsOf(g) : e \in EventsOf(f)
    BY <1>2, ReceivedRunning
<1>5. g \in AllGroups
    BY HandlerAssumption DEF HandlersTypeOK
<1>6. ASSUME h \in Trusting PROVE GroupOf[h] \in enabledGroups
    <2>1. h # "registry" /\ h # "perfinfo"
        BY <1>6 DEF Trusting
    <2>2. e \in RoutesOf[h] \/ e = CSwitch
        BY <1>1, <1>6, <2>1 DEF Sent, Trusting
    <2>3. e \in RoutesOf[h]
        BY <1>1, <1>6, <2>2 DEF Sent, Trusting
    <2>4. QED
        BY <1>4, <1>5, <1>6, <2>3, TrustedFlags
<1>7. ASSUME GroupOf[h] \in enabledGroups, "process" \in LooksUp(h)
      PROVE  ProcessStart \in Received
    <2>1. "PROCESS" \in FlagsOf(GroupOf[h])
        BY <1>7, GroupTable, FlagsTable DEF LooksUp
    <2>2. ProcessStart \in EventsOf("PROCESS")
        BY FlagTable, RouteTable
    <2>3. QED
        BY <1>3, <1>7, <2>1, <2>2, ReceivedRunning
<1>8. ASSUME GroupOf[h] \in enabledGroups, "thread" \in LooksUp(h)
      PROVE  ThreadStart \in Received
    <2>1. "THREAD" \in FlagsOf(GroupOf[h])
        BY <1>8, GroupTable, FlagsTable DEF LooksUp
    <2>2. ThreadStart \in EventsOf("THREAD")
        BY FlagTable
    <2>3. QED
        BY <1>3, <1>8, <2>1, <2>2, ReceivedRunning
<1>9. QED
    BY <1>6, <1>7, <1>8

-----------------------------------------------------------------------------
(* The steps.                                                              *)

SysConfTypes ==
    /\ reported \subseteq Volumes \union {<<d>> : d \in Disks}
    /\ physicalDisks \subseteq Disks
    /\ logicalDisks \in [Disks -> Partitions \union {NoVolume}]
    /\ requestedMetrics \subseteq Metrics /\ described \subseteq Metrics

\* An event of the system configuration is stored, and no request is touched.
LEMMA ConfigureInv ==
    ASSUME SysConfTypes, Stored, NEW e, Configure(e)
    PROVE  /\ SysConfTypes' /\ Stored'
           /\ UNCHANGED <<requestedMetrics, isRegistered, described>>
<1>1. CASE \E d \in Disks : /\ AddPhysicalDisk(d)
                            /\ reported' = reported \union {<<d>>}
    <2>1. PICK d \in Disks : /\ AddPhysicalDisk(d)
                             /\ reported' = reported \union {<<d>>}
        BY <1>1
    <2>2. /\ physicalDisks' = physicalDisks \union {d}
          /\ UNCHANGED <<logicalDisks, requestedMetrics, isRegistered, described>>
        BY <2>1 DEF AddPhysicalDisk
    <2>3. \A x, p : <<x, p>> # <<d>>
        OBVIOUS
    <2>4. Stored'
        BY <2>1, <2>2, <2>3 DEF Stored
    <2>5. SysConfTypes'
        BY <2>1, <2>2 DEF SysConfTypes
    <2>6. QED
        BY <2>2, <2>4, <2>5
<1>2. CASE \E v \in Volumes : /\ AddLogicalDisk(v)
                              /\ reported' = reported \union {v}
    <2>1. PICK v \in Volumes : /\ AddLogicalDisk(v)
                               /\ reported' = reported \union {v}
        BY <1>2
    <2>2. PICK d \in Disks, q \in Partitions : v = <<d, q>>
        BY DEF Volumes
    <2>3. /\ logicalDisks' = [logicalDisks EXCEPT ![d] = q]
          /\ UNCHANGED <<physicalDisks, requestedMetrics, isRegistered, described>>
        BY <2>1, <2>2 DEF AddLogicalDisk
    <2>4. \A x : <<x>> # <<d, q>>
        OBVIOUS
    <2>5. reported' = reported \union {<<d, q>>} /\ q # NoVolume
        BY <2>1, <2>2, NoVolumeAssumption
    <2>6. physicalDisks' = {x \in Disks : <<x>> \in reported'}
        BY <2>3, <2>4, <2>5 DEF Stored
    <2>7. ASSUME NEW x \in Disks
          PROVE  IF logicalDisks'[x] = NoVolume
                 THEN \A p \in Partitions : <<x, p>> \notin reported'
                 ELSE <<x, logicalDisks'[x]>> \in reported'
        <3>1. CASE x = d
            BY <2>3, <2>5, <3>1 DEF SysConfTypes
        <3>2. CASE x # d
            <4>1. logicalDisks'[x] = logicalDisks[x]
                BY <2>3, <3>2 DEF SysConfTypes
            <4>2. \A p : <<x, p>> \in reported' <=> <<x, p>> \in reported
                BY <2>5, <3>2
            <4>3. QED
                BY <4>1, <4>2 DEF Stored
        <3>3. QED
            BY <3>1, <3>2
    <2>8. SysConfTypes'
        BY <2>1, <2>2, <2>3 DEF SysConfTypes
    <2>9. QED
        BY <2>3, <2>6, <2>7, <2>8 DEF Stored
<1>3. CASE UNCHANGED <<reported, sysconf>>
    BY <1>3 DEF sysconf, SysConfTypes, Stored
<1>4. QED
    <2>1. PhysicalDisk # LogicalDisk
        BY DEF PhysicalDisk, LogicalDisk
    <2>2. QED
        BY <1>1, <1>2, <1>3, <2>1 DEF Configure

\* An event changes no route and keeps the types.
LEMMA EventWiring ==
    ASSUME HandlersInv, NEW e \in Events, Event(e)
    PROVE  /\ Wiring' /\ Requested' /\ Stored'
           /\ TimesCounted(e) = 1
           /\ phase \in {"capture", "running"} /\ phase' = phase
<1>1. phase \in {"capture", "running"}
    BY ReceivedElse DEF Event
<1>2. TimesCounted(e) = 1
    BY <1>1, HandedRunning, HandedCaptured DEF HandlersInv, Event
<1>3. UNCHANGED <<routing, phase>>
    BY DEF Event
<1>4. Routing' /\ Staged'
    BY <1>3
    DEF HandlersInv, Wiring, Routing, Staged, AllRegistered, routing, setup
<1>5. /\ SysConfTypes' /\ Stored'
      /\ UNCHANGED <<requestedMetrics, isRegistered, described>>
    <2>1. SysConfTypes /\ Stored
        BY DEF HandlersInv, Wiring, HandlersTypeOK, SysConfTypes
    <2>2. Configure(e)
        BY DEF Event
    <2>3. QED
        BY <2>1, <2>2, ConfigureInv
<1>6. Requested'
    BY <1>3, <1>5 DEF HandlersInv, Requested, routing
<1>7. /\ counters' \in [Providers -> Nat] /\ happened' \in [Events -> Nat]
      /\ arrived' \in [Providers -> Nat]
    BY <1>2, EventHasRoute DEF Event, HandlersInv, Wiring, HandlersTypeOK
<1>8. handled' \in [Handlers -> [Events -> Nat]]
    <2>1. handled \in [Handlers -> [Events -> Nat]]
        BY DEF HandlersInv, Wiring, HandlersTypeOK
    <2>2. ASSUME NEW h \in Handlers
          PROVE  /\ handled[h] \in [Events -> Nat]
                 /\ [handled[h] EXCEPT ![e] = @ + 1] \in [Events -> Nat]
        BY <2>1
    <2>3. handled' = [h \in Handlers |->
                IF h \in HandlersOf(e) /\ Works(h)
                THEN [handled[h] EXCEPT ![e] = @ + 1] ELSE handled[h]]
        BY DEF Event
    <2>4. QED
        BY <2>2, <2>3
<1>9. /\ panicked' \in BOOLEAN /\ known' \subseteq {"process", "thread"}
      /\ begun' \subseteq {ProcessStart, ThreadStart}
    BY DEF Event, Learned, HandlersInv, Wiring, HandlersTypeOK
<1>10. HandlersTypeOK'
    BY <1>3, <1>5, <1>7, <1>8, <1>9
    DEF HandlersInv, Wiring, HandlersTypeOK, SysConfTypes, routing, setup
<1>11. QED
    BY <1>1, <1>2, <1>3, <1>4, <1>5, <1>6, <1>10 DEF Wiring

\* A collector works on an event exactly if its group is enabled and its
\* metrics are about the event.
LEMMA EventHandled ==
    ASSUME HandlersInv, NEW e \in Events, Event(e), NEW h \in Collecting
    PROVE  /\ h \in HandlersOf(e) /\ Works(h) <=>
                GroupOf[h] \in enabledGroups /\ e \in About[GroupOf[h]]
           /\ h \in HandlersOf(e) => phase = "running" /\ e \in About[GroupOf[h]]
           /\ HasCollector(h) <=> GroupOf[h] \in enabledGroups
<1>1. phase \in {"capture", "running"} /\ Wiring /\ e \in Received
    BY ReceivedElse DEF Event, HandlersInv
<1>2. collectors = enabledGroups
    BY <1>1 DEF Wiring, Staged
<1>3. Works(h) <=> GroupOf[h] \in enabledGroups
    BY <1>2 DEF Works, HasCollector
<1>4. CASE phase = "running"
    BY <1>1, <1>3, <1>4, HandedRunning DEF Works
<1>5. CASE phase = "capture"
    BY <1>1, <1>3, <1>5, HandedCaptured DEF Works
<1>6. QED
    BY <1>1, <1>4, <1>5

\* What an event adds to the work of the handlers.
LEMMA EventWork ==
    ASSUME HandlersInv, NEW e \in Events, Event(e), NEW h \in Collecting,
           NEW d \in Events
    PROVE  handled'[h][d] =
                IF d = e /\ h \in HandlersOf(e) /\ Works(h)
                THEN handled[h][d] + 1 ELSE handled[h][d]
<1>1. handled \in [Handlers -> [Events -> Nat]] /\ h \in Handlers
    BY DEF HandlersInv, Wiring, HandlersTypeOK, Collecting
<1>2. handled'[h] = IF h \in HandlersOf(e) /\ Works(h)
                    THEN [handled[h] EXCEPT ![e] = @ + 1] ELSE handled[h]
    BY <1>1 DEF Event
<1>3. QED
    BY <1>1, <1>2

LEMMA EventMisrouted ==
    ASSUME HandlersInv, NEW e \in Events, Event(e)
    PROVE  NothingMisrouted'
<1> SUFFICES ASSUME NEW h \in Collecting, NEW d \in Events
             PROVE  handled'[h][d] =
                        IF GroupOf[h] \in enabledGroups /\ d \in About[GroupOf[h]]
                        THEN happened'[d] ELSE 0
    BY DEF NothingMisrouted, Event, routing, setup
<1>1. handled[h][d] = IF GroupOf[h] \in enabledGroups /\ d \in About[GroupOf[h]]
                      THEN happened[d] ELSE 0
    BY DEF HandlersInv, NothingMisrouted
<1>2. happened'[d] = IF d = e THEN happened[d] + 1 ELSE happened[d]
    BY DEF Event, HandlersInv, Wiring, HandlersTypeOK
<1>3. h \in HandlersOf(e) /\ Works(h) <=>
            GroupOf[h] \in enabledGroups /\ e \in About[GroupOf[h]]
    BY EventHandled
<1>4. QED
    BY <1>1, <1>2, <1>3, EventWork

\* A collector that works on an event comes after what it looks up.
LEMMA EventKnown ==
    ASSUME HandlersInv, NEW e \in Events, Event(e)
    PROVE  ProcessesKnown' /\ Begun'
<1>1. known \subseteq known' /\ Wiring /\ HandlersTypeOK
    BY DEF Event, HandlersInv, Wiring
<1>2. ProcessesKnown'
    <2> SUFFICES ASSUME NEW h \in Collecting,
                        NEW d \in Events \ {ProcessStart, ThreadStart},
                        handled'[h][d] > 0
                 PROVE  LooksUp(h) \subseteq known'
        BY DEF ProcessesKnown
    <2>1. CASE handled[h][d] > 0
        BY <1>1, <2>1 DEF HandlersInv, ProcessesKnown
    <2>2. CASE ~(handled[h][d] > 0)
        <3>1. d = e /\ h \in HandlersOf(e) /\ Works(h)
            BY <2>2, EventWork
        <3>2. /\ phase = "running" /\ e \in About[GroupOf[h]]
              /\ GroupOf[h] \in enabledGroups
            BY <3>1, EventHandled
        <3>3. /\ "process" \in LooksUp(h) => ProcessStart \in Received
              /\ "thread" \in LooksUp(h) => ThreadStart \in Received
            BY <1>1, <3>2, GroupOfEvent DEF Event
        <3>4. {ProcessStart, ThreadStart} \intersect Received \subseteq begun
            BY <3>1 DEF Event, Follows
        <3>5. LooksUp(h) \subseteq {"process", "thread"}
            BY DEF LooksUp
        <3>6. QED
            BY <1>1, <3>2, <3>3, <3>4, <3>5 DEF HandlersInv, Begun
    <2>3. QED
        BY <2>1, <2>2
<1>3. Begun'
    <2> SUFFICES ASSUME phase = "running"
                 PROVE  /\ ProcessStart \in begun' => "process" \in known'
                        /\ ThreadStart \in begun' => "thread" \in known'
        BY DEF Begun, Event
    <2>1. /\ begun' = begun \union ({e} \intersect {ProcessStart, ThreadStart})
          /\ known' = known \union Learned(e)
        BY DEF Event
    <2>2. ProcessStart # ThreadStart
        BY DEF ProcessStart, ThreadStart
    <2>3. e = ProcessStart => Learned(e) = {"process"}
        BY <1>1, <2>2, HandedRunning DEF Learned
    <2>4. e = ThreadStart => Learned(e) = {"thread"}
        BY <1>1, <2>2, HandedRunning DEF Learned
    <2>5. QED
        BY <2>1, <2>3, <2>4 DEF HandlersInv, Begun
<1>4. QED
    BY <1>2, <1>3

LEMMA EventInv ==
    ASSUME HandlersInv, NEW e \in Events, Event(e)
    PROVE  HandlersInv'
<1>1. CountedOnce'
    <2>1. TimesCounted(e) = 1 /\ HandlersTypeOK
        BY EventWiring DEF HandlersInv, Wiring
    <2>2. counters' = [counters EXCEPT ![e[1]] = @ + 1]
        BY <2>1 DEF Event
    <2>3. QED
        BY <2>1, <2>2 DEF Event, HandlersInv, CountedOnce, HandlersTypeOK
<1>2. NoNilCollector'
    <2>1. ASSUME NEW h \in HandlersOf(e), Panics(h)
          PROVE  FALSE
        <3>1. h \in Trusting /\ h \in Collecting /\ ~HasCollector(h)
            BY <2>1, GroupTable DEF Panics, Trusting
        <3>2. phase = "running" /\ e \in About[GroupOf[h]]
            BY <3>1, EventHandled
        <3>3. GroupOf[h] \in enabledGroups
            BY <3>1, <3>2, GroupOfEvent DEF Event, HandlersInv, Wiring
        <3>4. QED
            BY <3>1, <3>3, EventHandled
    <2>2. QED
        BY <2>1 DEF NoNilCollector, Event
<1>3. QED
    BY <1>1, <1>2, EventWiring, EventMisrouted, EventKnown DEF HandlersInv

\* A handler's routes take nothing from another one.
LEMMA AddRoutesInv ==
    ASSUME HandlersInv, NEW h \in Routed, routeMap' = AddRoutes(h),
           registered' = registered \union {h},
           phase \in {"setup", "captured"},
           UNCHANGED <<setup, collectors, phase, counts, begun, sent, sysconf>>
    PROVE  HandlersInv'
<1>1. /\ routeMap \in [Events -> registered \union {NoHandler}]
      /\ registered \subseteq Routed
    BY DEF HandlersInv, Wiring, HandlersTypeOK
<1>2. h # NoHandler
    BY NoHandlerAssumption DEF Handlers
<1>3. routeMap' = [d \in Events |-> IF d \in RoutesOf[h] THEN h ELSE routeMap[d]]
    BY DEF AddRoutes
<1>4. routeMap' \in [Events -> registered' \union {NoHandler}]
    BY <1>1, <1>3
<1>5. HandlersTypeOK'
    BY <1>4 DEF HandlersInv, Wiring, HandlersTypeOK, setup, counts, sent, sysconf
<1>6. Routing'
    <2>1. ASSUME NEW k \in registered', NEW e \in RoutesOf[k]
          PROVE  routeMap'[e] = k
        <3>1. k \in Routed /\ e \in Events
            BY <1>1, EventHasRoute
        <3>2. CASE e \in RoutesOf[h]
            BY <1>3, <3>1, <3>2, RoutesApart
        <3>3. CASE e \notin RoutesOf[h]
            BY <1>3, <3>1, <3>3 DEF HandlersInv, Wiring, Routing
        <3>4. QED
            BY <3>2, <3>3
    <2>2. ASSUME NEW e \in Events, routeMap'[e] # NoHandler
          PROVE  e \in RoutesOf[routeMap'[e]]
        BY <1>3, <2>2 DEF HandlersInv, Wiring, Routing
    <2>3. QED
        BY <2>1, <2>2 DEF Routing
<1>7. Staged'
    BY DEF HandlersInv, Wiring, Staged, AllRegistered, setup
<1>8. Begun' /\ Requested' /\ Stored'
    BY DEF HandlersInv, Begun, Requested, Stored, counts, sent, sysconf
<1>9. NothingMisrouted' /\ ProcessesKnown' /\ CountedOnce' /\ NoNilCollector'
    BY DEF HandlersInv, NothingMisrouted, ProcessesKnown, CountedOnce,
           NoNilCollector, counts, sent, setup
<1>10. QED
    BY <1>5, <1>6, <1>7, <1>8, <1>9 DEF HandlersInv, Wiring

\* A collector is attached once, and only the one of disks makes a request.
LEMMA AttachInv ==
    ASSUME HandlersInv, NEW g \in Groups, AttachCollector(g)
    PROVE  HandlersInv'
<1>1. /\ g \in enabledGroups /\ g \notin collectors /\ phase = "setup"
      /\ collectors' = collectors \union {g}
      /\ UNCHANGED <<setup, routeMap, registered, phase, counts, begun, sent>>
    BY DEF AttachCollector, Turn
<1>2. UNCHANGED <<physicalDisks, logicalDisks>>
    BY DEF AttachCollector, RequestMetrics, sysconf
<1>3. Requested'
    <2>1. CASE g # "disk_io"
        BY <1>1, <2>1 DEF AttachCollector, HandlersInv, Requested, sysconf
    <2>2. CASE g = "disk_io"
        <3>1. requestedMetrics = {} /\ ~isRegistered /\ RequestMetrics(Metrics)
            BY <1>1, <2>2 DEF AttachCollector, HandlersInv, Requested
        <3>2. Metrics # {}
            BY DEF Metrics
        <3>3. /\ requestedMetrics' = Metrics /\ isRegistered' = TRUE
              /\ described' = Describe'
            BY <3>1, <3>2 DEF RequestMetrics
        <3>4. Describe' = Metrics
            BY <3>3 DEF Describe
        <3>5. QED
            BY <1>1, <2>2, <3>3, <3>4 DEF Requested
    <2>3. QED
        BY <2>1, <2>2
<1>4. HandlersTypeOK'
    BY <1>1, <1>2, <1>3
    DEF HandlersInv, Wiring, HandlersTypeOK, Requested, setup, counts, sent
<1>5. Routing' /\ Staged' /\ Begun' /\ Stored'
    BY <1>1, <1>2
    DEF HandlersInv, Wiring, Routing, Staged, Begun, Stored, counts, sent
<1>6. NothingMisrouted' /\ ProcessesKnown' /\ CountedOnce' /\ NoNilCollector'
    BY <1>1
    DEF HandlersInv, NothingMisrouted, ProcessesKnown, CountedOnce,
        NoNilCollector, counts, sent, setup
<1>7. QED
    BY <1>3, <1>4, <1>5, <1>6 DEF HandlersInv, Wiring

\* A session begins with nothing sent, and the first one when all is ready.
LEMMA PhaseInv ==
    ASSUME HandlersInv, UNCHANGED <<routing, counts, sent, sysconf>>,
           phase' \in {"capture", "captured", "running"},
           phase = "setup" => Ready,
           begun' = {} \/ (begun' = begun /\ phase' = "captured")
    PROVE  HandlersInv'
<1>1. HandlersTypeOK'
    BY DEF HandlersInv, Wiring, HandlersTypeOK, routing, setup, counts, sent, sysconf
<1>2. Routing' /\ Staged'
    BY DEF HandlersInv, Wiring, Routing, Staged, Ready, AllRegistered, routing,
           setup
<1>3. Begun' /\ Requested' /\ Stored'
    BY DEF HandlersInv, Begun, Requested, Stored, routing, sent, sysconf
<1>4. NothingMisrouted' /\ ProcessesKnown' /\ CountedOnce' /\ NoNilCollector'
    BY DEF HandlersInv, NothingMisrouted, ProcessesKnown, CountedOnce,
           NoNilCollector, counts, sent, routing, setup
<1>5. QED
    BY <1>1, <1>2, <1>3, <1>4 DEF HandlersInv, Wiring

LEMMA HandlersStep ==
    ASSUME HandlersInv, [HandlersNext]_handlersVars
    PROVE  HandlersInv'
<1>1. CASE \E h \in Routed : RegisterRoutes(h)
    BY <1>1, AddRoutesInv DEF RegisterRoutes
<1>2. CASE \E g \in Groups : AttachCollector(g)
    BY <1>2, AttachInv
<1>3. CASE BeginCapture \/ EndCapture \/ SkipCapture \/ Start
    BY <1>3, PhaseInv DEF BeginCapture, EndCapture, SkipCapture, Start
<1>4. CASE RegisterWatcherRoutes
    <2>1. "watcher" \in Routed
        BY DEF Routed, Prepared
    <2>2. QED
        BY <1>4, <2>1, AddRoutesInv DEF RegisterWatcherRoutes, WatcherTime
<1>5. CASE \E e \in Events : Event(e)
    BY <1>5, EventInv
<1>6. CASE UNCHANGED handlersVars
    BY <1>6
    DEF handlersVars, HandlersInv, Wiring, HandlersTypeOK, Routing, Staged,
        AllRegistered, Begun, Requested, Stored, NothingMisrouted,
        ProcessesKnown, CountedOnce, NoNilCollector, routing, setup, counts,
        sent, sysconf
<1>7. QED
    BY <1>1, <1>2, <1>3, <1>4, <1>5, <1>6 DEF HandlersNext, Waiting

LEMMA HandlersStart == HandlersInit => HandlersInv
<1> SUFFICES ASSUME HandlersInit PROVE HandlersInv
    OBVIOUS
<1> USE DEF HandlersInit, SysConfInit
<1>1. HandlersTypeOK
    BY DEF HandlersTypeOK
<1>2. Routing /\ Staged
    BY DEF Routing, Staged
<1>3. Begun /\ Requested
    <2>1. "disk_io" \notin collectors
        OBVIOUS
    <2>2. QED
        BY <2>1 DEF Begun, Requested
<1>8. Stored
    <2>1. \A d \in Disks : logicalDisks[d] = NoVolume
        OBVIOUS
    <2>2. QED
        BY <2>1 DEF Stored
<1>4. \A h \in Collecting : h \in Handlers
    BY DEF Collecting
<1>5. NothingMisrouted /\ ProcessesKnown
    BY <1>4 DEF NothingMisrouted, ProcessesKnown
<1>6. CountedOnce /\ NoNilCollector
    BY DEF CountedOnce, NoNilCollector
<1>7. QED
    BY <1>1, <1>2, <1>3, <1>5, <1>6, <1>8 DEF HandlersInv, Wiring

LEMMA HandlersInvariant == HandlersSpec => []HandlersInv
    BY HandlersStart, HandlersStep, PTL DEF HandlersSpec

-----------------------------------------------------------------------------
(* The theorems.                                                           *)

\* What is served of the disks follows from what was requested and stored.
LEMMA DisksServed ==
    ASSUME HandlersTypeOK, Requested, Stored
    PROVE  DiskInfoServed
<1> DEFINE asked == "disk_io" \in collectors
           Of(disk, volumes) == {v \in volumes : v[1] = disk}
<1>1. /\ described = IF asked THEN Metrics ELSE {}
      /\ requestedMetrics = IF asked THEN Metrics ELSE {}
      /\ isRegistered <=> asked
    BY DEF Requested
<1>2. "disk_physical_info" \in Metrics /\ "disk_logical_info" \in Metrics
    BY DEF Metrics
<1>3. PhysicalSeries = IF asked THEN {d \in Disks : <<d>> \in reported} ELSE {}
    BY <1>1, <1>2 DEF PhysicalSeries, Stored
<1>4. LogicalSeries = IF asked THEN {v \in Volumes : logicalDisks[v[1]] = v[2]}
                      ELSE {}
    BY <1>1, <1>2 DEF LogicalSeries
<1>5. LogicalSeries \subseteq reported
    <2> SUFFICES ASSUME NEW v \in Volumes, logicalDisks[v[1]] = v[2]
                 PROVE  v \in reported
        BY <1>4
    <2>1. PICK d \in Disks, p \in Partitions : v = <<d, p>>
        BY DEF Volumes
    <2>2. QED
        BY <2>1, NoVolumeAssumption DEF Stored
<1>6. ASSUME NEW d \in Disks
      PROVE  Cardinality(Of(d, LogicalSeries)) =
                IF asked /\ Of(d, reported \intersect Volumes) # {}
                THEN 1 ELSE 0
    <2>1. logicalDisks[d] \in Partitions \union {NoVolume}
        BY DEF HandlersTypeOK
    <2>2. \A p \in Partitions : <<d, p>> \in Volumes /\ <<d, p>>[1] = d
        BY DEF Volumes
    <2>3. CASE ~asked
        <3>1. Of(d, LogicalSeries) = {}
            BY <1>4, <2>3
        <3>2. QED
            BY <2>3, <3>1, FS_EmptySet
    <2>4. CASE asked /\ logicalDisks[d] = NoVolume
        <3>1. Of(d, LogicalSeries) = {}
            BY <1>4, <2>4, NoVolumeAssumption DEF Volumes
        <3>2. Of(d, reported \intersect Volumes) = {}
            <4> SUFFICES ASSUME NEW v \in Volumes, v \in reported, v[1] = d
                         PROVE  FALSE
                OBVIOUS
            <4>1. PICK p \in Partitions : v = <<d, p>>
                BY DEF Volumes
            <4>2. <<d, p>> \notin reported
                BY <2>4 DEF Stored
            <4>3. QED
                BY <4>1, <4>2
        <3>3. QED
            BY <3>1, <3>2, FS_EmptySet
    <2>5. CASE asked /\ logicalDisks[d] # NoVolume
        <3>1. Of(d, LogicalSeries) = {<<d, logicalDisks[d]>>}
            BY <1>4, <2>1, <2>5 DEF Volumes
        <3>2. <<d, logicalDisks[d]>> \in Of(d, reported \intersect Volumes)
            BY <2>1, <2>2, <2>5 DEF Stored
        <3>3. Cardinality(Of(d, LogicalSeries)) = 1
            BY <3>1, FS_Singleton
        <3>4. QED
            BY <2>5, <3>2, <3>3
    <2>6. QED
        BY <2>3, <2>4, <2>5
<1>7. QED
    BY <1>1, <1>3, <1>5, <1>6 DEF DiskInfoServed

\* The routes lead to handlers that have registered them, and the collectors
\* that are attached are those of enabled groups (NewEventHandler).
THEOREM HandlersTypeCorrect == HandlersSpec => []HandlersTypeOK
<1>1. HandlersInv => HandlersTypeOK
    BY DEF HandlersInv, Wiring
<1>2. QED
    BY <1>1, HandlersInvariant, PTL

\* Whatever groups are enabled together, a collector works on every event that
\* its metrics are about, once, and on no other (EventRecordCallback,
\* RouteEvent).
THEOREM EventsRouted == HandlersSpec => []NothingMisrouted
<1>1. HandlersInv => NothingMisrouted
    BY DEF HandlersInv
<1>2. QED
    BY <1>1, HandlersInvariant, PTL

\* A group that is enabled, alone or with others, is sent what its metrics are
\* about, and before it what it has to be attributed to (AllProviderGroups,
\* GetEnabledKernelFlags).
THEOREM GroupsSuffice == HandlersSpec => []GroupSuffices
<1>1. HandlersInv => GroupSuffices
    BY GroupsAreFed, HandlerAssumption
    DEF HandlersInv, Wiring, HandlersTypeOK, GroupSuffices
<1>2. QED
    BY <1>1, HandlersInvariant, PTL

\* Every event is counted once for its provider, by the one or the other stage
\* (etw_stat_handler_events_received_total).
THEOREM EventsCountedOnce == HandlersSpec => []CountedOnce
<1>1. HandlersInv => CountedOnce
    BY DEF HandlersInv
<1>2. QED
    BY <1>1, HandlersInvariant, PTL

\* The handlers of the network and of memory, which do not ask, never work
\* without their collector (setupETW).
THEOREM CollectorsAttached == HandlersSpec => []NoNilCollector
<1>1. HandlersInv => NoNilCollector
    BY DEF HandlersInv
<1>2. QED
    BY <1>1, HandlersInvariant, PTL

\* The disks and one volume of each are exported exactly if the metrics of
\* disks are enabled, and are what the events told of (RequestMetrics,
\* Collect).
THEOREM DisksExported == HandlersSpec => []DiskInfoServed
<1>1. HandlersInv => DiskInfoServed
    BY DisksServed DEF HandlersInv, Wiring
<1>2. QED
    BY <1>1, HandlersInvariant, PTL
==============================================================================
