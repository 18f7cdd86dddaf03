--------------------------- MODULE SessionManager ---------------------------
(***************************************************************************)
(* The ETW sessions of SessionManager (src/internal/etw/etw_session.go):   *)
(*                                                                         *)
(*   - the main goroutine starts the sessions and the consumer, and stops  *)
(*     them at shutdown (Start, Stop);                                     *)
(*   - the trace monitor and the session watcher learn that a session was  *)
(*     stopped by somebody else, decide by the configured policy and spawn *)
(*     a restart (startTraceMonitor, HandleSessionStop);                   *)
(*   - each restart is a goroutine of its own, which nobody waits for      *)
(*     (restartSession);                                                   *)
(*   - a rundown is triggered from time to time.                           *)
(*                                                                         *)
(* The ETW library is external: a call of it succeeds or fails.  Other     *)
(* tools may stop a session, and use the NT Kernel Logger themselves.      *)
(***************************************************************************)
EXTENDS Naturals, FiniteSets

CONSTANTS
    Kernel,       \* the NT Kernel Logger session
    Exporter,     \* the etw_exporter session
    Workers,      \* restart goroutines
    None,         \* no session
    MaxStops,     \* bound on the stops by other tools
    MaxAttempts   \* the attempts of a restart

Sessions == {Kernel, Exporter}

ASSUME SessionAssumption ==
    /\ Kernel # Exporter /\ None \notin Sessions
    /\ Sessions \intersect {"off", "idle", "done"} = {}
    /\ MaxStops \in Nat /\ MaxAttempts \in Nat \ {0}

VARIABLES
    policy,          \* SessionWatcher.RestartKernelSession
    restartExporter, \* SessionWatcher.RestartExporterSession
    mainpc,          \* where the main goroutine is in Start, Run and Stop
    running, isStopping, cancelled,
    owner,           \* session -> "none", "ours" or "other", in Windows
    tracing,         \* the sessions whose trace the consumer processes
    stoppedTraces,   \* session -> notices waiting in StoppedTraces()
    stopEvents,      \* session -> SessionStop events not yet handled
    monitor,         \* "off", "idle", "done", or the session it looks up
    rundown,         \* "off", "idle", "running" or "done"
    restartingSessions,
    wpc, wsession, attempts,   \* of each restart goroutine
    \* History.
    stops,           \* stops by other tools so far
    gaveUp,          \* sessions whose restart has failed for good
    stopError        \* a session could not be stopped

config == <<policy, restartExporter>>
mainVars == <<mainpc, running, isStopping, cancelled>>
windows == <<owner, tracing>>
notices == <<stoppedTraces, stopEvents>>
background == <<monitor, rundown>>
restarts == <<restartingSessions, wpc, wsession, attempts>>
history == <<stops, gaveUp, stopError>>
vars == <<config, mainVars, windows, notices, background, restarts, history>>

Init ==
    /\ policy \in {"off", "enabled", "forced"}
    /\ restartExporter \in BOOLEAN
    /\ mainpc = "startKernel"
    /\ running = FALSE /\ isStopping = FALSE /\ cancelled = FALSE
    /\ owner = [s \in Sessions |-> "none"] /\ tracing = {}
    /\ stoppedTraces = [s \in Sessions |-> 0]
    /\ stopEvents = [s \in Sessions |-> 0]
    /\ monitor = "off" /\ rundown = "off"
    /\ restartingSessions = {}
    /\ wpc = [w \in Workers |-> "free"]
    /\ wsession = [w \in Workers |-> None]
    /\ attempts = [w \in Workers |-> 0]
    /\ stops = 0 /\ gaveUp = {} /\ stopError = FALSE

\* Once Run has returned the process is gone, with all its goroutines.
Alive == mainpc \notin {"stopped", "failed"}

-----------------------------------------------------------------------------
(* The main goroutine.                                                     *)

\* Start, under mu: the kernel session, the exporter session, the consumer;
\* an error at any point makes Run return.
StartSession(s, here, next) ==
    /\ mainpc = here
    /\ \/ owner' = [owner EXCEPT ![s] = "ours"] /\ mainpc' = next
       \/ mainpc' = "failed" /\ UNCHANGED owner
    /\ UNCHANGED <<config, running, isStopping, cancelled, tracing, notices,
                   background, restarts, history>>

StartConsumer ==
    /\ mainpc = "startConsumer"
    /\ \/ /\ tracing' = Sessions /\ mainpc' = "run"
          /\ monitor' = "idle" /\ rundown' = "idle"
          /\ isStopping' = FALSE /\ running' = TRUE
       \/ /\ mainpc' = "failed"
          /\ UNCHANGED <<tracing, background, isStopping, running>>
    /\ UNCHANGED <<config, cancelled, owner, notices, restarts, history>>

\* Stop takes mu, which a rundown holds while it runs.
Stop ==
    /\ mainpc = "run" /\ rundown # "running"
    /\ isStopping' = TRUE /\ mainpc' = "stopLocked"
    /\ UNCHANGED <<config, running, cancelled, windows, notices, background,
                   restarts, history>>

StopUnlock ==
    /\ mainpc = "stopLocked"
    /\ running' = FALSE /\ mainpc' = "stopConsumer"
    /\ UNCHANGED <<config, isStopping, cancelled, windows, notices, background,
                   restarts, history>>

\* Mutant: the lock is kept while Stop waits.
MuHeld_Throughout == isStopping

MuHeld == mainpc = "stopLocked"

\* StopWithTimeout ends every trace, or makes Stop return an error.
StopConsumer ==
    /\ mainpc = "stopConsumer"
    /\ \/ /\ tracing' = {} /\ mainpc' = "stopExporter"
          /\ stoppedTraces' = [s \in Sessions |->
                stoppedTraces[s] + IF s \in tracing THEN 1 ELSE 0]
       \/ mainpc' = "failed" /\ UNCHANGED <<tracing, stoppedTraces>>
    /\ UNCHANGED <<config, running, isStopping, cancelled, owner, stopEvents,
                   background, restarts, history>>

\* stopSessions: the exporter session, then the kernel session; it returns
\* at the first that cannot be stopped, and Stop goes on.
StopSession(s, here, next) ==
    /\ mainpc = here
    /\ \/ /\ owner' = [owner EXCEPT ![s] = IF @ = "ours" THEN "none" ELSE @]
          /\ mainpc' = next
          /\ UNCHANGED stopError
       \/ mainpc' = "cancel" /\ stopError' = TRUE /\ UNCHANGED owner
    /\ UNCHANGED <<config, running, isStopping, cancelled, tracing, notices,
                   background, restarts, stops, gaveUp>>

Cancel ==
    /\ mainpc = "cancel"
    /\ cancelled' = TRUE /\ mainpc' = "wait"
    /\ UNCHANGED <<config, running, isStopping, windows, notices, background,
                   restarts, history>>

\* wg.Wait: the monitor and the rundown, not the restarts.
WaitDone ==
    /\ mainpc = "wait" /\ monitor = "done" /\ rundown = "done"
    /\ mainpc' = "stopped"
    /\ UNCHANGED <<config, running, isStopping, cancelled, windows, notices,
                   background, restarts, history>>

-----------------------------------------------------------------------------
(* The monitor, the watcher and the rundown.                               *)

Spawn(s) ==
    \E w \in Workers :
        /\ wpc[w] = "free"
        /\ wpc' = [wpc EXCEPT ![w] = "begin"]
        /\ wsession' = [wsession EXCEPT ![w] = s]

\* HandleSessionStop: the decision, by policy.  "enabled" takes a kernel
\* session that is active to be in use by somebody else.
RestartAllowed(s) ==
    \/ s = Exporter /\ restartExporter
    \/ s = Kernel /\ policy = "forced"
    \/ s = Kernel /\ policy = "enabled" /\ owner[Kernel] = "none"

HandleSessionStop(s) ==
    IF RestartAllowed(s) THEN Spawn(s) ELSE UNCHANGED <<wpc, wsession>>

\* The monitor drops a notice during a shutdown; otherwise it looks the
\* session up, under mu, and has it handled.
TraceStopped(s) ==
    /\ Alive /\ monitor = "idle" /\ stoppedTraces[s] > 0
    /\ stoppedTraces' = [stoppedTraces EXCEPT ![s] = @ - 1]
    /\ monitor' = IF isStopping THEN "idle" ELSE s
    /\ UNCHANGED <<config, mainVars, windows, stopEvents, rundown, restarts,
                   history>>

LookUp(s) ==
    /\ Alive /\ monitor = s /\ ~MuHeld
    /\ monitor' = "idle"
    /\ HandleSessionStop(s)
    /\ UNCHANGED <<config, mainVars, windows, notices, rundown,
                   restartingSessions, attempts, history>>

MonitorEnds ==
    /\ Alive /\ monitor = "idle" /\ cancelled
    /\ monitor' = "done"
    /\ UNCHANGED <<config, mainVars, windows, notices, rundown, restarts,
                   history>>

\* The watcher's handler runs in the callback of the exporter session.
SessionStopEvent(s) ==
    /\ Alive /\ Exporter \in tracing /\ stopEvents[s] > 0
    /\ stopEvents' = [stopEvents EXCEPT ![s] = @ - 1]
    /\ HandleSessionStop(s)
    /\ UNCHANGED <<config, mainVars, windows, stoppedTraces, background,
                   restartingSessions, attempts, history>>

RundownTick ==
    /\ Alive /\ rundown = "idle" /\ running /\ ~MuHeld
    /\ rundown' = "running"
    /\ UNCHANGED <<config, mainVars, windows, notices, monitor, restarts,
                   history>>

RundownEnds ==
    /\ Alive
    /\ \/ rundown = "running" /\ rundown' = "idle"
       \/ rundown = "idle" /\ cancelled /\ rundown' = "done"
    /\ UNCHANGED <<config, mainVars, windows, notices, monitor, restarts,
                   history>>

-----------------------------------------------------------------------------
(* A restart goroutine.                                                    *)

WorkerStep(w, here) == Alive /\ wpc[w] = here

Goto(w, pc) ==
    /\ wpc' = [wpc EXCEPT ![w] = pc]
    /\ wsession' = [wsession EXCEPT ![w] = IF pc = "free" THEN None ELSE @]
    /\ UNCHANGED <<config, mainVars, notices, background, stops, stopError>>

Begin(w) ==
    /\ WorkerStep(w, "begin")
    /\ Goto(w, IF isStopping THEN "free" ELSE "readRunning")
    /\ UNCHANGED <<windows, restartingSessions, attempts, gaveUp>>

SeenRunning_Unread == TRUE   \* mutant: running is not looked at

SeenRunning == running

ReadRunning(w) ==
    /\ WorkerStep(w, "readRunning") /\ ~MuHeld
    /\ Goto(w, IF SeenRunning THEN "acquire" ELSE "free")
    /\ UNCHANGED <<windows, restartingSessions, attempts, gaveUp>>

\* LoadOrStore on restartingSessions, and a nap if somebody is at it.
Taken_Never(s) == FALSE   \* mutant: Store for LoadOrStore

Taken(s) == s \in restartingSessions

Acquire(w) ==
    /\ WorkerStep(w, "acquire")
    /\ restartingSessions' = restartingSessions \union {wsession[w]}
    /\ Goto(w, IF Taken(wsession[w]) THEN "sleep" ELSE "attempt")
    /\ UNCHANGED <<windows, attempts, gaveUp>>

AwokenTo_Free(w) == "free"   \* mutant: the other restart is trusted

AwokenTo(w) == IF wsession[w] \in tracing THEN "free" ELSE "acquire"

Recheck(w) ==
    /\ WorkerStep(w, "sleep")
    /\ Goto(w, AwokenTo(w))
    /\ UNCHANGED <<windows, restartingSessions, attempts, gaveUp>>

\* RestartSessions takes the session, whoever has it, or fails.
Attempt(w) ==
    /\ WorkerStep(w, "attempt")
    /\ \/ /\ owner' = [owner EXCEPT ![wsession[w]] = "ours"]
          /\ tracing' = tracing \union {wsession[w]}
          /\ gaveUp' = gaveUp \ {wsession[w]}
          /\ Goto(w, "release")
          /\ UNCHANGED attempts
       \/ /\ attempts' = [attempts EXCEPT ![w] = @ + 1]
          /\ Goto(w, "pause")
          /\ UNCHANGED <<windows, gaveUp>>
    /\ UNCHANGED restartingSessions

StillTrying(w) == attempts[w] < MaxAttempts

\* After a failure it waits, the last time too, unless the manager ends.
Pause(w) ==
    /\ WorkerStep(w, "pause")
    /\ \/ StillTrying(w) /\ Goto(w, "attempt") /\ UNCHANGED gaveUp
       \/ /\ ~StillTrying(w) \/ cancelled
          /\ gaveUp' = gaveUp \union {wsession[w]}
          /\ Goto(w, "release")
    /\ UNCHANGED <<windows, restartingSessions, attempts>>

Release(w) ==
    /\ WorkerStep(w, "release")
    /\ restartingSessions' = restartingSessions \ {wsession[w]}
    /\ attempts' = [attempts EXCEPT ![w] = 0]
    /\ Goto(w, "free")
    /\ UNCHANGED <<windows, gaveUp>>

-----------------------------------------------------------------------------
(* Other tools.                                                            *)

\* Somebody stops a session of ours: its trace ends, and the watcher is told
\* if its own session still runs.
StoppedByOther(s) ==
    /\ Alive /\ stops < MaxStops /\ owner[s] = "ours" /\ s \in tracing
    /\ stops' = stops + 1
    /\ owner' = [owner EXCEPT ![s] = "none"]
    /\ tracing' = tracing \ {s}
    /\ stoppedTraces' = [stoppedTraces EXCEPT ![s] = @ + 1]
    /\ stopEvents' = [stopEvents EXCEPT
            ![s] = @ + IF Exporter \in tracing \ {s} THEN 1 ELSE 0]
    /\ UNCHANGED <<config, mainVars, background, restarts, gaveUp, stopError>>

\* Another tool takes the kernel logger while nobody has it, or leaves it.
OtherUsesKernel ==
    /\ Alive /\ owner[Kernel] # "ours"
    /\ owner' = [owner EXCEPT ![Kernel] = IF @ = "none" THEN "other" ELSE "none"]
    /\ UNCHANGED <<config, mainVars, tracing, notices, background, restarts,
                   history>>

-----------------------------------------------------------------------------
Main ==
    \/ StartSession(Kernel, "startKernel", "startExporter")
    \/ StartSession(Exporter, "startExporter", "startConsumer")
    \/ StartConsumer
    \/ Stop
    \/ StopUnlock
    \/ StopConsumer
    \/ StopSession(Exporter, "stopExporter", "stopKernel")
    \/ StopSession(Kernel, "stopKernel", "cancel")
    \/ Cancel
    \/ WaitDone

Monitor ==
    \/ \E s \in Sessions : TraceStopped(s) \/ LookUp(s)
    \/ MonitorEnds

Restart(w) ==
    \/ Begin(w)
    \/ ReadRunning(w)
    \/ Acquire(w)
    \/ Recheck(w)
    \/ Attempt(w)
    \/ Pause(w)
    \/ Release(w)

Next ==
    \/ Main
    \/ Monitor
    \/ RundownTick
    \/ RundownEnds
    \/ \E w \in Workers : Restart(w)
    \/ \E s \in Sessions : SessionStopEvent(s) \/ StoppedByOther(s)
    \/ OtherUsesKernel

\* Goroutines are scheduled and calls of the library return.
Fairness ==
    /\ WF_vars(isStopping /\ Main)
    /\ WF_vars(Monitor)
    /\ WF_vars(RundownEnds)
    /\ \A w \in Workers : WF_vars(Restart(w))

Spec == Init /\ [][Next]_vars /\ Fairness

-----------------------------------------------------------------------------
(* What the manager promises.                                              *)

\* The values the variables take.
TypeOK ==
    /\ policy \in {"off", "enabled", "forced"} /\ restartExporter \in BOOLEAN
    /\ mainpc \in {"startKernel", "startExporter", "startConsumer", "run",
                   "stopLocked", "stopConsumer", "stopExporter", "stopKernel",
                   "cancel", "wait", "stopped", "failed"}
    /\ running \in BOOLEAN /\ isStopping \in BOOLEAN /\ cancelled \in BOOLEAN
    /\ owner \in [Sessions -> {"none", "ours", "other"}]
    /\ tracing \subseteq Sessions
    /\ stoppedTraces \in [Sessions -> Nat] /\ stopEvents \in [Sessions -> Nat]
    /\ monitor \in {"off", "idle", "done"} \union Sessions
    /\ rundown \in {"off", "idle", "running", "done"}
    /\ restartingSessions \subseteq Sessions
    /\ wpc \in [Workers -> {"free", "begin", "readRunning", "acquire", "sleep",
                            "attempt", "pause", "release"}]
    /\ wsession \in [Workers -> Sessions \union {None}]
    /\ \A w \in Workers : (wsession[w] = None) <=> (wpc[w] = "free")
    /\ attempts \in [Workers -> 0 .. MaxAttempts]
    /\ stops \in 0 .. MaxStops /\ gaveUp \subseteq Sessions
    /\ stopError \in BOOLEAN

Restarting(w) == wpc[w] \in {"attempt", "pause", "release"}

\* A session stopped by somebody else is reported twice, by the monitor and by
\* the watcher, and each report spawns a restart: never do two of them call
\* RestartSessions for the same session.
OneRestarter ==
    \A v, w \in Workers :
        Restarting(v) /\ Restarting(w) /\ wsession[v] = wsession[w] => v = w

Gated(w) == wpc[w] \in {"free", "begin", "readRunning"}

\* Once Stop has begun, no restart that has not yet seen the manager running
\* goes any further: not one begun before, nor one spawned by a late notice.
StopGate == [][\A w \in Workers : isStopping /\ Gated(w) => Gated(w)']_vars

\* The sessions that the policy restarts whatever other tools do.
AlwaysRestarted ==
    {s \in Sessions : IF s = Kernel THEN policy = "forced" ELSE restartExporter}

\* While the exporter runs, a stopped session that is to be restarted is
\* running again, or still being reported or restarted, or has been given up
\* after the last attempt: its stop is not swallowed by a restart that was
\* under way when it happened.
NoStopForgotten ==
    mainpc = "run" =>
        \A s \in AlwaysRestarted \ (tracing \union gaveUp) :
            \/ stoppedTraces[s] > 0 \/ monitor = s
            \/ \E w \in Workers : wsession[w] = s

\* Stop returns, whatever the goroutines it waits for were doing.
StopReturns == isStopping ~> ~Alive

\* After a clean Stop no session of the exporter is left active in Windows,
\* where it would outlive the process.
NothingLeftActive ==
    mainpc = "stopped" /\ ~stopError => \A s \in Sessions : owner[s] # "ours"
=============================================================================
