-------------------------- MODULE ProcessLifecycle --------------------------
(***************************************************************************)
(* What the table of processes promises to those who read it, without      *)
(* objects, pools, locals or the order in which tables are written:        *)
(*                                                                         *)
(*   - a process is tracked once it has started, and leaves the table only *)
(*     after it has ended and the next cleanup has begun a generation;     *)
(*   - the process that a pid leads to is one that was tracked when it was *)
(*     entered, and it remains the answer until another process takes the  *)
(*     pid, or until it has ended and its generation is over.              *)
(*                                                                         *)
(* StateManager implements it with pooled objects that pids point to, so   *)
(* that here an object that is recycled too early is an answer that        *)
(* changes by itself.                                                      *)
(***************************************************************************)
EXTENDS Naturals

CONSTANTS
    Keys,    \* start keys
    Pids,    \* process ids
    PidOf,   \* the pid of each process
    None     \* a pid without an answer, a process that has not ended

VARIABLES
    phase,        \* start key -> "new", "live" or "ended"
    endedIn,      \* start key -> the generation in which it ended
    generation,   \* the number of cleanups begun
    tracked,      \* the processes in the table
    answer        \* pid -> the process it leads to

vars == <<phase, endedIn, generation, tracked, answer>>

Init ==
    /\ phase = [k \in Keys |-> "new"]
    /\ endedIn = [k \in Keys |-> None]
    /\ generation = 0
    /\ tracked = {}
    /\ answer = [p \in Pids |-> None]

Begins(k) ==
    /\ phase[k] = "new"
    /\ phase' = [phase EXCEPT ![k] = "live"]
    /\ UNCHANGED <<endedIn, generation, tracked, answer>>

Ends(k) ==
    /\ phase[k] = "live"
    /\ phase' = [phase EXCEPT ![k] = "ended"]
    /\ endedIn' = [endedIn EXCEPT ![k] = generation]
    /\ UNCHANGED <<generation, tracked, answer>>

\* AddProcess: of a process that is running, or that has just ended when
\* its rundown is late.
Track(k) ==
    /\ phase[k] # "new" /\ k \notin tracked
    /\ tracked' = tracked \union {k}
    /\ UNCHANGED <<phase, endedIn, generation, answer>>

Enter(k) ==
    /\ k \in tracked
    /\ answer' = [answer EXCEPT ![PidOf[k]] = k]
    /\ UNCHANGED <<phase, endedIn, generation, tracked>>

\* The grace period of a process: at least one cleanup began after its end.
Over(k) == phase[k] = "ended" /\ endedIn[k] < generation

\* cleanupProcesses.
Remove(k) ==
    /\ k \in tracked /\ Over(k)
    /\ tracked' = tracked \ {k}
    /\ UNCHANGED <<phase, endedIn, generation, answer>>

Forget(p) ==
    /\ answer[p] # None /\ Over(answer[p])
    /\ answer' = [answer EXCEPT ![p] = None]
    /\ UNCHANGED <<phase, endedIn, generation, tracked>>

\* PostScrapeCleanup.
NextGeneration ==
    /\ generation' = generation + 1
    /\ UNCHANGED <<phase, endedIn, tracked, answer>>

Next ==
    \/ \E k \in Keys : Begins(k) \/ Ends(k) \/ Track(k) \/ Enter(k) \/ Remove(k)
    \/ \E p \in Pids : Forget(p)
    \/ NextGeneration

Spec == Init /\ [][Next]_vars
=============================================================================
