---------------------------- MODULE StateManager ----------------------------
(***************************************************************************)
(* The process and thread tables of KernelStateManager                     *)
(* (src/internal/kernel/statemanager), shared by two goroutines:           *)
(*                                                                         *)
(*   - the ETW callback, which handles the events of the kernel session    *)
(*     one after the other (AddProcess, MarkProcessForDeletion, AddThread, *)
(*     MarkThreadForDeletion), and                                         *)
(*   - the cleaner, PostScrapeCleanup, run after a scrape or by the        *)
(*     watchdog, one at a time under cleanupMu.                            *)
(*                                                                         *)
(* Every table is a ConcurrentMap: one map operation is one atomic step    *)
(* and the two goroutines interleave between any two of them.  A Range     *)
(* visits the keys one step at a time.  A map is a total function whose    *)
(* value is Absent where the map has no entry; Nil is a nil *ProcessData   *)
(* stored as a value.                                                      *)
(*                                                                         *)
(* The operating system is seen through its event stream: a process or a   *)
(* thread starts, or ends, when the event that says so is delivered.       *)
(***************************************************************************)
EXTENDS Naturals

CONSTANTS
    Keys,        \* start keys of the processes the system will run
    Pids,        \* process ids, reused by later processes
    PidOf,       \* the pid of each process
    Tids,        \* thread ids, reused by later threads
    Objs,        \* *ProcessData objects, pooled
    UnknownObj,  \* the object of the unknown-process singleton
    Absent,      \* "no entry" in a map
    Nil,         \* a nil pointer stored in a map
    Workloads    \* what a run may meet: the processes that the system will
                 \* run, whether thread and rundown events may arrive late,
                 \* after Process/End, whether Process/Start and Process/End
                 \* events may be lost, and a bound on scrapeCounter

UnknownProcessStartKey == 1
AllKeys == Keys \union {UnknownProcessStartKey}

ASSUME KeysAssumption ==
    /\ Keys \subseteq Nat \ {0, UnknownProcessStartKey}
    /\ PidOf \in [Keys -> Pids]
ASSUME ObjsAssumption ==
    /\ UnknownObj \in Objs
    /\ Absent \notin Objs \union Nat \union Tids \union Pids
    /\ Absent \notin [gen : Nat, key : Nat]
    /\ Nil \notin Objs \union {Absent}
ASSUME BoundsAssumption ==
    Workloads \subseteq [procs : SUBSET Keys, late : BOOLEAN, lost : BOOLEAN,
                         scrapes : Nat]

VARIABLES
    \* The tables (s_process_manager.go, s_thread_manager.go).
    instanceData,             \* start key -> object
    terminatedProcesses,      \* start key -> scrape generation of its end
    pidToCurrentStartKey,     \* pid -> start key
    pidToCurrentProcessData,  \* pid -> object
    tidToCurrentProcessData,  \* tid -> object
    terminatedThreads,        \* tid -> [gen, key] of its end
    info,                     \* object -> [key, pid], its ProcessInfo
    pool,                     \* processDataPool
    scrapeCounter,
    \* The callback goroutine: where it is, and its locals.
    hpc, hkey, htid, hobj, hgen,
    \* The cleaner: where it is, and its locals.
    cpc, cleanupThreshold, keysToVisit, tidsToVisit, procsToClean,
    tidsForDeletion, threadsToClean, curKey, curTid, victim,
    \* The operating system, as the stream has told it so far.
    phase,    \* start key -> "new", "live" or "ended"
    owner,    \* tid -> start key of the running thread's process
    endedAt,  \* start key -> value of scrapeCounter when its end was told
    workload  \* the workload of this run

tables == <<instanceData, terminatedProcesses, pidToCurrentStartKey,
            pidToCurrentProcessData, tidToCurrentProcessData,
            terminatedThreads, info, pool>>
callback == <<hpc, hkey, htid, hobj, hgen>>
cleaner == <<cpc, cleanupThreshold, keysToVisit, tidsToVisit, procsToClean,
             tidsForDeletion, threadsToClean, curKey, curTid, victim>>
system == <<phase, owner, endedAt, workload>>
vars == <<tables, scrapeCounter, callback, cleaner, system>>

Record == [gen : Nat, key : AllKeys]

Init ==
    /\ instanceData = [k \in AllKeys |->
            IF k = UnknownProcessStartKey THEN UnknownObj ELSE Absent]
    /\ terminatedProcesses = [k \in Keys |-> Absent]
    /\ pidToCurrentStartKey = [p \in Pids |-> Absent]
    /\ pidToCurrentProcessData = [p \in Pids |-> Absent]
    /\ tidToCurrentProcessData = [t \in Tids |-> Absent]
    /\ terminatedThreads = [t \in Tids |-> Absent]
    /\ info = [o \in Objs |->
            [key |-> IF o = UnknownObj THEN UnknownProcessStartKey ELSE 0,
             pid |-> Absent]]
    /\ pool = Objs \ {UnknownObj}
    /\ scrapeCounter = 0
    /\ hpc = "idle" /\ hkey = Absent /\ htid = Absent
    /\ hobj = Absent /\ hgen = 0
    /\ cpc = "idle" /\ cleanupThreshold = 0
    /\ keysToVisit = {} /\ tidsToVisit = {}
    /\ procsToClean = {} /\ tidsForDeletion = {}
    /\ threadsToClean = [t \in Tids |-> Absent]
    /\ curKey = Absent /\ curTid = Absent /\ victim = Absent
    /\ phase = [k \in Keys |-> "new"]
    /\ owner = [t \in Tids |-> Absent]
    /\ endedAt = [k \in Keys |-> Absent]
    /\ workload \in Workloads

-----------------------------------------------------------------------------
(* The operating system's side of an event.                                *)

\* Start keys are numbered in the order in which processes get a pid: a pid
\* is free for k once every earlier process with that pid has ended.
PidFreeFor(k) ==
    \A j \in Keys : PidOf[j] = PidOf[k] =>
        /\ j < k => phase[j] = "ended"
        /\ j >= k => phase[j] = "new"

ProcessStarts(k) ==
    /\ phase[k] = "new" /\ k \in workload.procs /\ PidFreeFor(k)
    /\ phase' = [phase EXCEPT ![k] = "live"]
    /\ UNCHANGED <<owner, endedAt, workload>>

\* In an ordered stream the threads of a process end before it does.
ProcessEnds(k) ==
    /\ phase[k] = "live"
    /\ workload.late \/ \A t \in Tids : owner[t] # k
    /\ phase' = [phase EXCEPT ![k] = "ended"]
    /\ endedAt' = [endedAt EXCEPT ![k] = scrapeCounter]
    /\ UNCHANGED <<owner, workload>>

\* A Process/DC_START of a rundown repeats a process that is running, or one
\* that has just ended when the events are late.
ProcessIsListed(k) ==
    /\ phase[k] = "live" \/ (workload.late /\ phase[k] = "ended")
    /\ UNCHANGED system

\* A Thread/Start, or the Thread/DC_START or DC_END of a rundown.
ThreadIsListed(t, k) ==
    /\ owner[t] \in {Absent, k}
    /\ phase[k] = "live" \/ (workload.late /\ phase[k] = "ended")
    /\ owner' = [owner EXCEPT ![t] = k]
    /\ UNCHANGED <<phase, endedAt, workload>>

ThreadEnds(t) ==
    /\ owner[t] # Absent
    /\ owner' = [owner EXCEPT ![t] = Absent]
    /\ UNCHANGED <<phase, endedAt, workload>>

-----------------------------------------------------------------------------
(* The callback goroutine.                                                 *)

HandlerDone ==
    /\ hpc' = "idle" /\ hkey' = Absent /\ htid' = Absent
    /\ hobj' = Absent /\ hgen' = 0

\* AddProcess: an instance that is already tracked only has its LastSeen
\* updated; otherwise an object is taken from the pool, reset and filled,
\* and then stored in three tables, one after the other.
AddProcess(k) ==
    /\ hpc = "idle"
    /\ ProcessStarts(k) \/ ProcessIsListed(k)
    /\ IF instanceData[k] # Absent
       THEN UNCHANGED <<callback, tables>>
       ELSE \E o \in pool :
               /\ pool' = pool \ {o}
               /\ info' = [info EXCEPT ![o] = [key |-> k, pid |-> PidOf[k]]]
               /\ hpc' = "storeInstance" /\ hkey' = k /\ hobj' = o
               /\ UNCHANGED <<htid, hgen, instanceData, terminatedProcesses,
                    pidToCurrentStartKey, pidToCurrentProcessData,
                    tidToCurrentProcessData, terminatedThreads>>
    /\ UNCHANGED <<scrapeCounter, cleaner>>

StoreInstance ==
    /\ hpc = "storeInstance"
    /\ instanceData' = [instanceData EXCEPT ![hkey] = hobj]
    /\ hpc' = "storeStartKey"
    /\ UNCHANGED <<terminatedProcesses, pidToCurrentStartKey,
         pidToCurrentProcessData, tidToCurrentProcessData, terminatedThreads,
         info, pool, scrapeCounter, hkey, htid, hobj, hgen, cleaner, system>>

StoreStartKey ==
    /\ hpc = "storeStartKey"
    /\ pidToCurrentStartKey' =
            [pidToCurrentStartKey EXCEPT ![PidOf[hkey]] = hkey]
    /\ hpc' = "storeProcessData"
    /\ UNCHANGED <<instanceData, terminatedProcesses, pidToCurrentProcessData,
         tidToCurrentProcessData, terminatedThreads, info, pool,
         scrapeCounter, hkey, htid, hobj, hgen, cleaner, system>>

StoreProcessData ==
    /\ hpc = "storeProcessData"
    /\ pidToCurrentProcessData' =
            [pidToCurrentProcessData EXCEPT ![PidOf[hkey]] = hobj]
    /\ HandlerDone
    /\ UNCHANGED <<instanceData, terminatedProcesses, pidToCurrentStartKey,
         tidToCurrentProcessData, terminatedThreads, info, pool,
         scrapeCounter, cleaner, system>>

\* MarkProcessForDeletion reads the scrape generation, looks the instance up
\* and, if it is tracked, records the generation in terminatedProcesses.
MarkProcessForDeletion(k) ==
    /\ hpc = "idle"
    /\ ProcessEnds(k)
    /\ hpc' = "findInstance" /\ hkey' = k /\ hgen' = scrapeCounter
    /\ UNCHANGED <<tables, scrapeCounter, htid, hobj, cleaner>>

FindInstance ==
    /\ hpc = "findInstance"
    /\ IF instanceData[hkey] = Absent
       THEN HandlerDone
       ELSE /\ hpc' = "storeTermination"
            /\ UNCHANGED <<hkey, htid, hobj, hgen>>
    /\ UNCHANGED <<tables, scrapeCounter, cleaner, system>>

StoreTermination ==
    /\ hpc = "storeTermination"
    /\ terminatedProcesses' = [terminatedProcesses EXCEPT ![hkey] = hgen]
    /\ HandlerDone
    /\ UNCHANGED <<instanceData, pidToCurrentStartKey, pidToCurrentProcessData,
         tidToCurrentProcessData, terminatedThreads, info, pool,
         scrapeCounter, cleaner, system>>

\* AddThread resolves the pid of the event.  The thread goes to the object
\* found unless that process was created after the thread (its pid was
\* reused), and to the unknown process when there is none.
ParentOf_Unchecked(k) ==   \* mutant: the timestamps are not compared
    LET o == pidToCurrentProcessData[PidOf[k]]
    IN  IF o # Absent THEN o ELSE instanceData[UnknownProcessStartKey]

ParentOf_Younger(k) ==   \* mutant: the timestamp comparison is strict
    LET o == pidToCurrentProcessData[PidOf[k]]
    IN  IF o # Absent /\ info[o].key < k THEN o
        ELSE instanceData[UnknownProcessStartKey]

ParentOf(k) ==
    LET o == pidToCurrentProcessData[PidOf[k]]
    IN  IF o # Absent /\ info[o].key <= k THEN o
        ELSE instanceData[UnknownProcessStartKey]

AddThread(t, k) ==
    /\ hpc = "idle"
    /\ ThreadIsListed(t, k)
    /\ hpc' = "storeThread" /\ htid' = t /\ hobj' = ParentOf(k)
    /\ UNCHANGED <<tables, scrapeCounter, hkey, hgen, cleaner>>

StoreThread ==
    /\ hpc = "storeThread"
    /\ tidToCurrentProcessData' =
            [tidToCurrentProcessData EXCEPT ![htid] = hobj]
    /\ HandlerDone
    /\ UNCHANGED <<instanceData, terminatedProcesses, pidToCurrentStartKey,
         pidToCurrentProcessData, terminatedThreads, info, pool,
         scrapeCounter, cleaner, system>>

\* MarkThreadForDeletion reads the generation, then the object of the tid,
\* and records the generation with the start key the object carries.
\* Following a nil pointer ends the program.
MarkThreadForDeletion(t) ==
    /\ hpc = "idle"
    /\ ThreadEnds(t)
    /\ hpc' = "findThread" /\ htid' = t /\ hgen' = scrapeCounter
    /\ UNCHANGED <<tables, scrapeCounter, hkey, hobj, cleaner>>

FindThread ==
    /\ hpc = "findThread"
    /\ LET o == tidToCurrentProcessData[htid]
       IN  IF o = Absent THEN HandlerDone
           ELSE /\ hpc' = IF o = Nil THEN "panic" ELSE "storeRecord"
                /\ hkey' = IF o = Nil THEN Absent ELSE info[o].key
                /\ UNCHANGED <<htid, hobj, hgen>>
    /\ UNCHANGED <<tables, scrapeCounter, cleaner, system>>

StoreRecord ==
    /\ hpc = "storeRecord"
    /\ terminatedThreads' = [terminatedThreads EXCEPT
            ![htid] = [gen |-> hgen, key |-> hkey]]
    /\ HandlerDone
    /\ UNCHANGED <<instanceData, terminatedProcesses, pidToCurrentStartKey,
         pidToCurrentProcessData, tidToCurrentProcessData, info, pool,
         scrapeCounter, cleaner, system>>

\* The stream drops an event: the system moves on and no handler runs.
LoseEvent(k) ==
    /\ workload.lost
    /\ hpc = "idle"
    /\ ProcessStarts(k) \/ ProcessEnds(k)
    /\ UNCHANGED <<tables, scrapeCounter, callback, cleaner>>

-----------------------------------------------------------------------------
(* The cleaner: PostScrapeCleanup.                                         *)

\* A panic in the callback ends the program, and the cleaner with it.
CleanerAt(pc) == cpc = pc /\ hpc # "panic"

CleanerDone ==
    /\ cpc' = "idle" /\ cleanupThreshold' = 0
    /\ keysToVisit' = {} /\ tidsToVisit' = {}
    /\ procsToClean' = {} /\ tidsForDeletion' = {}
    /\ threadsToClean' = [t \in Tids |-> Absent]
    /\ curKey' = Absent /\ curTid' = Absent /\ victim' = Absent

\* The threshold of calculateAdaptiveCleanupThreshold is 0, the new counter
\* less a grace period of one generation or more, or the counter itself
\* after a stall: which one depends on the clock (module GracePeriod).
PostScrapeCleanup ==
    /\ CleanerAt("idle")
    /\ scrapeCounter < workload.scrapes
    /\ scrapeCounter' = scrapeCounter + 1
    /\ cleanupThreshold' \in 0 .. scrapeCounter + 1
    /\ cpc' = "findProcs" /\ keysToVisit' = Keys
    /\ UNCHANGED <<tables, callback, tidsToVisit, procsToClean,
         tidsForDeletion, threadsToClean, curKey, curTid, victim, system>>

\* The Range over terminatedProcesses.
Expired_OneEarly(gen) ==   \* mutant: <= for <
    gen # Absent /\ gen <= cleanupThreshold

Expired(gen) == gen # Absent /\ gen < cleanupThreshold

VisitTermination(k) ==
    /\ CleanerAt("findProcs") /\ k \in keysToVisit
    /\ keysToVisit' = keysToVisit \ {k}
    /\ IF Expired(terminatedProcesses[k])
       THEN /\ procsToClean' = procsToClean \union {k}
            /\ cpc' = "dropTermination" /\ curKey' = k
       ELSE UNCHANGED <<procsToClean, cpc, curKey>>
    /\ UNCHANGED <<tables, scrapeCounter, callback, cleanupThreshold,
         tidsToVisit, tidsForDeletion, threadsToClean, curTid, victim, system>>

DropTermination ==
    /\ CleanerAt("dropTermination")
    /\ terminatedProcesses' = [terminatedProcesses EXCEPT ![curKey] = Absent]
    /\ cpc' = "findProcs" /\ curKey' = Absent
    /\ UNCHANGED <<instanceData, pidToCurrentStartKey, pidToCurrentProcessData,
         tidToCurrentProcessData, terminatedThreads, info, pool,
         scrapeCounter, callback, cleanupThreshold, keysToVisit, tidsToVisit,
         procsToClean, tidsForDeletion, threadsToClean, curTid, victim, system>>

ProcsFound_NoThreads ==   \* mutant: processes go before their threads
    /\ CleanerAt("findProcs") /\ keysToVisit = {}
    /\ cpc' = IF procsToClean = {} THEN "findRecords" ELSE "removeProcs"
    /\ tidsToVisit' = Tids
    /\ UNCHANGED <<tables, scrapeCounter, callback, cleanupThreshold,
         keysToVisit, procsToClean, tidsForDeletion, threadsToClean, curKey,
         curTid, victim, system>>

ProcsFound ==
    /\ CleanerAt("findProcs") /\ keysToVisit = {}
    /\ cpc' = IF procsToClean = {} THEN "findRecords" ELSE "findThreads"
    /\ tidsToVisit' = Tids
    /\ UNCHANGED <<tables, scrapeCounter, callback, cleanupThreshold,
         keysToVisit, procsToClean, tidsForDeletion, threadsToClean, curKey,
         curTid, victim, system>>

\* cleanupThreadsForTerminatedProcesses: the Range, then the deletions.  A
\* nil object makes the Range panic; the HTTP server recovers, the deferred
\* Unlock runs, and what was found so far is forgotten.
VisitThread(t) ==
    /\ CleanerAt("findThreads") /\ t \in tidsToVisit
    /\ LET o == tidToCurrentProcessData[t]
       IN  IF o = Nil THEN CleanerDone
           ELSE /\ tidsToVisit' = tidsToVisit \ {t}
                /\ tidsForDeletion' =
                       IF o # Absent /\ info[o].key \in procsToClean
                       THEN tidsForDeletion \union {t} ELSE tidsForDeletion
                /\ UNCHANGED <<cpc, cleanupThreshold, keysToVisit,
                     procsToClean, threadsToClean, curKey, curTid, victim>>
    /\ UNCHANGED <<tables, scrapeCounter, callback, system>>

ThreadsFound ==
    /\ CleanerAt("findThreads") /\ tidsToVisit = {}
    /\ cpc' = "dropThreads"
    /\ UNCHANGED <<tables, scrapeCounter, callback, cleanupThreshold,
         keysToVisit, tidsToVisit, procsToClean, tidsForDeletion,
         threadsToClean, curKey, curTid, victim, system>>

DropThread(t) ==
    /\ CleanerAt("dropThreads") /\ t \in tidsForDeletion
    /\ tidToCurrentProcessData' =
            [tidToCurrentProcessData EXCEPT ![t] = Absent]
    /\ tidsForDeletion' = tidsForDeletion \ {t}
    /\ cpc' = "dropRecord" /\ curTid' = t
    /\ UNCHANGED <<instanceData, terminatedProcesses, pidToCurrentStartKey,
         pidToCurrentProcessData, terminatedThreads, info, pool,
         scrapeCounter, callback, cleanupThreshold, keysToVisit, tidsToVisit,
         procsToClean, threadsToClean, curKey, victim, system>>

DropRecord ==
    /\ CleanerAt("dropRecord")
    /\ terminatedThreads' = [terminatedThreads EXCEPT ![curTid] = Absent]
    /\ cpc' = "dropThreads" /\ curTid' = Absent
    /\ UNCHANGED <<instanceData, terminatedProcesses, pidToCurrentStartKey,
         pidToCurrentProcessData, tidToCurrentProcessData, info, pool,
         scrapeCounter, callback, cleanupThreshold, keysToVisit, tidsToVisit,
         procsToClean, tidsForDeletion, threadsToClean, curKey, victim, system>>

ThreadsDropped ==
    /\ CleanerAt("dropThreads") /\ tidsForDeletion = {}
    /\ cpc' = "removeProcs"
    /\ UNCHANGED <<tables, scrapeCounter, callback, cleanupThreshold,
         keysToVisit, tidsToVisit, procsToClean, tidsForDeletion,
         threadsToClean, curKey, curTid, victim, system>>

\* cleanupProcesses: LoadAndDelete, two conditional Updates, Put.
InstancesWithout_Loaded(k) == instanceData   \* mutant: Load, no Delete

InstancesWithout(k) == [instanceData EXCEPT ![k] = Absent]

RemoveInstance(k) ==
    /\ CleanerAt("removeProcs") /\ k \in procsToClean
    /\ procsToClean' = procsToClean \ {k}
    /\ instanceData' = InstancesWithout(k)
    /\ IF instanceData[k] = Absent
       THEN UNCHANGED <<cpc, curKey, victim>>
       ELSE cpc' = "unmapStartKey" /\ curKey' = k /\ victim' = instanceData[k]
    /\ UNCHANGED <<terminatedProcesses, pidToCurrentStartKey,
         pidToCurrentProcessData, tidToCurrentProcessData, terminatedThreads,
         info, pool, scrapeCounter, callback, cleanupThreshold, keysToVisit,
         tidsToVisit, tidsForDeletion, threadsToClean, curTid, system>>

\* Update deletes the entry of this start key and stores back what it was
\* given in every other case: the zero key when there was no entry.
StartKeyAfter_Always(current) == Absent   \* mutant: unconditional delete

StartKeyAfter(current) ==
    IF current = curKey THEN Absent
    ELSE IF current = Absent THEN 0 ELSE current

UnmapStartKey ==
    /\ CleanerAt("unmapStartKey")
    /\ pidToCurrentStartKey' = [pidToCurrentStartKey EXCEPT
            ![info[victim].pid] = StartKeyAfter(@)]
    /\ cpc' = "unmapProcessData"
    /\ UNCHANGED <<instanceData, terminatedProcesses, pidToCurrentProcessData,
         tidToCurrentProcessData, terminatedThreads, info, pool,
         scrapeCounter, callback, cleanupThreshold, keysToVisit, tidsToVisit,
         procsToClean, tidsForDeletion, threadsToClean, curKey, curTid, victim,
         system>>

\* Update keeps the entry of another instance and deletes every other one.
ProcessDataAfter_Kept(current) == current   \* mutant: nothing is unmapped

ProcessDataAfter(current) ==
    IF current # Absent /\ info[current].key # curKey THEN current ELSE Absent

UnmapProcessData ==
    /\ CleanerAt("unmapProcessData")
    /\ pidToCurrentProcessData' = [pidToCurrentProcessData EXCEPT
            ![info[victim].pid] = ProcessDataAfter(@)]
    /\ cpc' = "recycle"
    /\ UNCHANGED <<instanceData, terminatedProcesses, pidToCurrentStartKey,
         tidToCurrentProcessData, terminatedThreads, info, pool,
         scrapeCounter, callback, cleanupThreshold, keysToVisit, tidsToVisit,
         procsToClean, tidsForDeletion, threadsToClean, curKey, curTid, victim,
         system>>

Recycle ==
    /\ CleanerAt("recycle")
    /\ pool' = pool \union {victim}
    /\ cpc' = "removeProcs" /\ curKey' = Absent /\ victim' = Absent
    /\ UNCHANGED <<instanceData, terminatedProcesses, pidToCurrentStartKey,
         pidToCurrentProcessData, tidToCurrentProcessData, terminatedThreads,
         info, scrapeCounter, callback, cleanupThreshold, keysToVisit,
         tidsToVisit, procsToClean, tidsForDeletion, threadsToClean, curTid,
         system>>

ProcsRemoved ==
    /\ CleanerAt("removeProcs") /\ procsToClean = {}
    /\ cpc' = "findRecords" /\ tidsToVisit' = Tids
    /\ UNCHANGED <<tables, scrapeCounter, callback, cleanupThreshold,
         keysToVisit, procsToClean, tidsForDeletion, threadsToClean, curKey,
         curTid, victim, system>>

\* ThreadManager.cleanupTerminated: the Range over the records, then one
\* conditional Update for each expired one.
VisitRecord(t) ==
    /\ CleanerAt("findRecords") /\ t \in tidsToVisit
    /\ tidsToVisit' = tidsToVisit \ {t}
    /\ LET r == terminatedThreads[t]
       IN  IF r # Absent /\ Expired(r.gen)
           THEN /\ threadsToClean' = [threadsToClean EXCEPT ![t] = r.key]
                /\ cpc' = "dropExpired" /\ curTid' = t
           ELSE UNCHANGED <<threadsToClean, cpc, curTid>>
    /\ UNCHANGED <<tables, scrapeCounter, callback, cleanupThreshold,
         keysToVisit, procsToClean, tidsForDeletion, curKey, victim, system>>

DropExpired ==
    /\ CleanerAt("dropExpired")
    /\ terminatedThreads' = [terminatedThreads EXCEPT ![curTid] = Absent]
    /\ cpc' = "findRecords" /\ curTid' = Absent
    /\ UNCHANGED <<instanceData, terminatedProcesses, pidToCurrentStartKey,
         pidToCurrentProcessData, tidToCurrentProcessData, info, pool,
         scrapeCounter, callback, cleanupThreshold, keysToVisit, tidsToVisit,
         procsToClean, tidsForDeletion, threadsToClean, curKey, victim, system>>

RecordsFound ==
    /\ CleanerAt("findRecords") /\ tidsToVisit = {}
    /\ cpc' = "unmapThreads"
    /\ UNCHANGED <<tables, scrapeCounter, callback, cleanupThreshold,
         keysToVisit, tidsToVisit, procsToClean, tidsForDeletion,
         threadsToClean, curKey, curTid, victim, system>>

\* The mapping of an absent tid is stored back as nil.  A tid that has a nil
\* one, and a record that the callback stored late, makes the closure panic, as
\* in VisitThread.
MappingAfter(current, key) ==
    IF current = Absent THEN Nil
    ELSE IF info[current].key = key THEN Absent ELSE current

UnmapThread(t) ==
    /\ CleanerAt("unmapThreads") /\ threadsToClean[t] # Absent
    /\ IF tidToCurrentProcessData[t] = Nil
       THEN CleanerDone /\ UNCHANGED tidToCurrentProcessData
       ELSE /\ tidToCurrentProcessData' = [tidToCurrentProcessData EXCEPT
                    ![t] = MappingAfter(@, threadsToClean[t])]
            /\ threadsToClean' = [threadsToClean EXCEPT ![t] = Absent]
            /\ UNCHANGED <<cpc, cleanupThreshold, keysToVisit, tidsToVisit,
                 procsToClean, tidsForDeletion, curKey, curTid, victim>>
    /\ UNCHANGED <<instanceData, terminatedProcesses, pidToCurrentStartKey,
         pidToCurrentProcessData, terminatedThreads, info, pool,
         scrapeCounter, callback, system>>

CleanupEnds ==
    /\ CleanerAt("unmapThreads") /\ \A t \in Tids : threadsToClean[t] = Absent
    /\ CleanerDone
    /\ UNCHANGED <<tables, scrapeCounter, callback, system>>

-----------------------------------------------------------------------------
Callback ==
    \/ \E k \in Keys : AddProcess(k) \/ MarkProcessForDeletion(k)
                       \/ LoseEvent(k)
    \/ \E t \in Tids, k \in Keys : AddThread(t, k)
    \/ \E t \in Tids : MarkThreadForDeletion(t)
    \/ StoreInstance \/ StoreStartKey \/ StoreProcessData
    \/ FindInstance \/ StoreTermination
    \/ StoreThread \/ FindThread \/ StoreRecord

Cleaner ==
    \/ PostScrapeCleanup
    \/ \E k \in Keys : VisitTermination(k) \/ RemoveInstance(k)
    \/ \E t \in Tids : VisitThread(t) \/ DropThread(t) \/ VisitRecord(t)
                       \/ UnmapThread(t)
    \/ DropTermination \/ ProcsFound \/ ThreadsFound \/ DropRecord
    \/ ThreadsDropped \/ UnmapStartKey \/ UnmapProcessData \/ Recycle
    \/ ProcsRemoved \/ DropExpired \/ RecordsFound \/ CleanupEnds

\* The callback waits for an event and the cleaner for a scrape, or a panic
\* in the callback has ended the program.
Waiting ==
    /\ hpc = "panic" \/ (hpc = "idle" /\ cpc = "idle")
    /\ UNCHANGED vars

Next == Callback \/ Cleaner \/ Waiting

Spec == Init /\ [][Next]_vars

-----------------------------------------------------------------------------
(* Properties.                                                             *)

\* Every table, pool and local holds values of its type; in particular no
\* table of processes ever holds a nil object, which the Update closures of
\* cleanupProcesses could store.
TypeOK ==
    /\ instanceData \in [AllKeys -> Objs \union {Absent}]
    /\ terminatedProcesses \in [Keys -> Nat \union {Absent}]
    /\ pidToCurrentStartKey \in [Pids -> Keys \union {0, Absent}]
    /\ pidToCurrentProcessData \in [Pids -> Objs \union {Absent}]
    /\ tidToCurrentProcessData \in [Tids -> Objs \union {Absent, Nil}]
    /\ terminatedThreads \in [Tids -> Record \union {Absent}]
    /\ info \in [Objs -> [key : AllKeys \union {0}, pid : Pids \union {Absent}]]
    /\ pool \subseteq Objs
    /\ scrapeCounter \in Nat
    /\ hpc \in {"idle", "storeInstance", "storeStartKey", "storeProcessData",
                "findInstance", "storeTermination", "storeThread",
                "findThread", "storeRecord", "panic"}
    /\ hkey \in AllKeys \union {Absent}
    /\ htid \in Tids \union {Absent}
    /\ hobj \in Objs \union {Absent}
    /\ hgen \in Nat
    /\ cpc \in {"idle", "findProcs", "dropTermination", "findThreads",
                "dropThreads", "dropRecord", "removeProcs", "unmapStartKey",
                "unmapProcessData", "recycle", "findRecords", "dropExpired",
                "unmapThreads"}
    /\ cleanupThreshold \in Nat
    /\ keysToVisit \subseteq Keys /\ tidsToVisit \subseteq Tids
    /\ procsToClean \subseteq Keys /\ tidsForDeletion \subseteq Tids
    /\ threadsToClean \in [Tids -> AllKeys \union {Absent}]
    /\ curKey \in Keys \union {Absent}
    /\ curTid \in Tids \union {Absent}
    /\ victim \in Objs \union {Absent}
    /\ phase \in [Keys -> {"new", "live", "ended"}]
    /\ owner \in [Tids -> Keys \union {Absent}]
    /\ endedAt \in [Keys -> Nat \union {Absent}]
    /\ workload \in Workloads

\* An object in the instance table carries the start key it is stored under
\* and is in no other hands: not in the pool, not about to be recycled, not
\* being filled for another process (AddProcess, cleanupProcesses).
SoleOwner ==
    \A k \in AllKeys : instanceData[k] # Absent =>
        /\ info[instanceData[k]].key = k
        /\ instanceData[k] \notin pool
        /\ instanceData[k] # victim
        /\ hpc = "storeInstance" => instanceData[k] # hobj

\* An event attributed by pid never reaches a recycled object: whatever the
\* pid index holds is the tracked instance of a process with that pid, or the
\* one the cleaner is about to unmap (GetCurrentProcessDataByPID).
PidIndexSound ==
    \A p \in Pids :
        LET o == pidToCurrentProcessData[p]
        IN  o # Absent =>
              /\ info[o].key \in Keys /\ info[o].pid = p
              /\ \/ instanceData[info[o].key] = o
                 \/ o = victim /\ cpc \in {"unmapStartKey", "unmapProcessData"}

\* The events of the kernel session arrive in order and none is lost.
InOrder == ~workload.late /\ ~workload.lost

\* A process that is running, and whose start has been handled, is tracked
\* and is what both pid indexes lead to, however its pid was used before and
\* wherever the cleaner is (cleanupProcesses against AddProcess).
LiveProcessIndexed ==
    InOrder => \A k \in Keys : phase[k] = "live" /\ hkey # k =>
        /\ instanceData[k] # Absent
        /\ pidToCurrentStartKey[PidOf[k]] = k
        /\ pidToCurrentProcessData[PidOf[k]] = instanceData[k]

\* A running thread is never attributed to a process other than its own: its
\* tid leads to its process's instance, or to nothing (AddThread,
\* GetCurrentProcessDataByThread).  When its start arrives late, its pid may
\* lead to the next process of that pid or to none: whatever the cleaner does
\* before the thread is stored, it is not given to a process that started
\* after its own.
ThreadNeverMisattributed ==
    /\ InOrder => \A t \in Tids : owner[t] # Absent /\ htid # t =>
          tidToCurrentProcessData[t] \in {Absent, Nil, instanceData[owner[t]]}
    /\ hpc = "storeThread" => info[hobj].key <= owner[htid]

\* "Clean up all threads that belonged to the terminated processes. This must
\* happen BEFORE the process data is deleted" (PostScrapeCleanup): no tid
\* leads to an object that has been given back to the pool.
NoThreadToRecycled ==
    InOrder => \A t \in Tids : tidToCurrentProcessData[t] \notin pool

\* A process leaves the table only after it ended, and only in a cleanup
\* whose threshold is past the generation in which it ended.
RemovedOnlyAfterGrace ==
    [][\A k \in AllKeys :
          instanceData[k] # Absent /\ instanceData'[k] = Absent =>
              /\ k \in Keys /\ phase[k] = "ended"
              /\ endedAt[k] < cleanupThreshold]_vars

\* What readers of the tables see of this: the keys that the objects in the
\* tables carry.  The unknown process is always there and not part of it.
TrackedKeys ==
    {info[instanceData[k]].key : k \in {j \in Keys : instanceData[j] # Absent}}

KeyOfPid ==
    [p \in Pids |-> IF pidToCurrentProcessData[p] = Absent THEN Absent
                    ELSE info[pidToCurrentProcessData[p]].key]

Lifecycle == INSTANCE ProcessLifecycle WITH
    None <- Absent, endedIn <- endedAt, generation <- scrapeCounter,
    tracked <- TrackedKeys, answer <- KeyOfPid

\* Pooled objects, four tables written one after the other and a cleaner that
\* overtakes the callback are invisible to a reader: he sees processes that
\* are tracked until their grace period is over, and a pid leads to the same
\* process until then or until the pid is taken (ProcessManager).
ImplementsLifecycle == Lifecycle!Spec

\* "If the TID has been reused [...] we will not touch the new mapping"
\* (cleanupTerminated): a tid without a mapping is not given a nil one.
NoNilThread == \A t \in Tids : tidToCurrentProcessData[t] # Nil

-----------------------------------------------------------------------------
(* The inductive invariant behind SoleOwner, PidIndexSound and             *)
(* RemovedOnlyAfterGrace, for every event stream.                          *)

\* No cleanup will take k: its end has not been recorded.
Unmarked(k) == terminatedProcesses[k] = Absent /\ k \notin procsToClean

\* Between LoadAndDelete and Put the cleaner alone holds the victim.
Unmapping == cpc \in {"unmapStartKey", "unmapProcessData", "recycle"}

HandlerLocals ==
    /\ hpc \in {"storeInstance", "storeStartKey", "storeProcessData",
                "findInstance", "storeTermination"} =>
         hkey \in Keys /\ Unmarked(hkey)
    /\ hpc = "storeInstance" =>
         /\ hobj \in Objs
         /\ info[hobj] = [key |-> hkey, pid |-> PidOf[hkey]]
         /\ hobj \notin pool /\ hobj # victim
         /\ instanceData[hkey] = Absent
         /\ phase[hkey] # "new"
         /\ \A k \in AllKeys : instanceData[k] # hobj
    /\ hpc \in {"storeStartKey", "storeProcessData"} =>
         hobj \in Objs /\ instanceData[hkey] = hobj
    /\ hpc \in {"findInstance", "storeTermination"} =>
         phase[hkey] = "ended" /\ hgen = endedAt[hkey]
    /\ hpc = "storeTermination" => instanceData[hkey] # Absent
    /\ hpc \in {"storeThread", "findThread", "storeRecord"} => htid \in Tids
    /\ hpc = "storeThread" =>
         /\ hobj \in Objs /\ info[hobj].key # 0
         /\ owner[htid] \in Keys /\ info[hobj].key <= owner[htid]
    /\ hpc = "storeRecord" => hkey \in AllKeys

CleanerLocals ==
    /\ cleanupThreshold <= scrapeCounter
    /\ cpc = "idle" => procsToClean = {}
    /\ cpc = "dropTermination" => curKey \in procsToClean
    /\ cpc \in {"dropRecord", "dropExpired"} => curTid \in Tids
    /\ ~Unmapping => victim = Absent
    /\ Unmapping =>
         /\ curKey \in Keys /\ victim \in Objs
         /\ phase[curKey] = "ended" /\ endedAt[curKey] \in Nat
         /\ endedAt[curKey] < cleanupThreshold
         /\ info[victim] = [key |-> curKey, pid |-> PidOf[curKey]]
         /\ victim \notin pool

Marks ==
    \A k \in Keys :
        /\ phase[k] # "ended" => Unmarked(k)
        /\ terminatedProcesses[k] # Absent =>
             instanceData[k] # Absent /\ terminatedProcesses[k] = endedAt[k]
        /\ k \in procsToClean =>
             /\ instanceData[k] # Absent
             /\ endedAt[k] \in Nat /\ endedAt[k] < cleanupThreshold
             /\ terminatedProcesses[k] # Absent =>
                  cpc = "dropTermination" /\ curKey = k

Tables ==
    /\ instanceData[UnknownProcessStartKey] = UnknownObj
    /\ \A k \in AllKeys : instanceData[k] # Absent =>
         /\ info[instanceData[k]].key = k
         /\ k \in Keys => info[instanceData[k]].pid = PidOf[k]
         /\ instanceData[k] \notin pool /\ instanceData[k] # victim
    /\ \A t \in Tids : tidToCurrentProcessData[t] \in Objs =>
         info[tidToCurrentProcessData[t]].key # 0

IndInv == TypeOK /\ HandlerLocals /\ CleanerLocals /\ Marks /\ Tables
          /\ PidIndexSound

-----------------------------------------------------------------------------
(* The inductive invariant behind LiveProcessIndexed,                      *)
(* ThreadNeverMisattributed and NoThreadToRecycled, for every event stream *)
(* in order.                                                               *)

Storing(k) ==
    hpc \in {"storeInstance", "storeStartKey", "storeProcessData"} /\ hkey = k

\* What an ordered stream guarantees: one running process per pid, which is
\* the one that the callback stores, and threads of running processes only.
StreamOrdered ==
    /\ \A j, k \in Keys :
          PidOf[j] = PidOf[k] /\ j < k /\ phase[k] # "new"
              => phase[j] = "ended"
    /\ \A k \in Keys : instanceData[k] # Absent => phase[k] # "new"
    /\ \A k \in Keys : Storing(k) => phase[k] = "live"
    /\ \A t \in Tids : owner[t] # Absent => phase[owner[t]] = "live"

LiveIndexed ==
    /\ \A k \in Keys : phase[k] = "live" /\ ~Storing(k) =>
          /\ instanceData[k] # Absent
          /\ pidToCurrentStartKey[PidOf[k]] = k
          /\ pidToCurrentProcessData[PidOf[k]] = instanceData[k]
    /\ hpc = "storeProcessData" => pidToCurrentStartKey[PidOf[hkey]] = hkey

ThreadsAttributed ==
    /\ hpc = "storeThread" =>
          owner[htid] # Absent /\ hobj = instanceData[owner[htid]]
    /\ \A t \in Tids :
          owner[t] # Absent /\ ~(hpc = "storeThread" /\ htid = t) =>
              tidToCurrentProcessData[t] \in
                  {Absent, Nil, instanceData[owner[t]]}

\* A thread of a process that the cleanup has chosen.
OfChosen(t) ==
    /\ tidToCurrentProcessData[t] \in Objs
    /\ info[tidToCurrentProcessData[t]].key \in procsToClean

\* The Range finds every thread of the chosen processes, for they get no new
\* ones, and all of them are dropped before the first process is.
ThreadsGoFirst ==
    /\ \A t \in Tids : tidToCurrentProcessData[t] \notin pool
    /\ cpc \in {"findThreads", "dropThreads", "dropRecord"} =>
          \A t \in Tids : OfChosen(t) =>
              t \in tidsForDeletion \/ (cpc = "findThreads" /\ t \in tidsToVisit)
    /\ cpc = "removeProcs" \/ Unmapping => \A t \in Tids : ~OfChosen(t)
    /\ Unmapping => \A t \in Tids : tidToCurrentProcessData[t] # victim

OrderInv ==
    StreamOrdered /\ LiveIndexed /\ ThreadsAttributed /\ ThreadsGoFirst
OrderedInv == InOrder => OrderInv
=============================================================================
