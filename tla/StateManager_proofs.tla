------------------------ MODULE StateManager_proofs ------------------------
(***************************************************************************)
(* The inductive invariant IndInv of module StateManager, for any numbers  *)
(* of processes, threads and objects, any bound on the scrapes and any     *)
(* event stream.  One lemma per action; StepInv joins them.                *)
(***************************************************************************)
EXTENDS StateManager, TLAPS

USE KeysAssumption, ObjsAssumption, BoundsAssumption
    DEF UnknownProcessStartKey, AllKeys, Record, tables, callback, cleaner,
        system, vars, IndInv, TypeOK, HandlerLocals, CleanerLocals, Marks,
        Tables, PidIndexSound, Unmarked, Unmapping

\* The tables newProcessManager and newThreadManager build.
LEMMA InitInv == ASSUME Init PROVE IndInv
<1>1. TypeOK
    BY DEF Init
<1>2. HandlerLocals /\ CleanerLocals
    BY DEF Init
<1>3. Marks
    BY DEF Init
<1>4. Tables
    BY DEF Init
<1>5. PidIndexSound
    BY DEF Init
<1>6. QED
    BY <1>1, <1>2, <1>3, <1>4, <1>5

\* An object leaves the pool for the callback, which alone holds it.
LEMMA AddProcessInv ==
    ASSUME IndInv, NEW k \in Keys, AddProcess(k)
    PROVE  IndInv'
<1>1. TypeOK'
    <2>1. phase' \in [Keys -> {"new", "live", "ended"}]
        BY DEF AddProcess, ProcessStarts, ProcessIsListed
    <2>2. UNCHANGED <<owner, endedAt, workload>>
        BY DEF AddProcess, ProcessStarts, ProcessIsListed
    <2>3. CASE instanceData[k] # Absent
        BY <2>1, <2>2, <2>3 DEF AddProcess
    <2>4. CASE instanceData[k] = Absent
        <3>1. PICK o \in pool :
                /\ pool' = pool \ {o} /\ hobj' = o
                /\ info' = [info EXCEPT ![o] = [key |-> k, pid |-> PidOf[k]]]
            BY <2>4 DEF AddProcess
        <3>2. info' \in [Objs -> [key : AllKeys \union {0},
                                  pid : Pids \union {Absent}]]
            BY <3>1
        <3>3. pool' \subseteq Objs /\ hobj' \in Objs
            BY <3>1
        <3>4. QED
            BY <2>1, <2>2, <2>4, <3>2, <3>3 DEF AddProcess
    <2>5. QED
        BY <2>3, <2>4
<1>2. HandlerLocals'
    BY DEF AddProcess, ProcessStarts, ProcessIsListed
<1>3. CleanerLocals'
    BY DEF AddProcess, ProcessStarts, ProcessIsListed
<1>4. Marks'
    BY DEF AddProcess, ProcessStarts, ProcessIsListed
<1>5. Tables' /\ PidIndexSound'
    <2>1. CASE instanceData[k] # Absent
        BY <2>1 DEF AddProcess, ProcessStarts, ProcessIsListed
    <2>2. CASE instanceData[k] = Absent
        <3>1. PICK o \in pool :
                info' = [info EXCEPT ![o] = [key |-> k, pid |-> PidOf[k]]]
                /\ pool' = pool \ {o}
            BY <2>2 DEF AddProcess
        <3>2. UNCHANGED <<instanceData, pidToCurrentProcessData,
                          tidToCurrentProcessData, cpc, victim>>
            BY <2>2 DEF AddProcess
        <3>3. \A q \in Objs : q # o => info'[q] = info[q]
            BY <3>1
        <3>4. ASSUME NEW j \in AllKeys, instanceData[j] # Absent
              PROVE  /\ info'[instanceData[j]] = info[instanceData[j]]
                     /\ instanceData[j] \notin pool'
            BY <3>1, <3>3, <3>4
        <3>5. ASSUME NEW t \in Tids, tidToCurrentProcessData[t] \in Objs
              PROVE  info'[tidToCurrentProcessData[t]].key # 0
            BY <3>1, <3>3, <3>5
        <3>6. Tables'
            <4>1. instanceData'[UnknownProcessStartKey] = UnknownObj
                BY <3>2
            <4>2. ASSUME NEW j \in AllKeys, instanceData'[j] # Absent
                  PROVE  /\ info'[instanceData'[j]].key = j
                         /\ j \in Keys => info'[instanceData'[j]].pid = PidOf[j]
                         /\ instanceData'[j] \notin pool'
                         /\ instanceData'[j] # victim'
                <5>1. instanceData[j] # Absent
                    BY <3>2, <4>2
                <5>2. /\ info[instanceData[j]].key = j
                      /\ j \in Keys => info[instanceData[j]].pid = PidOf[j]
                      /\ instanceData[j] # victim
                    BY <5>1
                <5>3. QED
                    BY <3>2, <3>4, <5>1, <5>2
            <4>3. ASSUME NEW t \in Tids, tidToCurrentProcessData'[t] \in Objs
                  PROVE  info'[tidToCurrentProcessData'[t]].key # 0
                BY <3>2, <3>5, <4>3
            <4>4. QED
                BY <4>1, <4>2, <4>3
        <3>7. ASSUME NEW p \in Pids, pidToCurrentProcessData[p] # Absent
              PROVE  info'[pidToCurrentProcessData[p]]
                       = info[pidToCurrentProcessData[p]]
            <4> DEFINE q == pidToCurrentProcessData[p]
            <4>1. q \in Objs \ pool
                <5>1. CASE instanceData[info[q].key] = q
                    <6>1. info[q].key \in Keys /\ q \in Objs
                        BY <3>7
                    <6>2. PICK j \in Keys : instanceData[j] = q
                        BY <5>1, <6>1
                    <6>3. instanceData[j] # Absent
                        BY <6>1, <6>2
                    <6>4. instanceData[j] \notin pool
                        BY <6>3
                    <6>5. QED
                        BY <6>1, <6>2, <6>4
                <5>2. CASE q = victim /\ Unmapping
                    BY <3>7, <5>2
                <5>3. QED
                    BY <3>7, <5>1, <5>2
            <4>2. QED
                BY <4>1, <3>1, <3>3
        <3>8. PidIndexSound'
            BY <3>2, <3>7
        <3>9. QED
            BY <3>6, <3>8
    <2>3. QED
        BY <2>1, <2>2
<1>6. QED
    BY <1>1, <1>2, <1>3, <1>4, <1>5

\* The generation read is the one in which the process ended.
LEMMA MarkProcessForDeletionInv ==
    ASSUME IndInv, NEW k \in Keys, MarkProcessForDeletion(k)
    PROVE  IndInv'
<1>1. TypeOK'
    BY DEF MarkProcessForDeletion, ProcessEnds
<1>2. HandlerLocals'
    BY DEF MarkProcessForDeletion, ProcessEnds
<1>3. CleanerLocals'
    BY DEF MarkProcessForDeletion, ProcessEnds
<1>4. Marks'
    BY DEF MarkProcessForDeletion, ProcessEnds
<1>5. Tables'
    BY DEF MarkProcessForDeletion, ProcessEnds
<1>6. PidIndexSound'
    BY DEF MarkProcessForDeletion, ProcessEnds
<1>7. QED
    BY <1>1, <1>2, <1>3, <1>4, <1>5, <1>6

\* A lost start or end leaves the tables alone.
LEMMA LoseEventInv ==
    ASSUME IndInv, NEW k \in Keys, LoseEvent(k)
    PROVE  IndInv'
<1>1. TypeOK'
    <2>1. /\ phase' \in [Keys -> {"new", "live", "ended"}]
          /\ endedAt' \in [Keys -> Nat \union {Absent}]
          /\ UNCHANGED <<owner, workload>>
        <3>1. /\ phase \in [Keys -> {"new", "live", "ended"}]
              /\ endedAt \in [Keys -> Nat \union {Absent}] /\ scrapeCounter \in Nat
            OBVIOUS
        <3> HIDE DEF IndInv
        <3>2. CASE ProcessStarts(k)
            BY <3>1, <3>2 DEF ProcessStarts
        <3>3. CASE ProcessEnds(k)
            BY <3>1, <3>3 DEF ProcessEnds
        <3>4. QED
            BY <3>2, <3>3 DEF LoseEvent
    <2>2. QED
        BY <2>1 DEF LoseEvent
<1>2. HandlerLocals'
    BY DEF LoseEvent, ProcessStarts, ProcessEnds
<1>3. CleanerLocals'
    BY DEF LoseEvent, ProcessStarts, ProcessEnds
<1>4. Marks'
    BY DEF LoseEvent, ProcessStarts, ProcessEnds
<1>5. Tables'
    BY DEF LoseEvent, ProcessStarts, ProcessEnds
<1>6. PidIndexSound'
    BY DEF LoseEvent, ProcessStarts, ProcessEnds
<1>7. QED
    BY <1>1, <1>2, <1>3, <1>4, <1>5, <1>6

\* The object chosen for a thread was in the pid index or is the unknown
\* process: it has been filled.
LEMMA AddThreadInv ==
    ASSUME IndInv, NEW t \in Tids, NEW k \in Keys, AddThread(t, k)
    PROVE  IndInv'
<1>1. TypeOK'
    <2>1. ParentOf(k) \in Objs
        <3>1. instanceData[UnknownProcessStartKey] \in Objs
            OBVIOUS
        <3>2. pidToCurrentProcessData[PidOf[k]] \in Objs \union {Absent}
            OBVIOUS
        <3>3. QED
            BY <3>1, <3>2 DEF ParentOf
    <2>2. hobj' \in Objs /\ htid' \in Tids /\ hpc' = "storeThread"
        BY <2>1 DEF AddThread
    <2>3. owner' \in [Tids -> Keys \union {Absent}]
        BY DEF AddThread, ThreadIsListed
    <2>4. QED
        BY <2>2, <2>3 DEF AddThread, ThreadIsListed
<1>2. HandlerLocals'
    <2>1. owner'[t] = k /\ htid' = t /\ hobj' = ParentOf(k)
        BY DEF AddThread, ThreadIsListed
    <2>2. info[ParentOf(k)].key <= k
        BY DEF ParentOf
    <2>3. QED
        BY <2>1, <2>2 DEF AddThread, ThreadIsListed, ParentOf
<1>3. CleanerLocals'
    BY DEF AddThread, ThreadIsListed, ParentOf
<1>4. Marks'
    BY DEF AddThread, ThreadIsListed, ParentOf
<1>5. Tables'
    BY DEF AddThread, ThreadIsListed, ParentOf
<1>6. PidIndexSound'
    BY DEF AddThread, ThreadIsListed, ParentOf
<1>7. QED
    BY <1>1, <1>2, <1>3, <1>4, <1>5, <1>6

\* The end of a thread reads nothing but the counter.
LEMMA MarkThreadForDeletionInv ==
    ASSUME IndInv, NEW t \in Tids, MarkThreadForDeletion(t)
    PROVE  IndInv'
<1>1. TypeOK'
    BY DEF MarkThreadForDeletion, ThreadEnds
<1>2. HandlerLocals'
    BY DEF MarkThreadForDeletion, ThreadEnds
<1>3. CleanerLocals'
    BY DEF MarkThreadForDeletion, ThreadEnds
<1>4. Marks'
    BY DEF MarkThreadForDeletion, ThreadEnds
<1>5. Tables'
    BY DEF MarkThreadForDeletion, ThreadEnds
<1>6. PidIndexSound'
    BY DEF MarkThreadForDeletion, ThreadEnds
<1>7. QED
    BY <1>1, <1>2, <1>3, <1>4, <1>5, <1>6

\* The object in the callback's hands becomes the instance of its key.
LEMMA StoreInstanceInv ==
    ASSUME IndInv, StoreInstance
    PROVE  IndInv'
<1>1. TypeOK'
    BY DEF StoreInstance
<1>2. HandlerLocals'
    BY DEF StoreInstance
<1>3. CleanerLocals'
    BY DEF StoreInstance
<1>4. Marks'
    BY DEF StoreInstance
<1>5. Tables'
    BY DEF StoreInstance
<1>6. PidIndexSound'
    <2> SUFFICES ASSUME NEW p \in Pids, pidToCurrentProcessData[p] # Absent
                 PROVE  LET o == pidToCurrentProcessData[p]
                        IN  \/ instanceData'[info[o].key] = o
                            \/ o = victim /\ Unmapping /\ cpc # "recycle"
        BY DEF StoreInstance
    <2> DEFINE o == pidToCurrentProcessData[p]
    <2>1. CASE o = victim /\ Unmapping /\ cpc # "recycle"
        BY <2>1
    <2>2. CASE instanceData[info[o].key] = o
        <3>1. info[o].key # hkey
            BY <2>2 DEF StoreInstance
        <3>2. instanceData'[info[o].key] = instanceData[info[o].key]
            BY <3>1 DEF StoreInstance
        <3>3. QED
            BY <2>2, <3>2
    <2>3. QED
        BY <2>1, <2>2
<1>7. QED
    BY <1>1, <1>2, <1>3, <1>4, <1>5, <1>6

\* The pid leads to the new start key.
LEMMA StoreStartKeyInv ==
    ASSUME IndInv, StoreStartKey
    PROVE  IndInv'
<1>1. TypeOK'
    BY DEF StoreStartKey
<1>2. HandlerLocals'
    BY DEF StoreStartKey
<1>3. CleanerLocals'
    BY DEF StoreStartKey
<1>4. Marks'
    BY DEF StoreStartKey
<1>5. Tables'
    BY DEF StoreStartKey
<1>6. PidIndexSound'
    BY DEF StoreStartKey
<1>7. QED
    BY <1>1, <1>2, <1>3, <1>4, <1>5, <1>6

\* The pid leads to the new instance.
LEMMA StoreProcessDataInv ==
    ASSUME IndInv, StoreProcessData
    PROVE  IndInv'
<1>1. TypeOK'
    BY DEF StoreProcessData, HandlerDone
<1>2. HandlerLocals'
    BY DEF StoreProcessData, HandlerDone
<1>3. CleanerLocals'
    BY DEF StoreProcessData, HandlerDone
<1>4. Marks'
    BY DEF StoreProcessData, HandlerDone
<1>5. Tables'
    BY DEF StoreProcessData, HandlerDone
<1>6. PidIndexSound'
    BY DEF StoreProcessData, HandlerDone
<1>7. QED
    BY <1>1, <1>2, <1>3, <1>4, <1>5, <1>6

\* A process whose instance is found is still tracked when it is marked:
\* only a marked process is ever removed.
LEMMA FindInstanceInv ==
    ASSUME IndInv, FindInstance
    PROVE  IndInv'
<1>1. TypeOK'
    BY DEF FindInstance, HandlerDone
<1>2. HandlerLocals'
    BY DEF FindInstance, HandlerDone
<1>3. CleanerLocals'
    BY DEF FindInstance, HandlerDone
<1>4. Marks'
    BY DEF FindInstance, HandlerDone
<1>5. Tables'
    BY DEF FindInstance, HandlerDone
<1>6. PidIndexSound'
    BY DEF FindInstance, HandlerDone
<1>7. QED
    BY <1>1, <1>2, <1>3, <1>4, <1>5, <1>6

\* The mark carries the generation in which the process ended.
LEMMA StoreTerminationInv ==
    ASSUME IndInv, StoreTermination
    PROVE  IndInv'
<1>1. TypeOK'
    BY DEF StoreTermination, HandlerDone
<1>2. HandlerLocals'
    BY DEF StoreTermination, HandlerDone
<1>3. CleanerLocals'
    BY DEF StoreTermination, HandlerDone
<1>4. Marks'
    BY DEF StoreTermination, HandlerDone
<1>5. Tables'
    BY DEF StoreTermination, HandlerDone
<1>6. PidIndexSound'
    BY DEF StoreTermination, HandlerDone
<1>7. QED
    BY <1>1, <1>2, <1>3, <1>4, <1>5, <1>6

\* The tid leads to an object that has been filled.
LEMMA StoreThreadInv ==
    ASSUME IndInv, StoreThread
    PROVE  IndInv'
<1>1. TypeOK'
    BY DEF StoreThread, HandlerDone
<1>2. HandlerLocals'
    BY DEF StoreThread, HandlerDone
<1>3. CleanerLocals'
    BY DEF StoreThread, HandlerDone
<1>4. Marks'
    BY DEF StoreThread, HandlerDone
<1>5. Tables'
    BY DEF StoreThread, HandlerDone
<1>6. PidIndexSound'
    BY DEF StoreThread, HandlerDone
<1>7. QED
    BY <1>1, <1>2, <1>3, <1>4, <1>5, <1>6

\* The record of a thread carries the key of a filled object.
LEMMA FindThreadInv ==
    ASSUME IndInv, FindThread
    PROVE  IndInv'
<1>1. TypeOK'
    BY DEF FindThread, HandlerDone
<1>2. HandlerLocals'
    BY DEF FindThread, HandlerDone
<1>3. CleanerLocals'
    BY DEF FindThread, HandlerDone
<1>4. Marks'
    BY DEF FindThread, HandlerDone
<1>5. Tables'
    BY DEF FindThread, HandlerDone
<1>6. PidIndexSound'
    BY DEF FindThread, HandlerDone
<1>7. QED
    BY <1>1, <1>2, <1>3, <1>4, <1>5, <1>6

\* The record of a thread does not touch the processes.
LEMMA StoreRecordInv ==
    ASSUME IndInv, StoreRecord
    PROVE  IndInv'
<1>1. TypeOK'
    BY DEF StoreRecord, HandlerDone
<1>2. HandlerLocals'
    BY DEF StoreRecord, HandlerDone
<1>3. CleanerLocals'
    BY DEF StoreRecord, HandlerDone
<1>4. Marks'
    BY DEF StoreRecord, HandlerDone
<1>5. Tables'
    BY DEF StoreRecord, HandlerDone
<1>6. PidIndexSound'
    BY DEF StoreRecord, HandlerDone
<1>7. QED
    BY <1>1, <1>2, <1>3, <1>4, <1>5, <1>6

\* A cleanup begins with nothing to clean.
LEMMA PostScrapeCleanupInv ==
    ASSUME IndInv, PostScrapeCleanup
    PROVE  IndInv'
<1>1. TypeOK'
    BY DEF PostScrapeCleanup, CleanerAt
<1>2. HandlerLocals'
    BY DEF PostScrapeCleanup, CleanerAt
<1>3. CleanerLocals'
    BY DEF PostScrapeCleanup, CleanerAt
<1>4. Marks'
    BY DEF PostScrapeCleanup, CleanerAt
<1>5. Tables'
    BY DEF PostScrapeCleanup, CleanerAt
<1>6. PidIndexSound'
    BY DEF PostScrapeCleanup, CleanerAt
<1>7. QED
    BY <1>1, <1>2, <1>3, <1>4, <1>5, <1>6

\* A process is chosen when its mark is below the threshold.
LEMMA VisitTerminationInv ==
    ASSUME IndInv, NEW k \in Keys, VisitTermination(k)
    PROVE  IndInv'
<1>1. TypeOK'
    <2>1. procsToClean' \subseteq Keys /\ keysToVisit' \subseteq Keys
        <3>1. procsToClean' \in {procsToClean, procsToClean \union {k}}
            BY DEF VisitTermination
        <3>2. keysToVisit' = keysToVisit \ {k}
            BY DEF VisitTermination
        <3>3. QED
            BY <3>1, <3>2
    <2>2. curKey' \in Keys \union {Absent}
          /\ cpc' \in {"findProcs", "dropTermination"}
        BY DEF VisitTermination, CleanerAt
    <2>3. QED
        BY <2>1, <2>2 DEF VisitTermination
<1>2. HandlerLocals'
    BY DEF VisitTermination, CleanerAt, Expired
<1>3. CleanerLocals'
    BY DEF VisitTermination, CleanerAt, Expired
<1>4. Marks'
    BY DEF VisitTermination, CleanerAt, Expired
<1>5. Tables'
    BY DEF VisitTermination, CleanerAt, Expired
<1>6. PidIndexSound'
    BY DEF VisitTermination, CleanerAt, Expired
<1>7. QED
    BY <1>1, <1>2, <1>3, <1>4, <1>5, <1>6

\* The mark of a chosen process goes.
LEMMA DropTerminationInv ==
    ASSUME IndInv, DropTermination
    PROVE  IndInv'
<1>1. TypeOK'
    BY DEF DropTermination, CleanerAt
<1>2. HandlerLocals'
    BY DEF DropTermination, CleanerAt
<1>3. CleanerLocals'
    BY DEF DropTermination, CleanerAt
<1>4. Marks'
    BY DEF DropTermination, CleanerAt
<1>5. Tables'
    BY DEF DropTermination, CleanerAt
<1>6. PidIndexSound'
    BY DEF DropTermination, CleanerAt
<1>7. QED
    BY <1>1, <1>2, <1>3, <1>4, <1>5, <1>6

\* The Range over the terminated processes ends.
LEMMA ProcsFoundInv ==
    ASSUME IndInv, ProcsFound
    PROVE  IndInv'
<1>1. TypeOK'
    BY DEF ProcsFound, CleanerAt
<1>2. HandlerLocals'
    BY DEF ProcsFound, CleanerAt
<1>3. CleanerLocals'
    BY DEF ProcsFound, CleanerAt
<1>4. Marks'
    BY DEF ProcsFound, CleanerAt
<1>5. Tables'
    BY DEF ProcsFound, CleanerAt
<1>6. PidIndexSound'
    BY DEF ProcsFound, CleanerAt
<1>7. QED
    BY <1>1, <1>2, <1>3, <1>4, <1>5, <1>6

\* A visited thread is chosen, passed over, or ends the cleanup.
LEMMA VisitThreadInv ==
    ASSUME IndInv, NEW t \in Tids, VisitThread(t)
    PROVE  IndInv'
<1>1. TypeOK'
    <2>1. CASE tidToCurrentProcessData[t] = Nil
        BY <2>1 DEF VisitThread, CleanerDone
    <2>2. CASE tidToCurrentProcessData[t] # Nil
        <3>1. tidsForDeletion' \subseteq Tids /\ tidsToVisit' \subseteq Tids
            <4>1. tidsToVisit' = tidsToVisit \ {t}
                BY <2>2 DEF VisitThread
            <4>2. tidsForDeletion' \in
                    {tidsForDeletion, tidsForDeletion \union {t}}
                BY <2>2 DEF VisitThread
            <4>3. QED
                BY <4>1, <4>2
        <3>2. UNCHANGED <<tables, scrapeCounter, callback, system, cpc,
                 cleanupThreshold, keysToVisit, procsToClean, threadsToClean,
                 curKey, curTid, victim>>
            BY <2>2 DEF VisitThread
        <3>3. QED
            BY <3>1, <3>2
    <2>3. QED
        BY <2>1, <2>2
<1>2. HandlerLocals'
    BY DEF VisitThread, CleanerAt, CleanerDone
<1>3. CleanerLocals'
    BY DEF VisitThread, CleanerAt, CleanerDone
<1>4. Marks'
    BY DEF VisitThread, CleanerAt, CleanerDone
<1>5. Tables'
    BY DEF VisitThread, CleanerAt, CleanerDone
<1>6. PidIndexSound'
    BY DEF VisitThread, CleanerAt, CleanerDone
<1>7. QED
    BY <1>1, <1>2, <1>3, <1>4, <1>5, <1>6

\* The Range over the threads ends.
LEMMA ThreadsFoundInv ==
    ASSUME IndInv, ThreadsFound
    PROVE  IndInv'
<1>1. TypeOK'
    BY DEF ThreadsFound, CleanerAt
<1>2. HandlerLocals'
    BY DEF ThreadsFound, CleanerAt
<1>3. CleanerLocals'
    BY DEF ThreadsFound, CleanerAt
<1>4. Marks'
    BY DEF ThreadsFound, CleanerAt
<1>5. Tables'
    BY DEF ThreadsFound, CleanerAt
<1>6. PidIndexSound'
    BY DEF ThreadsFound, CleanerAt
<1>7. QED
    BY <1>1, <1>2, <1>3, <1>4, <1>5, <1>6

\* A chosen tid loses its mapping.
LEMMA DropThreadInv ==
    ASSUME IndInv, NEW t \in Tids, DropThread(t)
    PROVE  IndInv'
<1>1. TypeOK'
    BY DEF DropThread, CleanerAt
<1>2. HandlerLocals'
    BY DEF DropThread, CleanerAt
<1>3. CleanerLocals'
    BY DEF DropThread, CleanerAt
<1>4. Marks'
    BY DEF DropThread, CleanerAt
<1>5. Tables'
    BY DEF DropThread, CleanerAt
<1>6. PidIndexSound'
    BY DEF DropThread, CleanerAt
<1>7. QED
    BY <1>1, <1>2, <1>3, <1>4, <1>5, <1>6

\* A chosen tid loses its record.
LEMMA DropRecordInv ==
    ASSUME IndInv, DropRecord
    PROVE  IndInv'
<1>1. TypeOK'
    BY DEF DropRecord, CleanerAt
<1>2. HandlerLocals'
    BY DEF DropRecord, CleanerAt
<1>3. CleanerLocals'
    BY DEF DropRecord, CleanerAt
<1>4. Marks'
    BY DEF DropRecord, CleanerAt
<1>5. Tables'
    BY DEF DropRecord, CleanerAt
<1>6. PidIndexSound'
    BY DEF DropRecord, CleanerAt
<1>7. QED
    BY <1>1, <1>2, <1>3, <1>4, <1>5, <1>6

\* All chosen threads are gone.
LEMMA ThreadsDroppedInv ==
    ASSUME IndInv, ThreadsDropped
    PROVE  IndInv'
<1>1. TypeOK'
    BY DEF ThreadsDropped, CleanerAt
<1>2. HandlerLocals'
    BY DEF ThreadsDropped, CleanerAt
<1>3. CleanerLocals'
    BY DEF ThreadsDropped, CleanerAt
<1>4. Marks'
    BY DEF ThreadsDropped, CleanerAt
<1>5. Tables'
    BY DEF ThreadsDropped, CleanerAt
<1>6. PidIndexSound'
    BY DEF ThreadsDropped, CleanerAt
<1>7. QED
    BY <1>1, <1>2, <1>3, <1>4, <1>5, <1>6

\* The removed instance passes into the cleaner's hands alone.
LEMMA RemoveInstanceInv ==
    ASSUME IndInv, NEW k \in Keys, RemoveInstance(k)
    PROVE  IndInv'
<1>1. TypeOK'
    <2>1. /\ instanceData' \in [AllKeys -> Objs \union {Absent}]
          /\ procsToClean' \subseteq Keys
        BY DEF RemoveInstance, InstancesWithout
    <2>2. \/ UNCHANGED <<cpc, curKey, victim>>
          \/ /\ cpc' = "unmapStartKey" /\ curKey' \in AllKeys
             /\ victim' \in Objs
        BY DEF RemoveInstance
    <2>3. QED
        BY <2>1, <2>2 DEF RemoveInstance
<1>2. HandlerLocals'
    BY DEF RemoveInstance, CleanerAt, InstancesWithout
<1>3. CleanerLocals'
    BY DEF RemoveInstance, CleanerAt, InstancesWithout
<1>4. Marks'
    BY DEF RemoveInstance, CleanerAt, InstancesWithout
<1>5. Tables'
    BY DEF RemoveInstance, CleanerAt, InstancesWithout
<1>6. PidIndexSound'
    BY DEF RemoveInstance, CleanerAt, InstancesWithout
<1>7. QED
    BY <1>1, <1>2, <1>3, <1>4, <1>5, <1>6

\* The conditional Update of the start key index.
LEMMA UnmapStartKeyInv ==
    ASSUME IndInv, UnmapStartKey
    PROVE  IndInv'
<1>1. TypeOK'
    <2>1. pidToCurrentStartKey' \in [Pids -> Keys \union {0, Absent}]
        <3>1. pidToCurrentStartKey \in [Pids -> Keys \union {0, Absent}]
            OBVIOUS
        <3>2. pidToCurrentStartKey' = [pidToCurrentStartKey EXCEPT
                    ![info[victim].pid] = StartKeyAfter(@)]
            BY DEF UnmapStartKey
        <3>3. \A x \in Keys \union {0, Absent} :
                StartKeyAfter(x) \in Keys \union {0, Absent}
            BY DEF StartKeyAfter
        <3> HIDE DEF IndInv
        <3>4. QED
            BY <3>1, <3>2, <3>3
    <2>2. cpc' = "unmapProcessData"
        BY DEF UnmapStartKey
    <2>3. QED
        BY <2>1, <2>2 DEF UnmapStartKey
<1>2. HandlerLocals'
    BY DEF UnmapStartKey, CleanerAt, StartKeyAfter
<1>3. CleanerLocals'
    BY DEF UnmapStartKey, CleanerAt, StartKeyAfter
<1>4. Marks'
    BY DEF UnmapStartKey, CleanerAt, StartKeyAfter
<1>5. Tables'
    BY DEF UnmapStartKey, CleanerAt, StartKeyAfter
<1>6. PidIndexSound'
    BY DEF UnmapStartKey, CleanerAt, StartKeyAfter
<1>7. QED
    BY <1>1, <1>2, <1>3, <1>4, <1>5, <1>6

\* After the conditional Update of the object index, no pid leads to the
\* victim: this is what makes its recycling safe.
LEMMA UnmapProcessDataInv ==
    ASSUME IndInv, UnmapProcessData
    PROVE  IndInv'
<1>1. TypeOK'
    <2>1. pidToCurrentProcessData' \in [Pids -> Objs \union {Absent}]
        <3>1. pidToCurrentProcessData \in [Pids -> Objs \union {Absent}]
            OBVIOUS
        <3>2. pidToCurrentProcessData' = [pidToCurrentProcessData EXCEPT
                    ![info[victim].pid] = ProcessDataAfter(@)]
            BY DEF UnmapProcessData
        <3>3. \A x \in Objs \union {Absent} :
                ProcessDataAfter(x) \in Objs \union {Absent}
            BY DEF ProcessDataAfter
        <3> HIDE DEF IndInv
        <3>4. QED
            BY <3>1, <3>2, <3>3
    <2>2. cpc' = "recycle"
        BY DEF UnmapProcessData
    <2>3. QED
        BY <2>1, <2>2 DEF UnmapProcessData
<1>2. HandlerLocals'
    BY DEF UnmapProcessData, CleanerAt, ProcessDataAfter
<1>3. CleanerLocals'
    BY DEF UnmapProcessData, CleanerAt, ProcessDataAfter
<1>4. Marks'
    BY DEF UnmapProcessData, CleanerAt, ProcessDataAfter
<1>5. Tables'
    BY DEF UnmapProcessData, CleanerAt, ProcessDataAfter
<1>6. PidIndexSound'
    <2> SUFFICES ASSUME NEW p \in Pids, pidToCurrentProcessData'[p] # Absent
                 PROVE  LET o == pidToCurrentProcessData'[p]
                        IN  /\ info[o].key \in Keys /\ info[o].pid = p
                            /\ instanceData[info[o].key] = o
        BY DEF UnmapProcessData
    <2> DEFINE o == pidToCurrentProcessData'[p]
    <2>1. o = pidToCurrentProcessData[p] /\ o \in Objs
        BY DEF UnmapProcessData, ProcessDataAfter, CleanerAt
    <2>2. info[o].key \in Keys /\ info[o].pid = p
        BY <2>1
    <2>3. o # victim
        <3>1. p = info[victim].pid =>
                pidToCurrentProcessData'[p] = ProcessDataAfter(o)
            BY <2>1 DEF UnmapProcessData
        <3>2. p = info[victim].pid => info[o].key # curKey
            BY <2>1, <3>1 DEF ProcessDataAfter
        <3>3. info[victim].key = curKey
            BY DEF UnmapProcessData, CleanerAt
        <3>4. QED
            BY <2>2, <3>2, <3>3
    <2>4. QED
        BY <2>1, <2>2, <2>3
<1>7. QED
    BY <1>1, <1>2, <1>3, <1>4, <1>5, <1>6

\* The victim is in no table and no index when it enters the pool.
LEMMA RecycleInv ==
    ASSUME IndInv, Recycle
    PROVE  IndInv'
<1>1. TypeOK'
    BY DEF Recycle, CleanerAt
<1>2. HandlerLocals'
    BY DEF Recycle, CleanerAt
<1>3. CleanerLocals'
    BY DEF Recycle, CleanerAt
<1>4. Marks'
    BY DEF Recycle, CleanerAt
<1>5. Tables'
    BY DEF Recycle, CleanerAt
<1>6. PidIndexSound'
    BY DEF Recycle, CleanerAt
<1>7. QED
    BY <1>1, <1>2, <1>3, <1>4, <1>5, <1>6

\* All chosen processes are gone.
LEMMA ProcsRemovedInv ==
    ASSUME IndInv, ProcsRemoved
    PROVE  IndInv'
<1>1. TypeOK'
    BY DEF ProcsRemoved, CleanerAt
<1>2. HandlerLocals'
    BY DEF ProcsRemoved, CleanerAt
<1>3. CleanerLocals'
    BY DEF ProcsRemoved, CleanerAt
<1>4. Marks'
    BY DEF ProcsRemoved, CleanerAt
<1>5. Tables'
    BY DEF ProcsRemoved, CleanerAt
<1>6. PidIndexSound'
    BY DEF ProcsRemoved, CleanerAt
<1>7. QED
    BY <1>1, <1>2, <1>3, <1>4, <1>5, <1>6

\* An expired thread record is chosen.
LEMMA VisitRecordInv ==
    ASSUME IndInv, NEW t \in Tids, VisitRecord(t)
    PROVE  IndInv'
<1>1. TypeOK'
    <2> DEFINE r == terminatedThreads[t]
    <2>1. CASE r # Absent /\ Expired(r.gen)
        <3>1. r.key \in AllKeys
            BY <2>1
        <3>2. threadsToClean' \in [Tids -> AllKeys \union {Absent}]
            BY <2>1, <3>1 DEF VisitRecord
        <3>3. curTid' = t /\ cpc' = "dropExpired"
            BY <2>1 DEF VisitRecord
        <3>4. QED
            BY <3>2, <3>3 DEF VisitRecord
    <2>2. CASE ~(r # Absent /\ Expired(r.gen))
        BY <2>2 DEF VisitRecord
    <2>3. QED
        BY <2>1, <2>2
<1>2. HandlerLocals'
    BY DEF VisitRecord, CleanerAt, Expired
<1>3. CleanerLocals'
    BY DEF VisitRecord, CleanerAt, Expired
<1>4. Marks'
    BY DEF VisitRecord, CleanerAt, Expired
<1>5. Tables'
    BY DEF VisitRecord, CleanerAt, Expired
<1>6. PidIndexSound'
    BY DEF VisitRecord, CleanerAt, Expired
<1>7. QED
    BY <1>1, <1>2, <1>3, <1>4, <1>5, <1>6

\* An expired thread record goes.
LEMMA DropExpiredInv ==
    ASSUME IndInv, DropExpired
    PROVE  IndInv'
<1>1. TypeOK'
    BY DEF DropExpired, CleanerAt
<1>2. HandlerLocals'
    BY DEF DropExpired, CleanerAt
<1>3. CleanerLocals'
    BY DEF DropExpired, CleanerAt
<1>4. Marks'
    BY DEF DropExpired, CleanerAt
<1>5. Tables'
    BY DEF DropExpired, CleanerAt
<1>6. PidIndexSound'
    BY DEF DropExpired, CleanerAt
<1>7. QED
    BY <1>1, <1>2, <1>3, <1>4, <1>5, <1>6

\* The Range over the thread records ends.
LEMMA RecordsFoundInv ==
    ASSUME IndInv, RecordsFound
    PROVE  IndInv'
<1>1. TypeOK'
    BY DEF RecordsFound, CleanerAt
<1>2. HandlerLocals'
    BY DEF RecordsFound, CleanerAt
<1>3. CleanerLocals'
    BY DEF RecordsFound, CleanerAt
<1>4. Marks'
    BY DEF RecordsFound, CleanerAt
<1>5. Tables'
    BY DEF RecordsFound, CleanerAt
<1>6. PidIndexSound'
    BY DEF RecordsFound, CleanerAt
<1>7. QED
    BY <1>1, <1>2, <1>3, <1>4, <1>5, <1>6

\* A tid is unmapped, kept, or mapped to nil: the processes are untouched.
LEMMA UnmapThreadInv ==
    ASSUME IndInv, NEW t \in Tids, UnmapThread(t)
    PROVE  IndInv'
<1>1. TypeOK'
    <2>1. tidToCurrentProcessData' \in [Tids -> Objs \union {Absent, Nil}]
        <3>1. CASE tidToCurrentProcessData[t] = Nil
            BY <3>1 DEF UnmapThread
        <3>2. CASE tidToCurrentProcessData[t] # Nil
            <4> DEFINE o == MappingAfter(tidToCurrentProcessData[t],
                                         threadsToClean[t])
            <4>1. o \in Objs \union {Absent, Nil}
                BY DEF MappingAfter
            <4>2. tidToCurrentProcessData' =
                      [tidToCurrentProcessData EXCEPT ![t] = o]
                BY <3>2 DEF UnmapThread
            <4>3. QED
                BY <4>1, <4>2
        <3>3. QED
            BY <3>1, <3>2
    <2>2. CASE tidToCurrentProcessData[t] = Nil
        BY <2>1, <2>2 DEF UnmapThread, CleanerDone
    <2>3. CASE tidToCurrentProcessData[t] # Nil
        <3>1. threadsToClean' \in [Tids -> AllKeys \union {Absent}]
            BY <2>3 DEF UnmapThread
        <3>2. UNCHANGED <<instanceData, terminatedProcesses,
                  pidToCurrentStartKey, pidToCurrentProcessData,
                  terminatedThreads, info, pool, scrapeCounter, callback, cpc,
                  cleanupThreshold, keysToVisit, tidsToVisit, procsToClean,
                  tidsForDeletion, curKey, curTid, victim, system>>
            BY <2>3 DEF UnmapThread
        <3>3. QED
            BY <2>1, <3>1, <3>2
    <2>4. QED
        BY <2>2, <2>3
<1>2. HandlerLocals'
    BY DEF UnmapThread, CleanerAt, CleanerDone, MappingAfter
<1>3. CleanerLocals'
    BY DEF UnmapThread, CleanerAt, CleanerDone, MappingAfter
<1>4. Marks'
    BY DEF UnmapThread, CleanerAt, CleanerDone, MappingAfter
<1>5. Tables'
    BY DEF UnmapThread, CleanerAt, CleanerDone, MappingAfter
<1>6. PidIndexSound'
    BY DEF UnmapThread, CleanerAt, CleanerDone, MappingAfter
<1>7. QED
    BY <1>1, <1>2, <1>3, <1>4, <1>5, <1>6

\* The cleaner forgets its locals.
LEMMA CleanupEndsInv ==
    ASSUME IndInv, CleanupEnds
    PROVE  IndInv'
<1>1. TypeOK'
    BY DEF CleanupEnds, CleanerAt, CleanerDone
<1>2. HandlerLocals'
    BY DEF CleanupEnds, CleanerAt, CleanerDone
<1>3. CleanerLocals'
    BY DEF CleanupEnds, CleanerAt, CleanerDone
<1>4. Marks'
    BY DEF CleanupEnds, CleanerAt, CleanerDone
<1>5. Tables'
    BY DEF CleanupEnds, CleanerAt, CleanerDone
<1>6. PidIndexSound'
    BY DEF CleanupEnds, CleanerAt, CleanerDone
<1>7. QED
    BY <1>1, <1>2, <1>3, <1>4, <1>5, <1>6

-----------------------------------------------------------------------------
(* The theorems.                                                           *)

HIDE DEF IndInv, TypeOK, HandlerLocals, CleanerLocals, Marks, Tables,
         PidIndexSound, vars, tables, callback, cleaner, system

\* Every step of either goroutine, and a stutter, keeps the invariant.
LEMMA StepInv == IndInv /\ [Next]_vars => IndInv'
<1> SUFFICES ASSUME IndInv, [Next]_vars PROVE IndInv'
    OBVIOUS
<1>1. CASE Callback
    BY <1>1, AddProcessInv, MarkProcessForDeletionInv, LoseEventInv,
       AddThreadInv, MarkThreadForDeletionInv, StoreInstanceInv,
       StoreStartKeyInv, StoreProcessDataInv, FindInstanceInv,
       StoreTerminationInv, StoreThreadInv, FindThreadInv, StoreRecordInv DEF Callback
<1>2. CASE Cleaner
    BY <1>2, PostScrapeCleanupInv, VisitTerminationInv, DropTerminationInv,
       ProcsFoundInv, VisitThreadInv, ThreadsFoundInv, DropThreadInv,
       DropRecordInv, ThreadsDroppedInv, RemoveInstanceInv,
       UnmapStartKeyInv, UnmapProcessDataInv, RecycleInv, ProcsRemovedInv,
       VisitRecordInv, DropExpiredInv, RecordsFoundInv, UnmapThreadInv,
       CleanupEndsInv DEF Cleaner
<1>3. CASE UNCHANGED vars
    <2> USE <1>3 DEF vars, tables, callback, cleaner, system
    <2>1. TypeOK'
        BY DEF IndInv, TypeOK
    <2>2. HandlerLocals'
        BY DEF IndInv, HandlerLocals
    <2>3. CleanerLocals'
        BY DEF IndInv, CleanerLocals
    <2>4. Marks' /\ Tables'
        BY DEF IndInv, Marks, Tables
    <2>5. PidIndexSound'
        BY DEF IndInv, PidIndexSound
    <2>6. QED
        BY <2>1, <2>2, <2>3, <2>4, <2>5 DEF IndInv
<1>4. QED
    BY <1>1, <1>2, <1>3 DEF Next, Waiting

\* The invariant holds of every behaviour.
LEMMA Invariance == Spec => []IndInv
<1>1. Init => IndInv
    BY InitInv
<1>2. QED
    BY <1>1, StepInv, PTL DEF Spec

\* The tables of processes never hold a nil object and every local of the
\* two goroutines has its type, whatever the events and the interleaving.
THEOREM TypeCorrect == Spec => []TypeOK
<1>1. IndInv => TypeOK
    BY DEF IndInv
<1>2. QED
    BY <1>1, Invariance, PTL

\* A tracked object is never in the pool, never being filled for another
\* process and never in the cleaner's hands.
THEOREM ObjectsSolelyOwned == Spec => []SoleOwner
<1>1. IndInv => SoleOwner
    BY DEF SoleOwner, IndInv, Tables, HandlerLocals
<1>2. QED
    BY <1>1, Invariance, PTL

\* The pid index only leads to tracked objects of that pid, or to the one
\* the cleaner is about to unmap.
THEOREM PidIndexCorrect == Spec => []PidIndexSound
<1>1. IndInv => PidIndexSound
    BY DEF IndInv
<1>2. QED
    BY <1>1, Invariance, PTL

\* A process leaves the table only after its end was recorded in a
\* generation the threshold of the running cleanup has passed.
THEOREM GraceRespected == Spec => RemovedOnlyAfterGrace
<1> DEFINE Removal(k) == instanceData[k] # Absent /\ instanceData'[k] = Absent
           Allowed(k) == /\ k \in Keys /\ phase[k] = "ended"
                         /\ endedAt[k] < cleanupThreshold
<1>1. ASSUME IndInv, [Next]_vars, NEW k \in AllKeys, Removal(k)
      PROVE  Allowed(k)
    <2>1. CASE \E j \in Keys : RemoveInstance(j)
        <3>1. PICK j \in Keys : RemoveInstance(j)
            BY <2>1
        <3>2. k = j /\ j \in procsToClean
            BY <1>1, <3>1 DEF RemoveInstance, InstancesWithout
        <3>3. phase[k] = "ended"
            BY <1>1, <3>2 DEF IndInv, Marks, TypeOK
        <3>4. QED
            BY <1>1, <3>2, <3>3 DEF IndInv, Marks
    <2>2. CASE StoreInstance
        BY <1>1, <2>2 DEF StoreInstance, IndInv, HandlerLocals
    <2>3. CASE UNCHANGED instanceData
        BY <1>1, <2>3
    <2>4. QED
        BY <1>1, <2>1, <2>2, <2>3 DEF vars, tables, Next, Callback, Cleaner, Waiting,
           AddProcess, MarkProcessForDeletion, LoseEvent, AddThread,
           MarkThreadForDeletion, StoreStartKey, StoreProcessData,
           FindInstance, StoreTermination, StoreThread, FindThread,
           StoreRecord, PostScrapeCleanup, VisitTermination, DropTermination,
           ProcsFound, VisitThread, ThreadsFound, DropThread, DropRecord,
           ThreadsDropped, UnmapStartKey, UnmapProcessData, Recycle,
           ProcsRemoved, VisitRecord, DropExpired, RecordsFound, UnmapThread,
           CleanupEnds
<1>2. IndInv /\ [Next]_vars => [\A k \in AllKeys : Removal(k) => Allowed(k)]_vars
    BY <1>1
<1>3. QED
    BY <1>2, Invariance, PTL DEF Spec, RemovedOnlyAfterGrace

-----------------------------------------------------------------------------
(* The refinement of ProcessLifecycle.                                     *)

\* An object in the table carries the key it is stored under.
LEMMA TrackedByKey ==
    IndInv => TrackedKeys = {k \in Keys : instanceData[k] # Absent}
<1> SUFFICES ASSUME IndInv
             PROVE  TrackedKeys = {k \in Keys : instanceData[k] # Absent}
    OBVIOUS
<1>1. \A k \in Keys : instanceData[k] # Absent => info[instanceData[k]].key = k
    BY DEF IndInv, Tables, AllKeys
<1> DEFINE S == {k \in Keys : instanceData[k] # Absent}
<1>2. ASSUME NEW x \in TrackedKeys PROVE x \in S
    <2>1. PICK k \in S : x = info[instanceData[k]].key
        BY DEF TrackedKeys
    <2>2. x = k
        BY <2>1, <1>1
    <2>3. QED
        BY <2>1, <2>2
<1>3. ASSUME NEW x \in S PROVE x \in TrackedKeys
    <2>1. x = info[instanceData[x]].key
        BY <1>1
    <2>2. QED
        BY <2>1 DEF TrackedKeys
<1>4. QED
    BY <1>2, <1>3

\* And so it does after a step.
LEMMA TrackedByKeyAfter ==
    IndInv' => (TrackedKeys = {k \in Keys : instanceData[k] # Absent})'
BY TrackedByKey, PTL

\* A pid leads to a key of Keys or to nothing.
LEMMA AnswersAreKeys ==
    ASSUME IndInv, NEW p \in Pids, KeyOfPid[p] # Absent
    PROVE  /\ KeyOfPid[p] \in Keys
           /\ pidToCurrentProcessData[p] \in Objs
           /\ KeyOfPid[p] = info[pidToCurrentProcessData[p]].key
BY DEF IndInv, TypeOK, PidIndexSound, KeyOfPid

\* The refinement of ProcessLifecycle by the tables as they are built.
LEMMA InitLifecycle == Init => Lifecycle!Init
<1> SUFFICES ASSUME Init PROVE Lifecycle!Init
    OBVIOUS
<1>1. TrackedKeys = {}
    BY DEF Init, TrackedKeys
<1>2. KeyOfPid = [p \in Pids |-> Absent]
    BY DEF Init, KeyOfPid
<1>3. QED
    BY <1>1, <1>2 DEF Init, Lifecycle!Init

\* An object that is filled comes from the pool, where no table leads: no
\* reader sees it change.
LEMMA FillingIsInvisible ==
    ASSUME IndInv, NEW k \in Keys, AddProcess(k)
    PROVE  UNCHANGED <<TrackedKeys, KeyOfPid, scrapeCounter>>
<1>1. UNCHANGED <<instanceData, pidToCurrentProcessData, scrapeCounter>>
    BY DEF AddProcess, tables
<1>2. \A o \in Objs \ pool : info'[o] = info[o]
    BY DEF AddProcess, tables, IndInv, TypeOK
<1>3. ASSUME NEW j \in Keys, instanceData[j] # Absent
      PROVE  info'[instanceData[j]] = info[instanceData[j]]
    BY <1>2, <1>3 DEF IndInv, TypeOK, Tables
<1>4. ASSUME NEW p \in Pids, pidToCurrentProcessData[p] # Absent
      PROVE  info'[pidToCurrentProcessData[p]] = info[pidToCurrentProcessData[p]]
    <2> DEFINE o == pidToCurrentProcessData[p]
    <2>1. /\ o \in Objs /\ info[o].key \in Keys
          /\ \/ instanceData[info[o].key] = o
             \/ o = victim /\ cpc \in {"unmapStartKey", "unmapProcessData"}
        BY <1>4 DEF IndInv, TypeOK, PidIndexSound
    <2>2. CASE instanceData[info[o].key] = o
        BY <2>1, <2>2, <1>3, KeysAssumption, ObjsAssumption
    <2>3. CASE o = victim /\ cpc \in {"unmapStartKey", "unmapProcessData"}
        BY <2>1, <2>3, <1>2 DEF IndInv, CleanerLocals, Unmapping
    <2>4. QED
        BY <2>1, <2>2, <2>3
<1>5. TrackedKeys' = TrackedKeys
    <2> DEFINE S == {i \in Keys : instanceData[i] # Absent}
    <2>1. TrackedKeys' = {info'[instanceData[j]].key : j \in S}
        BY <1>1 DEF TrackedKeys
    <2>2. TrackedKeys = {info[instanceData[j]].key : j \in S}
        BY DEF TrackedKeys
    <2>3. \A j \in S : info'[instanceData[j]].key = info[instanceData[j]].key
        BY <1>3
    <2> HIDE DEF S
    <2>4. QED
        BY <2>1, <2>2, <2>3
<1>6. KeyOfPid' = KeyOfPid
    BY <1>1, <1>4 DEF KeyOfPid
<1>7. QED
    BY <1>1, <1>5, <1>6

\* A step that writes none of the three tables leaves what is seen alone.
LEMMA SeenUnchanged ==
    ASSUME UNCHANGED <<instanceData, pidToCurrentProcessData, info>>
    PROVE  UNCHANGED <<TrackedKeys, KeyOfPid>>
BY DEF TrackedKeys, KeyOfPid

\* What the system and the events do is the same on both levels.
LEMMA EventLifecycle ==
    ASSUME IndInv, NEW k \in Keys,
           AddProcess(k) \/ MarkProcessForDeletion(k) \/ LoseEvent(k)
    PROVE  [Lifecycle!Next]_(Lifecycle!vars)
<1>1. UNCHANGED <<TrackedKeys, KeyOfPid, scrapeCounter>>
    <2>1. CASE AddProcess(k)
        BY <2>1, FillingIsInvisible
    <2>2. CASE MarkProcessForDeletion(k)
        BY <2>2, SeenUnchanged DEF MarkProcessForDeletion, tables
    <2>3. CASE LoseEvent(k)
        BY <2>3, SeenUnchanged DEF LoseEvent, tables
    <2>4. QED
        BY <2>1, <2>2, <2>3
<1>2. ProcessStarts(k) \/ ProcessEnds(k) \/ UNCHANGED <<phase, endedAt>>
    BY DEF AddProcess, MarkProcessForDeletion, LoseEvent, ProcessIsListed, system
<1>3. CASE ProcessStarts(k)
    BY <1>1, <1>3 DEF ProcessStarts, Lifecycle!Next, Lifecycle!Begins
<1>4. CASE ProcessEnds(k)
    BY <1>1, <1>4 DEF ProcessEnds, Lifecycle!Next, Lifecycle!Ends
<1>5. CASE UNCHANGED <<phase, endedAt>>
    BY <1>1, <1>5 DEF Lifecycle!vars
<1>6. QED
    BY <1>2, <1>3, <1>4, <1>5

\* Storing an instance tracks it, if it was not tracked already.
LEMMA TrackLifecycle ==
    ASSUME IndInv, IndInv', StoreInstance
    PROVE  Lifecycle!Track(hkey)
<1>1. hkey \in Keys /\ hobj \in Objs /\ instanceData[hkey] = Absent
    BY DEF StoreInstance, IndInv, HandlerLocals
<1>2. instanceData' = [instanceData EXCEPT ![hkey] = hobj]
    BY DEF StoreInstance
<1>3. TrackedKeys' = TrackedKeys \union {hkey}
    <2>1. instanceData'[hkey] = hobj /\ hobj # Absent
        BY <1>1, <1>2, ObjsAssumption DEF IndInv, TypeOK, AllKeys
    <2>2. \A k \in Keys : k # hkey => instanceData'[k] = instanceData[k]
        BY <1>2 DEF IndInv, TypeOK
    <2>3. TrackedKeys' = {k \in Keys : instanceData'[k] # Absent}
        BY TrackedByKeyAfter
    <2>4. QED
        BY <1>1, <2>1, <2>2, <2>3, TrackedByKey
<1>4. KeyOfPid' = KeyOfPid
    BY DEF StoreInstance, KeyOfPid
<1>5. phase[hkey] # "new" /\ hkey \notin TrackedKeys
    <2>1. hkey \notin TrackedKeys
        BY <1>1, TrackedByKey
    <2>2. phase[hkey] # "new"
        BY DEF StoreInstance, IndInv, HandlerLocals
    <2>3. QED
        BY <2>1, <2>2
<1>6. QED
    BY <1>3, <1>4, <1>5 DEF StoreInstance, system, Lifecycle!Track

\* The second store of AddProcess makes the instance the answer of its pid.
LEMMA EnterLifecycle ==
    ASSUME IndInv, IndInv', StoreProcessData
    PROVE  Lifecycle!Enter(hkey)
<1>1. hkey \in Keys /\ hobj \in Objs /\ instanceData[hkey] = hobj
    BY DEF StoreProcessData, IndInv, HandlerLocals
<1>2. info[hobj].key = hkey /\ hobj # Absent
    BY <1>1, ObjsAssumption DEF IndInv, Tables, AllKeys
<1>3. TrackedKeys' = TrackedKeys /\ hkey \in TrackedKeys
    BY <1>1, <1>2, TrackedByKey DEF StoreProcessData, TrackedKeys
<1>4. KeyOfPid' = [KeyOfPid EXCEPT ![PidOf[hkey]] = hkey]
    BY <1>1, <1>2, KeysAssumption
       DEF StoreProcessData, KeyOfPid, IndInv, TypeOK
<1>5. QED
    BY <1>3, <1>4 DEF StoreProcessData, system, Lifecycle!Enter

\* A process chosen for cleanup has ended and its grace period is over.
LEMMA VictimIsOver ==
    ASSUME IndInv, NEW k \in Keys, k \in procsToClean
    PROVE  Lifecycle!Over(k)
<1>1. phase[k] = "ended"
    BY DEF IndInv, Marks, TypeOK
<1>2. endedAt[k] \in Nat /\ endedAt[k] < cleanupThreshold
    BY DEF IndInv, Marks
<1>3. cleanupThreshold <= scrapeCounter
      /\ cleanupThreshold \in Nat /\ scrapeCounter \in Nat
    BY DEF IndInv, CleanerLocals, TypeOK
<1>4. endedAt[k] < scrapeCounter
    BY <1>2, <1>3
<1>5. QED
    BY <1>1, <1>4 DEF Lifecycle!Over

\* LoadAndDelete removes the process, unless it had gone already.
LEMMA RemoveLifecycle ==
    ASSUME IndInv, IndInv', NEW k \in Keys, RemoveInstance(k)
    PROVE  Lifecycle!Remove(k)
<1>1. k \in procsToClean /\ instanceData[k] # Absent
    BY DEF RemoveInstance, IndInv, Marks
<1>2. TrackedKeys' = TrackedKeys \ {k}
    <2>1. instanceData' = [instanceData EXCEPT ![k] = Absent]
        BY DEF RemoveInstance, InstancesWithout
    <2>2. /\ instanceData'[k] = Absent
          /\ \A j \in Keys : j # k => instanceData'[j] = instanceData[j]
        BY <2>1 DEF IndInv, TypeOK, AllKeys
    <2>3. TrackedKeys' = {j \in Keys : instanceData'[j] # Absent}
        BY TrackedByKeyAfter
    <2>4. QED
        BY <2>2, <2>3, TrackedByKey
<1>3. KeyOfPid' = KeyOfPid
    BY DEF RemoveInstance, KeyOfPid
<1>4. k \in TrackedKeys
    BY <1>1, TrackedByKey
<1>5. QED
    BY <1>1, <1>2, <1>3, <1>4, VictimIsOver
       DEF RemoveInstance, system, Lifecycle!Remove

\* UnmapProcessData makes a pid lead nowhere only if it led to a process with
\* the key of the victim.
LEMMA ForgetLifecycle ==
    ASSUME IndInv, UnmapProcessData
    PROVE  [Lifecycle!Next]_(Lifecycle!vars)
<1> DEFINE p == info[victim].pid
<1>1. curKey \in Keys /\ p \in Pids
    <2>1. curKey \in Keys /\ info[victim] = [key |-> curKey, pid |-> PidOf[curKey]]
        BY DEF UnmapProcessData, CleanerAt, IndInv, CleanerLocals, Unmapping
    <2>2. QED
        BY <2>1, KeysAssumption
<1>2. Lifecycle!Over(curKey)
    <2>1. /\ phase[curKey] = "ended" /\ endedAt[curKey] \in Nat
          /\ endedAt[curKey] < cleanupThreshold
        BY DEF UnmapProcessData, CleanerAt, IndInv, CleanerLocals, Unmapping
    <2>2. cleanupThreshold <= scrapeCounter
          /\ cleanupThreshold \in Nat /\ scrapeCounter \in Nat
        BY DEF IndInv, CleanerLocals, TypeOK
    <2>3. endedAt[curKey] < scrapeCounter
        BY <2>1, <2>2
    <2>4. QED
        BY <2>1, <2>3 DEF Lifecycle!Over
<1>3. pidToCurrentProcessData' = [pidToCurrentProcessData EXCEPT
                                    ![p] = ProcessDataAfter(@)]
    BY DEF UnmapProcessData
<1>4. UNCHANGED <<TrackedKeys, info, phase, endedAt, scrapeCounter>>
    BY DEF UnmapProcessData, TrackedKeys, system
<1>5. CASE ProcessDataAfter(pidToCurrentProcessData[p])
             = pidToCurrentProcessData[p]
    <2>1. pidToCurrentProcessData' = pidToCurrentProcessData
        BY <1>3, <1>5 DEF IndInv, TypeOK
    <2>2. QED
        BY <2>1, <1>4 DEF Lifecycle!vars, KeyOfPid
<1>6. CASE ProcessDataAfter(pidToCurrentProcessData[p])
             # pidToCurrentProcessData[p]
    <2>1. /\ pidToCurrentProcessData[p] # Absent
          /\ info[pidToCurrentProcessData[p]].key = curKey
          /\ ProcessDataAfter(pidToCurrentProcessData[p]) = Absent
        BY <1>6 DEF ProcessDataAfter
    <2>2. KeyOfPid[p] = curKey
        BY <1>1, <2>1 DEF KeyOfPid
    <2>3. KeyOfPid' = [KeyOfPid EXCEPT ![p] = Absent]
        BY <1>1, <1>3, <1>4, <2>1 DEF KeyOfPid, IndInv, TypeOK
    <2>4. curKey # Absent
        BY <1>1, KeysAssumption, ObjsAssumption
    <2>5. Lifecycle!Forget(p)
        BY <1>1, <1>2, <1>4, <2>2, <2>3, <2>4 DEF Lifecycle!Forget
    <2>6. QED
        BY <1>1, <2>5 DEF Lifecycle!Next
<1>7. QED
    BY <1>5, <1>6

\* Every other step of the two goroutines is invisible, but for the start of
\* a cleanup, which begins a generation.
LEMMA QuietLifecycle ==
    ASSUME UNCHANGED <<instanceData, pidToCurrentProcessData, info, phase,
                       endedAt>>,
           scrapeCounter' \in {scrapeCounter, scrapeCounter + 1}
    PROVE  [Lifecycle!Next]_(Lifecycle!vars)
BY SeenUnchanged DEF Lifecycle!Next, Lifecycle!NextGeneration, Lifecycle!vars

\* A step of StateManager is a step of ProcessLifecycle or a stutter.
LEMMA StepLifecycle ==
    IndInv /\ IndInv' /\ [Next]_vars => [Lifecycle!Next]_(Lifecycle!vars)
<1> SUFFICES ASSUME IndInv, IndInv', [Next]_vars
             PROVE  [Lifecycle!Next]_(Lifecycle!vars)
    OBVIOUS
<1>1. CASE \E k \in Keys :
             AddProcess(k) \/ MarkProcessForDeletion(k) \/ LoseEvent(k)
    BY <1>1, EventLifecycle
<1>2. CASE StoreInstance
    <2>1. hkey \in Keys
        BY <1>2 DEF StoreInstance, IndInv, HandlerLocals
    <2>2. QED
        BY <1>2, <2>1, TrackLifecycle DEF Lifecycle!Next
<1>3. CASE StoreProcessData
    <2>1. hkey \in Keys
        BY <1>3 DEF StoreProcessData, IndInv, HandlerLocals
    <2>2. QED
        BY <1>3, <2>1, EnterLifecycle DEF Lifecycle!Next
<1>4. CASE \E k \in Keys : RemoveInstance(k)
    BY <1>4, RemoveLifecycle DEF Lifecycle!Next
<1>5. CASE UnmapProcessData
    BY <1>5, ForgetLifecycle
<1>6. CASE \/ \E t \in Tids, k \in Keys : AddThread(t, k)
           \/ \E t \in Tids : MarkThreadForDeletion(t)
           \/ StoreStartKey \/ FindInstance \/ StoreTermination
           \/ StoreThread \/ FindThread \/ StoreRecord
    <2>1. UNCHANGED <<instanceData, pidToCurrentProcessData, info, phase,
                      endedAt, scrapeCounter>>
        BY <1>6 DEF AddThread, MarkThreadForDeletion, ThreadIsListed,
           ThreadEnds, StoreStartKey, FindInstance, StoreTermination,
           StoreThread, FindThread, StoreRecord, tables, system
    <2>2. QED
        BY <2>1, QuietLifecycle
<1>7. CASE \/ PostScrapeCleanup
           \/ \E k \in Keys : VisitTermination(k)
           \/ \E t \in Tids : VisitThread(t) \/ DropThread(t) \/ VisitRecord(t)
                              \/ UnmapThread(t)
           \/ DropTermination \/ ProcsFound \/ ThreadsFound \/ DropRecord
           \/ ThreadsDropped \/ UnmapStartKey \/ Recycle
           \/ ProcsRemoved \/ DropExpired \/ RecordsFound \/ CleanupEnds
    <2>1. /\ UNCHANGED <<instanceData, pidToCurrentProcessData, info, phase,
                         endedAt>>
          /\ scrapeCounter' \in {scrapeCounter, scrapeCounter + 1}
        BY <1>7 DEF PostScrapeCleanup, VisitTermination, VisitThread,
           DropThread, VisitRecord, UnmapThread, DropTermination, ProcsFound,
           ThreadsFound, DropRecord, ThreadsDropped, UnmapStartKey, Recycle,
           ProcsRemoved, DropExpired, RecordsFound, CleanupEnds, tables, system
    <2>2. QED
        BY <2>1, QuietLifecycle
<1>8. CASE UNCHANGED vars
    BY <1>8, QuietLifecycle DEF vars, tables, system
<1>9. QED
    BY <1>1, <1>2, <1>3, <1>4, <1>5, <1>6, <1>7, <1>8
       DEF Next, Callback, Cleaner, Waiting

\* The tables of StateManager, seen through the keys that their objects
\* carry, behave as ProcessLifecycle says.
THEOREM LifecycleImplemented == Spec => ImplementsLifecycle
BY InitLifecycle, StepLifecycle, Invariance, PTL
   DEF Spec, ImplementsLifecycle, Lifecycle!Spec

-----------------------------------------------------------------------------
(***************************************************************************)
(* What StateManager promises of running processes and threads when the    *)
(* events of the kernel session come in order and none is lost.  OrderInv  *)
(* is inductive on top of IndInv, which holds for every stream.            *)
(***************************************************************************)

USE KeysAssumption, ObjsAssumption, BoundsAssumption
    DEF UnknownProcessStartKey, AllKeys, Record, tables, callback, cleaner,
        system, vars, IndInv, TypeOK, HandlerLocals, CleanerLocals, Marks,
        Tables, PidIndexSound, Unmarked, Unmapping,
        OrderInv, StreamOrdered, Storing, LiveIndexed, ThreadsAttributed,
        OfChosen, ThreadsGoFirst, InOrder

\* Nothing runs.
LEMMA InitOrder == ASSUME Init PROVE OrderInv
    BY DEF Init

-----------------------------------------------------------------------------
(* The callback.                                                           *)

\* A process that starts is the only one of its pid, and a thread leads to no
\* object of the pool, of which one is filled for it.
LEMMA AddProcessOrder ==
    ASSUME IndInv, InOrder, OrderInv, NEW k \in Keys, AddProcess(k)
    PROVE  OrderInv'
<1>1. /\ hpc = "idle"
      /\ UNCHANGED <<instanceData, pidToCurrentStartKey,
                     pidToCurrentProcessData, tidToCurrentProcessData,
                     terminatedProcesses, htid, cleaner, owner>>
    BY DEF AddProcess, ProcessStarts, ProcessIsListed
<1>2. \/ /\ phase[k] = "new" /\ PidFreeFor(k)
         /\ phase' = [phase EXCEPT ![k] = "live"]
      \/ phase[k] = "live" /\ phase' = phase
    BY DEF AddProcess, ProcessStarts, ProcessIsListed
<1>3. \/ instanceData[k] # Absent /\ UNCHANGED <<hpc, hkey, hobj, pool, info>>
      \/ /\ instanceData[k] = Absent
         /\ hpc' = "storeInstance" /\ hkey' = k /\ hobj' \in pool
         /\ pool' = pool \ {hobj'}
         /\ info' = [info EXCEPT ![hobj'] = [key |-> k, pid |-> PidOf[k]]]
    BY DEF AddProcess
<1>4. StreamOrdered'
    <2>1. ASSUME NEW i \in Keys, NEW j \in Keys, PidOf[i] = PidOf[j], i < j,
                 phase'[j] # "new"
          PROVE  phase'[i] = "ended"
        <3>1. CASE phase' = phase
            BY <2>1, <3>1
        <3>2. CASE /\ phase[k] = "new" /\ PidFreeFor(k)
                   /\ phase' = [phase EXCEPT ![k] = "live"]
            <4>0. i \in Nat /\ j \in Nat
                BY KeysAssumption
            <4>1. i # j /\ ~(j < i) /\ j >= i
                BY <2>1, <4>0
            <4>2. CASE j = k
                BY <2>1, <3>2, <4>1, <4>2 DEF PidFreeFor
            <4>3. CASE i = k
                BY <2>1, <3>2, <4>1, <4>3 DEF PidFreeFor
            <4>4. QED
                BY <2>1, <3>2, <4>2, <4>3
        <3>3. QED
            BY <1>2, <3>1, <3>2
    <2>2. \A j \in Keys : instanceData'[j] # Absent => phase'[j] # "new"
        BY <1>1, <1>2
    <2>3. \A j \in Keys : Storing(j)' => phase'[j] = "live"
        BY <1>1, <1>2, <1>3
    <2>4. \A t \in Tids : owner'[t] # Absent => phase'[owner'[t]] = "live"
        <3>1. \A t \in Tids : owner[t] # Absent =>
                owner[t] \in Keys /\ phase[owner[t]] = "live"
            OBVIOUS
        <3>2. \A i \in Keys : phase[i] = "live" => phase'[i] = "live"
            BY <1>2
        <3>3. owner' = owner
            BY <1>1
        <3>4. QED
            BY <3>1, <3>2, <3>3
    <2>5. QED
        BY <2>1, <2>2, <2>3, <2>4
<1>5. LiveIndexed'
    BY <1>1, <1>2, <1>3
<1>6. ThreadsAttributed'
    BY <1>1, <1>2, <1>3
<1>7. ThreadsGoFirst'
    <2>1. pool' \subseteq pool
        BY <1>3
    <2>2. \A x \in Objs \ pool : info'[x] = info[x]
        BY <1>3
    <2>3. \A t \in Tids : tidToCurrentProcessData[t] \notin pool
        OBVIOUS
    <2>4. \A t \in Tids : OfChosen(t)' <=> OfChosen(t)
        BY <1>1, <2>2, <2>3
    <2>5. QED
        BY <1>1, <2>1, <2>4
<1>8. QED
    BY <1>4, <1>5, <1>6, <1>7

\* A process ends after its threads.
LEMMA MarkProcessForDeletionOrder ==
    ASSUME IndInv, InOrder, OrderInv,
           NEW k \in Keys, MarkProcessForDeletion(k)
    PROVE  OrderInv'
<1>1. StreamOrdered'
    BY DEF MarkProcessForDeletion, ProcessEnds
<1>2. LiveIndexed'
    BY DEF MarkProcessForDeletion, ProcessEnds
<1>3. ThreadsAttributed'
    BY DEF MarkProcessForDeletion, ProcessEnds
<1>4. ThreadsGoFirst'
    BY DEF MarkProcessForDeletion, ProcessEnds
<1>5. QED
    BY <1>1, <1>2, <1>3, <1>4

\* The parent that is found for a thread is its process: the pid leads to it.
LEMMA AddThreadOrder ==
    ASSUME IndInv, InOrder, OrderInv,
           NEW t \in Tids, NEW k \in Keys, AddThread(t, k)
    PROVE  OrderInv'
<1>1. /\ hpc = "idle" /\ phase[k] = "live"
      /\ owner' = [owner EXCEPT ![t] = k]
      /\ hpc' = "storeThread" /\ htid' = t /\ hobj' = ParentOf(k)
      /\ UNCHANGED <<tables, hkey, cleaner, phase>>
    BY DEF AddThread, ThreadIsListed
<1>2. /\ instanceData[k] # Absent
      /\ pidToCurrentProcessData[PidOf[k]] = instanceData[k]
    BY <1>1
<1>3. info[instanceData[k]].key = k
    BY <1>2
<1>4. ParentOf(k) = instanceData[k]
    BY <1>2, <1>3 DEF ParentOf
<1>5. StreamOrdered'
    BY <1>1
<1>6. LiveIndexed'
    BY <1>1
<1>7. ThreadsAttributed'
    BY <1>1, <1>4
<1>8. ThreadsGoFirst'
    BY <1>1
<1>9. QED
    BY <1>5, <1>6, <1>7, <1>8

\* A thread that has ended is of no process.
LEMMA MarkThreadForDeletionOrder ==
    ASSUME IndInv, InOrder, OrderInv, NEW t \in Tids, MarkThreadForDeletion(t)
    PROVE  OrderInv'
<1>1. StreamOrdered'
    BY DEF MarkThreadForDeletion, ThreadEnds
<1>2. LiveIndexed'
    BY DEF MarkThreadForDeletion, ThreadEnds
<1>3. ThreadsAttributed'
    BY DEF MarkThreadForDeletion, ThreadEnds
<1>4. ThreadsGoFirst'
    BY DEF MarkThreadForDeletion, ThreadEnds
<1>5. QED
    BY <1>1, <1>2, <1>3, <1>4

\* No running thread has been waiting for the process that is stored.
LEMMA StoreInstanceOrder ==
    ASSUME IndInv, InOrder, OrderInv, StoreInstance
    PROVE  OrderInv'
<1>1. StreamOrdered'
    BY DEF StoreInstance
<1>2. LiveIndexed'
    BY DEF StoreInstance
<1>3. ThreadsAttributed'
    BY DEF StoreInstance
<1>4. ThreadsGoFirst'
    BY DEF StoreInstance
<1>5. QED
    BY <1>1, <1>2, <1>3, <1>4

\* No other running process has the pid.
LEMMA StoreStartKeyOrder ==
    ASSUME IndInv, InOrder, OrderInv, StoreStartKey
    PROVE  OrderInv'
<1>1. /\ hpc = "storeStartKey" /\ hkey \in Keys /\ phase[hkey] = "live"
      /\ pidToCurrentStartKey' =
            [pidToCurrentStartKey EXCEPT ![PidOf[hkey]] = hkey]
      /\ hpc' = "storeProcessData"
      /\ UNCHANGED <<instanceData, pidToCurrentProcessData,
           tidToCurrentProcessData, info, pool, hkey, htid, hobj, cleaner,
           system>>
    BY DEF StoreStartKey
<1>2. \A j \in Keys \ {hkey} : phase[j] = "live" => PidOf[j] # PidOf[hkey]
    BY <1>1
<1>3. StreamOrdered' /\ ThreadsAttributed' /\ ThreadsGoFirst'
    BY <1>1
<1>4. LiveIndexed'
    BY <1>1, <1>2
<1>5. QED
    BY <1>3, <1>4

\* With this the process is in all tables.
LEMMA StoreProcessDataOrder ==
    ASSUME IndInv, InOrder, OrderInv, StoreProcessData
    PROVE  OrderInv'
<1>1. /\ hpc = "storeProcessData" /\ hkey \in Keys /\ phase[hkey] = "live"
      /\ pidToCurrentStartKey[PidOf[hkey]] = hkey
      /\ instanceData[hkey] = hobj /\ hobj \in Objs
      /\ pidToCurrentProcessData' =
            [pidToCurrentProcessData EXCEPT ![PidOf[hkey]] = hobj]
      /\ hpc' = "idle" /\ hkey' = Absent /\ htid' = Absent
      /\ UNCHANGED <<instanceData, pidToCurrentStartKey,
           tidToCurrentProcessData, info, pool, cleaner, system>>
    BY DEF StoreProcessData, HandlerDone
<1>2. \A j \in Keys \ {hkey} : phase[j] = "live" => PidOf[j] # PidOf[hkey]
    BY <1>1
<1>3. StreamOrdered' /\ ThreadsAttributed' /\ ThreadsGoFirst'
    BY <1>1
<1>4. LiveIndexed'
    BY <1>1, <1>2
<1>5. QED
    BY <1>3, <1>4

\* The end of a process or of a thread stores marks, which are no part of it.
LEMMA MarksOrder ==
    ASSUME IndInv, InOrder, OrderInv,
           FindInstance \/ StoreTermination \/ FindThread \/ StoreRecord
    PROVE  OrderInv'
<1>1. UNCHANGED <<instanceData, pidToCurrentStartKey,
          pidToCurrentProcessData, tidToCurrentProcessData, info, pool,
          cleaner, system>>
    BY DEF FindInstance, StoreTermination, FindThread, StoreRecord
<1>2. /\ hpc \notin {"storeInstance", "storeStartKey", "storeProcessData",
                     "storeThread"}
      /\ hpc' \notin {"storeInstance", "storeStartKey", "storeProcessData",
                      "storeThread"}
    BY DEF FindInstance, StoreTermination, FindThread, StoreRecord, HandlerDone
<1>3. StreamOrdered'
    BY <1>1, <1>2
<1>4. LiveIndexed'
    BY <1>1, <1>2
<1>5. ThreadsAttributed'
    BY <1>1, <1>2
<1>6. ThreadsGoFirst'
    BY <1>1
<1>7. QED
    BY <1>3, <1>4, <1>5, <1>6

\* The process of the new mapping runs: no cleanup has chosen it, and it is
\* neither in the pool nor about to be.
LEMMA StoreThreadOrder ==
    ASSUME IndInv, InOrder, OrderInv, StoreThread
    PROVE  OrderInv'
<1>1. /\ hpc = "storeThread" /\ htid \in Tids
      /\ tidToCurrentProcessData' =
            [tidToCurrentProcessData EXCEPT ![htid] = hobj]
      /\ hpc' = "idle" /\ hkey' = Absent
      /\ UNCHANGED <<instanceData, pidToCurrentStartKey,
           pidToCurrentProcessData, info, pool, cleaner, system>>
    BY DEF StoreThread, HandlerDone
<1>2. /\ owner[htid] \in Keys /\ phase[owner[htid]] = "live"
      /\ hobj = instanceData[owner[htid]] /\ hobj \in Objs
    BY <1>1
<1>3. /\ hobj \notin pool /\ hobj # victim
      /\ info[hobj].key = owner[htid]
    <2>1. instanceData[owner[htid]] # Absent
        BY <1>2
    <2>2. QED
        BY <1>2, <2>1
<1>4. info[hobj].key \notin procsToClean
    BY <1>2, <1>3
<1>5. StreamOrdered' /\ LiveIndexed'
    BY <1>1
<1>6. ThreadsAttributed'
    BY <1>1, <1>2
<1>7. ThreadsGoFirst'
    BY <1>1, <1>3, <1>4
<1>8. QED
    BY <1>5, <1>6, <1>7

-----------------------------------------------------------------------------
(* The cleaner.                                                            *)

\* Most steps of the cleaner change none of what the first three parts are
\* about.
LEMMA FrameOrder ==
    ASSUME IndInv, OrderInv,
           UNCHANGED <<instanceData, pidToCurrentStartKey,
               pidToCurrentProcessData, tidToCurrentProcessData, callback,
               system>>
    PROVE  StreamOrdered' /\ LiveIndexed' /\ ThreadsAttributed'
<1>1. StreamOrdered'
    OBVIOUS
<1>2. LiveIndexed'
    OBVIOUS
<1>3. ThreadsAttributed'
    OBVIOUS
<1>4. QED
    BY <1>1, <1>2, <1>3

\* The Range over the ended processes, and the steps on the records of ended
\* threads, come before or after threads are dropped.
LEMMA OutsideOrder ==
    ASSUME IndInv, InOrder, OrderInv,
           \/ PostScrapeCleanup \/ DropTermination \/ ProcsRemoved
           \/ DropExpired \/ RecordsFound \/ CleanupEnds
           \/ \E k \in Keys : VisitTermination(k)
           \/ \E t \in Tids : VisitRecord(t)
    PROVE  OrderInv'
<1>1. UNCHANGED <<instanceData, pidToCurrentStartKey,
          pidToCurrentProcessData, tidToCurrentProcessData, info, pool,
          callback, system>>
    BY DEF PostScrapeCleanup, DropTermination, ProcsRemoved, DropExpired,
       RecordsFound, CleanupEnds, VisitTermination, VisitRecord
<1>2. cpc' \in {"idle", "findProcs", "dropTermination", "findRecords",
                "dropExpired", "unmapThreads"}
    BY DEF PostScrapeCleanup, DropTermination, ProcsRemoved, DropExpired,
       RecordsFound, CleanupEnds, VisitTermination, VisitRecord, CleanerAt,
       CleanerDone
<1>3. ThreadsGoFirst'
    BY <1>1, <1>2
<1>4. QED
    BY <1>1, <1>3, FrameOrder

\* The Range starts with every thread to visit.
LEMMA ProcsFoundOrder ==
    ASSUME IndInv, InOrder, OrderInv, ProcsFound
    PROVE  OrderInv'
<1>1. /\ UNCHANGED <<tables, callback, system>>
      /\ cpc' \in {"findRecords", "findThreads"} /\ tidsToVisit' = Tids
    BY DEF ProcsFound
<1>2. ThreadsGoFirst'
    BY <1>1
<1>3. QED
    BY <1>1, <1>2, FrameOrder

\* A thread of a chosen process is noted when it is visited.
LEMMA VisitThreadOrder ==
    ASSUME IndInv, InOrder, OrderInv, NEW t \in Tids, VisitThread(t)
    PROVE  OrderInv'
<1>1. UNCHANGED <<tables, callback, system>>
    BY DEF VisitThread
<1>2. CASE tidToCurrentProcessData[t] = Nil
    <2>1. cpc' = "idle"
        BY <1>2 DEF VisitThread, CleanerDone
    <2>2. ThreadsGoFirst'
        BY <1>1, <2>1
    <2>3. QED
        BY <1>1, <2>2, FrameOrder
<1>3. CASE tidToCurrentProcessData[t] # Nil
    <2>1. /\ cpc = "findThreads" /\ UNCHANGED <<cpc, procsToClean, victim>>
          /\ tidsToVisit' = tidsToVisit \ {t}
          /\ tidsForDeletion' = IF OfChosen(t) THEN tidsForDeletion \union {t}
                                ELSE tidsForDeletion
        BY <1>3 DEF VisitThread, CleanerAt
    <2>2. ThreadsGoFirst'
        BY <1>1, <2>1
    <2>3. QED
        BY <1>1, <2>2, FrameOrder
<1>4. QED
    BY <1>2, <1>3

\* All threads have been visited, and then all that were noted are dropped.
LEMMA ThreadsFoundOrder ==
    ASSUME IndInv, InOrder, OrderInv,
           ThreadsFound \/ DropRecord \/ ThreadsDropped
    PROVE  OrderInv'
<1>1. UNCHANGED <<instanceData, pidToCurrentStartKey,
          pidToCurrentProcessData, tidToCurrentProcessData, info, pool,
          callback, system, procsToClean, tidsForDeletion, victim>>
    BY DEF ThreadsFound, DropRecord, ThreadsDropped
<1>2. ThreadsGoFirst'
    BY <1>1 DEF ThreadsFound, DropRecord, ThreadsDropped, CleanerAt
<1>3. QED
    BY <1>1, <1>2, FrameOrder

\* One thread less.
LEMMA DropThreadOrder ==
    ASSUME IndInv, InOrder, OrderInv, NEW t \in Tids, DropThread(t)
    PROVE  OrderInv'
<1>1. /\ cpc = "dropThreads" /\ cpc' = "dropRecord"
      /\ tidToCurrentProcessData' =
            [tidToCurrentProcessData EXCEPT ![t] = Absent]
      /\ tidsForDeletion' = tidsForDeletion \ {t}
      /\ UNCHANGED <<instanceData, pidToCurrentStartKey,
           pidToCurrentProcessData, info, pool, callback, procsToClean,
           victim, system>>
    BY DEF DropThread, CleanerAt
<1>2. StreamOrdered' /\ LiveIndexed'
    BY <1>1
<1>3. ThreadsAttributed'
    BY <1>1
<1>4. ThreadsGoFirst'
    BY <1>1
<1>5. QED
    BY <1>2, <1>3, <1>4

\* The process that is removed has ended, and no thread leads to it.
LEMMA RemoveInstanceOrder ==
    ASSUME IndInv, InOrder, OrderInv, NEW k \in Keys, RemoveInstance(k)
    PROVE  OrderInv'
<1>1. /\ cpc = "removeProcs" /\ k \in procsToClean
      /\ procsToClean' = procsToClean \ {k}
      /\ instanceData' = [instanceData EXCEPT ![k] = Absent]
      /\ \/ cpc' = cpc /\ UNCHANGED <<curKey, victim>>
         \/ cpc' = "unmapStartKey" /\ victim' = instanceData[k]
            /\ instanceData[k] # Absent
      /\ UNCHANGED <<pidToCurrentStartKey, pidToCurrentProcessData,
           tidToCurrentProcessData, info, pool, callback, system>>
    BY DEF RemoveInstance, CleanerAt, InstancesWithout
<1>2. phase[k] = "ended"
    BY <1>1
<1>3. \A t \in Tids : owner[t] # k
    BY <1>2
<1>4. StreamOrdered'
    BY <1>1
<1>5. LiveIndexed'
    BY <1>1, <1>2
<1>6. ThreadsAttributed'
    BY <1>1, <1>3
<1>7. ThreadsGoFirst'
    <2>1. \A t \in Tids : tidToCurrentProcessData[t] # instanceData[k]
                          \/ instanceData[k] = Absent
        BY <1>1
    <2>2. QED
        BY <1>1, <2>1
<1>8. QED
    BY <1>4, <1>5, <1>6, <1>7

\* Only what leads to the removed process is unmapped.
LEMMA UnmapOrder ==
    ASSUME IndInv, InOrder, OrderInv, UnmapStartKey \/ UnmapProcessData
    PROVE  OrderInv'
<1>1. /\ Unmapping /\ Unmapping'
      /\ UNCHANGED <<instanceData, tidToCurrentProcessData, info, pool,
           callback, procsToClean, victim, system>>
    BY DEF UnmapStartKey, UnmapProcessData, CleanerAt
<1>2. curKey \in Keys /\ phase[curKey] = "ended"
    BY <1>1
<1>3. \A k \in Keys : phase[k] = "live" => k # curKey
    BY <1>2
<1>4. \A p \in Pids :
        /\ pidToCurrentStartKey[p] \in Keys \ {curKey} =>
             pidToCurrentStartKey'[p] = pidToCurrentStartKey[p]
        /\ pidToCurrentProcessData[p] # Absent
             /\ info[pidToCurrentProcessData[p]].key # curKey =>
                  pidToCurrentProcessData'[p] = pidToCurrentProcessData[p]
    <2>1. CASE UnmapStartKey
        <3>1. /\ pidToCurrentProcessData' = pidToCurrentProcessData
              /\ pidToCurrentStartKey' = [pidToCurrentStartKey EXCEPT
                    ![info[victim].pid] = StartKeyAfter(@)]
            BY <2>1 DEF UnmapStartKey, CleanerAt
        <3>2. Absent \notin Keys
            BY KeysAssumption, ObjsAssumption
        <3>3. \A p \in Pids : pidToCurrentStartKey[p] \in Keys \ {curKey} =>
                StartKeyAfter(pidToCurrentStartKey[p]) = pidToCurrentStartKey[p]
            BY <3>2 DEF StartKeyAfter
        <3>4. QED
            BY <3>1, <3>3
    <2>2. CASE UnmapProcessData
        <3>1. /\ pidToCurrentStartKey' = pidToCurrentStartKey
              /\ pidToCurrentProcessData' = [pidToCurrentProcessData EXCEPT
                    ![info[victim].pid] = ProcessDataAfter(@)]
            BY <2>2 DEF UnmapProcessData, CleanerAt
        <3>2. QED
            BY <3>1 DEF ProcessDataAfter
    <2>3. QED
        BY <2>1, <2>2
<1>5. StreamOrdered' /\ ThreadsAttributed'
    BY <1>1
<1>6. LiveIndexed'
    <2>1. ASSUME NEW k \in Keys, phase[k] = "live", ~Storing(k)
          PROVE  /\ instanceData'[k] # Absent
                 /\ pidToCurrentStartKey'[PidOf[k]] = k
                 /\ pidToCurrentProcessData'[PidOf[k]] = instanceData'[k]
        <3>1. /\ instanceData[k] # Absent
              /\ pidToCurrentStartKey[PidOf[k]] = k
              /\ pidToCurrentProcessData[PidOf[k]] = instanceData[k]
            BY <2>1
        <3>2. info[instanceData[k]].key = k /\ k # curKey /\ PidOf[k] \in Pids
            BY <1>3, <2>1, <3>1
        <3>3. QED
            BY <1>1, <1>4, <3>1, <3>2
    <2>2. ASSUME hpc = "storeProcessData"
          PROVE  pidToCurrentStartKey'[PidOf[hkey]] = hkey
        <3>1. hkey \in Keys /\ phase[hkey] = "live" /\ PidOf[hkey] \in Pids
            BY <2>2
        <3>2. QED
            BY <1>3, <1>4, <2>2, <3>1
    <2>3. QED
        BY <1>1, <2>1, <2>2
<1>7. ThreadsGoFirst'
    BY <1>1
<1>8. QED
    BY <1>5, <1>6, <1>7

\* No thread leads to what is given back to the pool.
LEMMA RecycleOrder ==
    ASSUME IndInv, InOrder, OrderInv, Recycle
    PROVE  OrderInv'
<1>1. /\ cpc = "recycle" /\ cpc' = "removeProcs"
      /\ pool' = pool \union {victim}
      /\ UNCHANGED <<instanceData, pidToCurrentStartKey,
           pidToCurrentProcessData, tidToCurrentProcessData, info, callback,
           procsToClean, system>>
    BY DEF Recycle, CleanerAt
<1>2. ThreadsGoFirst'
    BY <1>1
<1>3. QED
    BY <1>1, <1>2, FrameOrder

\* A mapping is dropped, or a nil one stored.
LEMMA UnmapThreadOrder ==
    ASSUME IndInv, InOrder, OrderInv, NEW t \in Tids, UnmapThread(t)
    PROVE  OrderInv'
<1>1. /\ cpc' \in {"unmapThreads", "idle"}
      /\ \E o \in {Absent, Nil, tidToCurrentProcessData[t]} :
            tidToCurrentProcessData' = [tidToCurrentProcessData EXCEPT ![t] = o]
      /\ UNCHANGED <<instanceData, pidToCurrentStartKey,
           pidToCurrentProcessData, info, pool, callback, system>>
    BY DEF UnmapThread, CleanerAt, CleanerDone, MappingAfter
<1>2. StreamOrdered' /\ LiveIndexed'
    BY <1>1
<1>3. ThreadsAttributed'
    BY <1>1
<1>4. ThreadsGoFirst'
    BY <1>1
<1>5. QED
    BY <1>2, <1>3, <1>4

-----------------------------------------------------------------------------
(* The theorems.                                                           *)

HIDE DEF IndInv, TypeOK, HandlerLocals, CleanerLocals, Marks, Tables,
         PidIndexSound, vars, tables, callback, cleaner, system,
         OrderInv, StreamOrdered, LiveIndexed, ThreadsAttributed,
         ThreadsGoFirst, InOrder

\* A stream does not change its nature.
LEMMA WorkloadFixed == [Next]_vars => workload' = workload
    BY DEF Next, Callback, Cleaner, Waiting, vars, system, AddProcess,
       ProcessStarts, ProcessIsListed, MarkProcessForDeletion, LoseEvent,
       ProcessEnds, AddThread, ThreadIsListed, MarkThreadForDeletion,
       ThreadEnds, StoreInstance, StoreStartKey, StoreProcessData,
       FindInstance, StoreTermination, StoreThread, FindThread, StoreRecord,
       PostScrapeCleanup, VisitTermination, RemoveInstance, VisitThread,
       DropThread, VisitRecord, UnmapThread, DropTermination, ProcsFound,
       ThreadsFound, DropRecord, ThreadsDropped, UnmapStartKey,
       UnmapProcessData, Recycle, ProcsRemoved, DropExpired, RecordsFound,
       CleanupEnds

\* Every step of an ordered stream keeps the invariant.
LEMMA StepOrder == IndInv /\ OrderedInv /\ [Next]_vars => OrderedInv'
<1> SUFFICES ASSUME IndInv, OrderedInv, [Next]_vars, InOrder' PROVE OrderInv'
    BY DEF OrderedInv
<1>1. InOrder /\ OrderInv
    BY WorkloadFixed DEF InOrder, OrderedInv
<1>2. CASE Callback
    <2>1. \A k \in Keys : ~LoseEvent(k)
        BY <1>1 DEF LoseEvent, InOrder
    <2>2. QED
        BY <1>1, <1>2, <2>1, AddProcessOrder, MarkProcessForDeletionOrder,
           AddThreadOrder, MarkThreadForDeletionOrder, StoreInstanceOrder,
           StoreStartKeyOrder, StoreProcessDataOrder, MarksOrder,
           StoreThreadOrder DEF Callback
<1>3. CASE Cleaner
    BY <1>1, <1>3, OutsideOrder, ProcsFoundOrder, VisitThreadOrder,
       ThreadsFoundOrder, DropThreadOrder, RemoveInstanceOrder, UnmapOrder,
       RecycleOrder, UnmapThreadOrder DEF Cleaner
<1>4. CASE UNCHANGED vars
    <2>1. UNCHANGED <<instanceData, pidToCurrentStartKey,
              pidToCurrentProcessData, tidToCurrentProcessData, info, pool,
              callback, cleaner, system>>
        BY <1>4 DEF vars, tables
    <2>2. ThreadsGoFirst'
        BY <1>1, <2>1 DEF OrderInv, ThreadsGoFirst, OfChosen, Unmapping, cleaner
    <2>3. QED
        BY <1>1, <2>1, <2>2, FrameOrder DEF OrderInv
<1>5. QED
    BY <1>2, <1>3, <1>4 DEF Next, Waiting

\* The invariant holds of every behaviour.
LEMMA OrderInvariance == Spec => [](IndInv /\ OrderedInv)
<1>1. Init => IndInv /\ OrderedInv
    BY InitInv, InitOrder DEF OrderedInv
<1>2. IndInv /\ OrderedInv /\ [Next]_vars => (IndInv /\ OrderedInv)'
    BY StepInv, StepOrder
<1>3. QED
    BY <1>1, <1>2, PTL DEF Spec

\* Both pid indexes lead to a running process as soon as its start has been
\* handled, however often its pid was used before (AddProcess against
\* cleanupProcesses).
THEOREM RunningProcessesIndexed == Spec => []LiveProcessIndexed
<1>1. OrderedInv => LiveProcessIndexed
    BY DEF OrderedInv, OrderInv, LiveIndexed, Storing, LiveProcessIndexed
<1>2. QED
    BY <1>1, OrderInvariance, PTL

\* A running thread leads to the instance of its own process or to nothing;
\* whatever the stream, it is not given to a process younger than its own
\* (AddThread, cleanupThreadsForTerminatedProcesses).
THEOREM ThreadsAttributedRight == Spec => []ThreadNeverMisattributed
<1>1. IndInv /\ OrderedInv => ThreadNeverMisattributed
    BY DEF IndInv, HandlerLocals, OrderedInv, OrderInv, ThreadsAttributed,
       ThreadNeverMisattributed
<1>2. QED
    BY <1>1, OrderInvariance, PTL

\* No tid leads to an object of the pool: threads go before their process
\* (PostScrapeCleanup).
THEOREM ThreadsBeforeProcess == Spec => []NoThreadToRecycled
<1>1. OrderedInv => NoThreadToRecycled
    BY DEF OrderedInv, OrderInv, ThreadsGoFirst, NoThreadToRecycled
<1>2. QED
    BY <1>1, OrderInvariance, PTL
=============================================================================
