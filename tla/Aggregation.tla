---------------------------- MODULE Aggregation -----------------------------
(***************************************************************************)
(* The counters of the hot path and the scrape that sums them up.          *)
(*                                                                         *)
(* The ETW callback resolves the process of an event and adds to a counter *)
(* of its ProcessData and to a system-wide counter of the collector, in an *)
(* order that differs from collector to collector.  A scrape runs          *)
(* AggregateMetrics, which sums the counters of the processes of a program *)
(* in a map from a pool and swaps it in, then every collector's Collect,   *)
(* then the cleanup, which gives ProcessData objects back to their pool.   *)
(* A program is split by the service its process hosts: the name of the    *)
(* service comes from the tag that a thread carries, from the list of      *)
(* running services, or from a query that the aggregation makes.           *)
(*                                                                         *)
(* The tables of processes are those of StateManager, which looks at their *)
(* interleavings; here a process has a pid of its own, and the grace       *)
(* period may have passed for any process that has ended.  A counter is a  *)
(* bag of the processes that the system counted in it, so that its value   *)
(* says whose events it holds.                                             *)
(***************************************************************************)
EXTENDS Naturals, Sequences, FiniteSets, Functions

CONSTANTS
    Procs,             \* processes that the system runs
    SystemProc,        \* the one with pid 4, there from the start
    UnknownProc,       \* the unknown-process singleton
    ProgramOf,         \* name, checksum and session of a process
    Tags,              \* sub-process tags; a tag stands for its service too
    TagsOf,            \* the services that a process hosts
    Objs,              \* *ProcessData objects
    Maps,              \* aggregation maps
    Scrapers,          \* handlers of scrapes
    Kinds,             \* counters that are modelled
    EnablePerProcess,  \* the kinds of collectors with per-process metrics
    ByProtocol,        \* whether the network collector has system-wide ones
    None,              \* no object, tag, service or map
    Workloads          \* bounds, one of which a behaviour has: how many events,
                       \* registered tags, threads with a tag and scrapes

Inputs == {"events", "tags", "threads", "scrapes"}
AllKinds == {"disk", "memory", "network", "registry", "threads"}
Keys == Procs \union {UnknownProc}
Programs == {<<ProgramOf[k], t>> : k \in Keys, t \in Tags \union {None}}

ASSUME ProcsAssumption ==
    /\ SystemProc \in Procs /\ UnknownProc \notin Procs
    /\ DOMAIN ProgramOf = Keys
    /\ TagsOf \in [Procs -> SUBSET Tags] /\ TagsOf[SystemProc] = {}
    /\ None \notin Procs \union Tags \union Objs \union Maps \union Scrapers
    /\ "callback" \notin Scrapers
ASSUME OptionsAssumption ==
    /\ Kinds \subseteq AllKinds
    /\ EnablePerProcess \subseteq Kinds
    /\ {"disk", "network", "threads"} \intersect Kinds
          \subseteq EnablePerProcess
    /\ ByProtocol \in BOOLEAN
    /\ Workloads \subseteq [Inputs -> Nat]
ASSUME FiniteAssumption == IsFiniteSet(Procs) /\ IsFiniteSet(Tags)

VARIABLES
    instanceData,             \* process -> object
    pidToCurrentProcessData,  \* the same, by pid
    info,                     \* object -> ProcessInfo
    counts,                   \* object -> kind -> bag of processes
    processDataPool,
    serviceTags,              \* tags with a known service
    systemWide,               \* kind -> counter of the collector
    loc,                      \* goroutine -> what it is doing
    pc,                       \* scraper -> where it is
    scrape,                   \* scraper -> locals of its scrape
    aggregatedData,           \* the map that collectors read
    maps,                     \* map -> program -> kind -> bag
    aggregationDataPool,
    serviceListOnce,          \* "todo", "running" or "done"
    cleanupMu,                \* the scraper in the cleanup
    phase,                    \* process -> "new", "live" or "ended"
    happened,                 \* kind -> bag of the events so far
    left                      \* what is left of the workload

tables == <<instanceData, pidToCurrentProcessData, info, counts,
            processDataPool>>
aggregation == <<aggregatedData, maps, aggregationDataPool>>
system == <<phase, happened, left>>
vars == <<tables, serviceTags, systemWide, loc, pc, scrape, aggregation,
          serviceListOnce, cleanupMu, system>>

Goroutines == {"callback"} \union Scrapers
NoBag == [k \in Keys |-> 0]
NoCounts == [i \in Kinds |-> NoBag]
NoPrograms == <<>>  \* the function with no program in its domain
Total(bag) == FoldFunction(+, 0, bag)
Plus(a, b) == [k \in Keys |-> a[k] + b[k]]
Idle == [todo |-> <<>>, kind |-> None, proc |-> None, obj |-> None,
         tag |-> None]
NoScrape == [toVisit |-> {}, attempted |-> {}, building |-> None,
             program |-> None, old |-> None, held |-> None, toCollect |-> {},
             system |-> [i \in Kinds |-> 0],
             programs |-> [i \in Kinds |-> NoPrograms],
             before |-> NoCounts]

\* The unknown process and the System process have objects from the start.
Init ==
    \E u, o \in Objs :
        /\ u # o
        /\ instanceData = [k \in Keys |-> CASE k = UnknownProc -> u
                                            [] k = SystemProc -> o
                                            [] OTHER -> None]
        /\ pidToCurrentProcessData = [p \in Procs |->
                IF p = SystemProc THEN o ELSE None]
        /\ info = [x \in Objs |->
                [proc |-> CASE x = u -> UnknownProc
                            [] x = o -> SystemProc
                            [] OTHER -> None,
                 tag |-> None, service |-> None]]
        /\ processDataPool = Objs \ {u, o}
        /\ counts = [x \in Objs |-> NoCounts]
        /\ serviceTags = {}
        /\ systemWide = [i \in Kinds |-> 0]
        /\ loc = [g \in Goroutines |-> Idle]
        /\ pc = [s \in Scrapers |-> "idle"]
        /\ scrape = [s \in Scrapers |-> NoScrape]
        /\ aggregatedData = None
        /\ maps = [m \in Maps |-> NoPrograms]
        /\ aggregationDataPool = Maps
        /\ serviceListOnce = "todo" /\ cleanupMu = None
        /\ phase = [p \in Procs |->
                IF p = SystemProc THEN "live" ELSE "new"]
        /\ happened = NoCounts /\ left \in Workloads

-----------------------------------------------------------------------------
(* What a goroutine has to do next.                                        *)

Free(g) == loc[g].todo = <<>>
At(g, step) == ~Free(g) /\ Head(loc[g].todo) = step
Rest(g) == [loc EXCEPT ![g].todo = Tail(@)]
Uses(input) == left[input] > 0 /\ left' = [left EXCEPT ![input] = @ - 1]
Stop(g) == [loc EXCEPT ![g] = Idle]

(* The hot path.                                                           *)

\* mutant: a hard fault is counted for its process first
StepsOf_ProcessFirst(kind) == <<"resolve", "process", "system">>

\* RecordDiskIO and RecordRegistryOperation count system-wide first, the
\* hard-fault handler before it looks for the process; the network and
\* context-switch handlers count for the process first.
SystemFirst == {"disk", "memory", "registry"}
StepsOf(kind) ==
    CASE kind \in {"disk", "registry"} -> <<"resolve", "system", "process">>
      [] kind = "memory" -> <<"system", "resolve", "process">>
      [] OTHER -> <<"resolve", "process", "system">>

\* GetCurrentProcessDataByThread finds the object of a thread's process, or
\* nothing for a thread whose start was not seen.  Disk I/O then goes to the
\* process of the header and in the end to System, a hard fault to the unknown
\* process, a context switch to nobody; registry and network events are looked
\* up by pid only.
Or(o, fallback) == IF o # None THEN o ELSE fallback

ByPid(p) == {pidToCurrentProcessData[p]}
ByThread(p) == ByPid(p) \union {None}
IssuingProcesses(p) ==
    {Or(o, pidToCurrentProcessData[SystemProc]) : o \in ByThread(p)}
FaultingProcesses(p) == {Or(o, instanceData[UnknownProc]) : o \in ByThread(p)}

Resolutions(kind, p) ==
    CASE kind = "disk" -> IssuingProcesses(p)
      [] kind = "memory" -> FaultingProcesses(p)
      [] kind = "threads" -> ByThread(p)
      [] OTHER -> ByPid(p)

\* EventRecordCallback hands an event to the handler of its collector.
Event(kind, p) ==
    /\ Free("callback") /\ phase[p] # "new"
    /\ Uses("events")
    /\ happened' = [happened EXCEPT ![kind][p] = @ + 1]
    /\ loc' = [loc EXCEPT !["callback"] =
            [Idle EXCEPT !.todo = StepsOf(kind), !.kind = kind, !.proc = p]]
    /\ UNCHANGED <<tables, serviceTags, systemWide, pc, scrape, aggregation,
                   serviceListOnce, cleanupMu, phase>>

\* Registry and network events of a process that is not tracked are skipped.
ResolveProcess ==
    /\ At("callback", "resolve")
    /\ \E o \in Resolutions(loc["callback"].kind, loc["callback"].proc) :
        loc' = IF o = None /\ loc["callback"].kind \in {"registry", "network"}
               THEN Stop("callback")
               ELSE [Rest("callback") EXCEPT !["callback"].obj = o]
    /\ UNCHANGED <<tables, serviceTags, systemWide, pc, scrape, aggregation,
                   serviceListOnce, cleanupMu, system>>

CountSystemWide ==
    /\ At("callback", "system")
    /\ LET kind == loc["callback"].kind
       IN  systemWide' = IF kind = "network" /\ ~ByProtocol THEN systemWide
                         ELSE [systemWide EXCEPT ![kind] = @ + 1]
    /\ loc' = Rest("callback")
    /\ UNCHANGED <<tables, serviceTags, pc, scrape, aggregation,
                   serviceListOnce, cleanupMu, system>>

CountForProcess ==
    /\ At("callback", "process")
    /\ LET c == loc["callback"]
       IN  counts' = IF c.obj = None \/ c.kind \notin EnablePerProcess
                     THEN counts
                     ELSE [counts EXCEPT ![c.obj][c.kind][c.proc] = @ + 1]
    /\ loc' = Rest("callback")
    /\ UNCHANGED <<instanceData, pidToCurrentProcessData, info,
                   processDataPool, serviceTags, systemWide, pc, scrape,
                   aggregation, serviceListOnce, cleanupMu, system>>

-----------------------------------------------------------------------------
(* Processes and their services.                                           *)

Reset_Never(o) == counts   \* mutant: the cleanup is trusted to have done it

\* ProcessData.Reset.
Reset(o) == [counts EXCEPT ![o] = NoCounts]

\* AddProcess empties the object that it takes, so that nothing that was
\* written after its owner was cleaned up is left in it.
AddProcess(p) ==
    /\ Free("callback") /\ phase[p] = "new"
    /\ phase' = [phase EXCEPT ![p] = "live"]
    /\ \E o \in processDataPool :
        /\ processDataPool' = processDataPool \ {o}
        /\ counts' = Reset(o)
        /\ info' = [info EXCEPT ![o] =
                [proc |-> p, tag |-> None, service |-> None]]
        /\ loc' = [loc EXCEPT !["callback"] = [Idle EXCEPT
                !.todo = <<"publish">>, !.proc = p, !.obj = o]]
    /\ UNCHANGED <<instanceData, pidToCurrentProcessData, serviceTags,
                   systemWide, pc, scrape, aggregation, serviceListOnce,
                   cleanupMu, happened, left>>

PublishProcess ==
    /\ At("callback", "publish")
    /\ LET c == loc["callback"]
       IN  /\ instanceData' = [instanceData EXCEPT ![c.proc] = c.obj]
           /\ pidToCurrentProcessData' =
                [pidToCurrentProcessData EXCEPT ![c.proc] = c.obj]
    /\ loc' = Stop("callback")
    /\ UNCHANGED <<info, counts, processDataPool, serviceTags, systemWide, pc,
                   scrape, aggregation, serviceListOnce, cleanupMu, system>>

MarkProcessForDeletion(p) ==
    /\ Free("callback") /\ phase[p] = "live" /\ p # SystemProc
    /\ phase' = [phase EXCEPT ![p] = "ended"]
    /\ UNCHANGED <<tables, serviceTags, systemWide, loc, pc, scrape,
                   aggregation, serviceListOnce, cleanupMu, happened, left>>

\* A SystemConfig event names the service of a tag.
RegisterServiceTag(t) ==
    /\ Free("callback") /\ t \notin serviceTags /\ Uses("tags")
    /\ serviceTags' = serviceTags \union {t}
    /\ UNCHANGED <<tables, systemWide, loc, pc, scrape, aggregation,
                   serviceListOnce, cleanupMu, phase, happened>>

Resolving(o, t) == [Idle EXCEPT !.todo = <<"tag", "lookup", "name">>,
                                !.obj = o, !.tag = t]

\* AddThread: a thread carries the tag of a service of its process; one of
\* the System process that of any service it works for.
AddThread(p, t) ==
    /\ Free("callback") /\ Uses("threads")
    /\ t \in IF p = SystemProc THEN Tags ELSE TagsOf[p]
    /\ pidToCurrentProcessData[p] # None
    /\ loc' = [loc EXCEPT !["callback"] =
                    Resolving(pidToCurrentProcessData[p], t)]
    /\ UNCHANGED <<tables, serviceTags, systemWide, pc, scrape, aggregation,
                   serviceListOnce, cleanupMu, phase, happened>>

IsSystem_Never(o) == FALSE   \* mutant: System gets the service of a thread

\* resolveAndApplyServiceName, between its locks: the tag is stored unless
\* the process is System or has a service already ...
IsSystem(o) == info[o].proc = SystemProc
StoreTag(g) ==
    /\ At(g, "tag")
    /\ LET o == loc[g].obj
       IN  IF IsSystem(o) \/ info[o].service # None
           THEN loc' = Stop(g) /\ UNCHANGED info
           ELSE /\ info' = [info EXCEPT ![o].tag = loc[g].tag]
                /\ loc' = Rest(g)
    /\ UNCHANGED <<instanceData, pidToCurrentProcessData, counts,
                   processDataPool, serviceTags, systemWide, pc, scrape,
                   aggregation, serviceListOnce, cleanupMu, system>>

\* ... its service is looked up ...
LookUpService(g) ==
    /\ At(g, "lookup")
    /\ loc' = IF loc[g].tag \in serviceTags THEN Rest(g) ELSE Stop(g)
    /\ UNCHANGED <<tables, serviceTags, systemWide, pc, scrape, aggregation,
                   serviceListOnce, cleanupMu, system>>

\* mutant: the service is stored without another look under the lock
Named_Always(o, t) == [info EXCEPT ![o].service = t]

\* ... and stored, unless somebody has stored one meanwhile.
Named(o, t) == IF info[o].service = None
               THEN [info EXCEPT ![o].service = t] ELSE info
StoreService(g) ==
    /\ At(g, "name")
    /\ info' = Named(loc[g].obj, loc[g].tag)
    /\ loc' = Stop(g)
    /\ UNCHANGED <<instanceData, pidToCurrentProcessData, counts,
                   processDataPool, serviceTags, systemWide, pc, scrape,
                   aggregation, serviceListOnce, cleanupMu, system>>

-----------------------------------------------------------------------------
(* A scrape: AggregateMetrics.                                             *)

InScrape(s, at) == pc[s] = at /\ Free(s)
Go(s, at) == [pc EXCEPT ![s] = at]

\* What the process itself has in its counters.
Recorded == [i \in Kinds |-> [k \in Keys |->
                IF instanceData[k] = None THEN 0
                ELSE counts[instanceData[k]][i][k]]]

\* The first scrape applies the list of running services, a later one waits
\* for it (serviceListOnce).
BeginScrape(s) ==
    /\ InScrape(s, "idle") /\ Uses("scrapes")
    /\ serviceListOnce # "running"
    /\ scrape' = [scrape EXCEPT ![s].before = Recorded]
    /\ \/ /\ serviceListOnce = "todo"
          /\ serviceListOnce' = "running" /\ pc' = Go(s, "services")
       \/ /\ serviceListOnce = "done"
          /\ UNCHANGED serviceListOnce /\ pc' = Go(s, "get")
    /\ UNCHANGED <<tables, serviceTags, systemWide, loc, aggregation,
                   cleanupMu, phase, happened>>

\* GetRunningServicesSnapshot: a process that hosts several services is
\* listed with one of them.  It may fail.
SnapshotServices(s) ==
    /\ InScrape(s, "services")
    /\ \E listed \in {{}, {p \in Procs : phase[p] = "live" /\ TagsOf[p] # {}}} :
        scrape' = [scrape EXCEPT ![s].toVisit = listed]
    /\ pc' = Go(s, "apply")
    /\ UNCHANGED <<tables, serviceTags, systemWide, loc, aggregation,
                   serviceListOnce, cleanupMu, system>>

\* ApplyServices: only a service whose tag is known and a process that is
\* tracked.
ApplyService(s) ==
    /\ InScrape(s, "apply")
    /\ \E p \in scrape[s].toVisit, t \in Tags :
        /\ t \in TagsOf[p]
        /\ scrape' = [scrape EXCEPT ![s].toVisit = @ \ {p}]
        /\ LET o == pidToCurrentProcessData[p]
           IN  loc' = IF t \in serviceTags /\ o # None
                      THEN [loc EXCEPT ![s] = Resolving(o, t)] ELSE loc
    /\ UNCHANGED <<tables, serviceTags, systemWide, pc, aggregation,
                   serviceListOnce, cleanupMu, system>>

ServicesApplied(s) ==
    /\ InScrape(s, "apply") /\ scrape[s].toVisit = {}
    /\ serviceListOnce' = "done"
    /\ pc' = Go(s, "get")
    /\ UNCHANGED <<tables, serviceTags, systemWide, loc, scrape, aggregation,
                   cleanupMu, system>>

\* A map from the pool; RangeProcesses then visits every key.
GetMap(s) ==
    /\ InScrape(s, "get")
    /\ \E m \in aggregationDataPool :
        /\ aggregationDataPool' = aggregationDataPool \ {m}
        /\ scrape' = [scrape EXCEPT ![s].building = m, ![s].toVisit = Keys,
                                    ![s].attempted = {}]
    /\ pc' = Go(s, "range")
    /\ UNCHANGED <<tables, serviceTags, systemWide, loc, aggregatedData, maps,
                   serviceListOnce, cleanupMu, system>>

\* The lock is taken to look at the tag, and again later for the key.
VisitProcess(s) ==
    /\ InScrape(s, "range")
    /\ \E k \in scrape[s].toVisit :
        LET o == instanceData[k]
            t == info[o].tag
            unnamed == /\ o # None /\ t # None /\ info[o].service = None
                       /\ t \notin scrape[s].attempted
        IN  /\ loc' = IF o = None THEN loc
                      ELSE [loc EXCEPT ![s].obj = o,
                                ![s].tag = IF unnamed THEN t ELSE None]
            /\ scrape' = [scrape EXCEPT ![s].toVisit = @ \ {k},
                    ![s].attempted = IF unnamed THEN @ \union {t} ELSE @]
            /\ pc' = IF o = None THEN pc
                     ELSE Go(s, IF unnamed THEN "query" ELSE "key")
    /\ UNCHANGED <<tables, serviceTags, systemWide, aggregation,
                   serviceListOnce, cleanupMu, system>>

\* QueryServiceNameByTag fails, or names the service, which is remembered
\* for its tag.
QueryServiceName(s) ==
    /\ InScrape(s, "query")
    /\ \/ pc' = Go(s, "key") /\ UNCHANGED serviceTags
       \/ /\ pc' = Go(s, "store")
          /\ serviceTags' = serviceTags \union {loc[s].tag}
    /\ UNCHANGED <<tables, systemWide, loc, scrape, aggregation,
                   serviceListOnce, cleanupMu, system>>

StoreQueried(s) ==
    /\ InScrape(s, "store")
    /\ info' = Named(loc[s].obj, loc[s].tag)
    /\ pc' = Go(s, "key")
    /\ UNCHANGED <<instanceData, pidToCurrentProcessData, counts,
                   processDataPool, serviceTags, systemWide, loc, scrape,
                   aggregation, serviceListOnce, cleanupMu, system>>

\* ProgramAggregationKey.
ReadKey(s) ==
    /\ InScrape(s, "key")
    /\ LET i == info[loc[s].obj]
       IN  scrape' = [scrape EXCEPT ![s].program =
                        <<ProgramOf[i.proc], i.service>>]
    /\ pc' = Go(s, "sum")
    /\ UNCHANGED <<tables, serviceTags, systemWide, loc, aggregation,
                   serviceListOnce, cleanupMu, system>>

\* The counters of a process are added to those of its program.
Added_Twice(programs, g, own) ==   \* mutant: also to an entry made from them
    LET entry == IF g \in DOMAIN programs THEN programs[g] ELSE own
        sum == [i \in Kinds |-> Plus(entry[i], own[i])]
    IN  [h \in DOMAIN programs \union {g} |->
            IF h = g THEN sum ELSE programs[h]]

Added(programs, g, own) ==
    LET entry == IF g \in DOMAIN programs THEN programs[g] ELSE NoCounts
        sum == [i \in Kinds |-> Plus(entry[i], own[i])]
    IN  [h \in DOMAIN programs \union {g} |->
            IF h = g THEN sum ELSE programs[h]]

\* One reading of each counter; no two of them are related.
SumCounters(s) ==
    /\ InScrape(s, "sum")
    /\ maps' = [maps EXCEPT ![scrape[s].building] =
                    Added(@, scrape[s].program, counts[loc[s].obj])]
    /\ loc' = Stop(s)
    /\ pc' = Go(s, "range")
    /\ UNCHANGED <<tables, serviceTags, systemWide, scrape, aggregatedData,
                   aggregationDataPool, serviceListOnce, cleanupMu, system>>

\* The new map becomes the live one, the live one is to be cleared.
Installed(s) == [scrape EXCEPT ![s].old = aggregatedData,
                               ![s].building = None, ![s].program = None,
                               ![s].attempted = {}]
Swap(s) ==
    /\ InScrape(s, "range") /\ scrape[s].toVisit = {}
    /\ aggregatedData' = scrape[s].building
    /\ scrape' = Installed(s)
    /\ pc' = Go(s, "clear")
    /\ UNCHANGED <<tables, serviceTags, systemWide, loc, maps,
                   aggregationDataPool, serviceListOnce, cleanupMu, system>>

\* mutant: the live map is cleared instead of the old one
Cleared_Live(m) == [maps EXCEPT ![aggregatedData] = NoPrograms]

Cleared(m) == [maps EXCEPT ![m] = NoPrograms]
ClearOld(s) ==
    /\ InScrape(s, "clear")
    /\ LET old == scrape[s].old
       IN  IF old = None THEN UNCHANGED <<maps, aggregationDataPool>>
           ELSE /\ maps' = Cleared(old)
                /\ aggregationDataPool' = aggregationDataPool \union {old}
    /\ scrape' = [scrape EXCEPT ![s].old = None, ![s].toCollect = Kinds]
    /\ pc' = Go(s, "collect")
    /\ UNCHANGED <<tables, serviceTags, systemWide, loc, aggregatedData,
                   serviceListOnce, cleanupMu, system>>

-----------------------------------------------------------------------------
(* The collectors, in any order, then the cleanup.                         *)

\* The network collector reads the programs first, the others last; the
\* process info collector reads nothing but the keys.
CollectOrder(kind) ==
    IF kind = "network" THEN <<"hold", "programs", "total">>
    ELSE <<"total", "hold", "programs">>

Collect(s, kind) ==
    /\ InScrape(s, "collect") /\ kind \in scrape[s].toCollect
    /\ scrape' = [scrape EXCEPT ![s].toCollect = @ \ {kind}]
    /\ loc' = [loc EXCEPT ![s] =
                [Idle EXCEPT !.todo = CollectOrder(kind), !.kind = kind]]
    /\ UNCHANGED <<tables, serviceTags, systemWide, pc, aggregation,
                   serviceListOnce, cleanupMu, system>>

CollectTotal(s) ==
    /\ At(s, "total")
    /\ scrape' = [scrape EXCEPT ![s].system[loc[s].kind] =
                    systemWide[loc[s].kind]]
    /\ loc' = Rest(s)
    /\ UNCHANGED <<tables, serviceTags, systemWide, pc, aggregation,
                   serviceListOnce, cleanupMu, system>>

\* RangeAggregatedMetrics takes the map under its lock ...
HoldMap(s) ==
    /\ At(s, "hold")
    /\ scrape' = [scrape EXCEPT ![s].held = aggregatedData]
    /\ loc' = Rest(s)
    /\ UNCHANGED <<tables, serviceTags, systemWide, pc, aggregation,
                   serviceListOnce, cleanupMu, system>>

\* ... and reads it without.
CollectPrograms(s) ==
    /\ At(s, "programs")
    /\ LET kind == loc[s].kind
           m == maps[scrape[s].held]
       IN  scrape' = [scrape EXCEPT ![s].held = None,
                ![s].programs[kind] = [g \in DOMAIN m |-> m[g][kind]]]
    /\ loc' = Rest(s)
    /\ UNCHANGED <<tables, serviceTags, systemWide, pc, aggregation,
                   serviceListOnce, cleanupMu, system>>

\* PostScrapeCleanup, one at a time, of some processes that have ended.
BeginCleanup(s) ==
    /\ InScrape(s, "collect") /\ scrape[s].toCollect = {}
    /\ cleanupMu = None /\ cleanupMu' = s
    /\ \E expired \in SUBSET {p \in Procs : /\ phase[p] = "ended"
                                            /\ instanceData[p] # None} :
        scrape' = [scrape EXCEPT ![s].toVisit = expired]
    /\ pc' = Go(s, "cleanup")
    /\ UNCHANGED <<tables, serviceTags, systemWide, loc, aggregation,
                   serviceListOnce, system>>

\* cleanupProcesses: out of the tables, then into the pool.
Untrack(s) ==
    /\ InScrape(s, "cleanup")
    /\ \E p \in scrape[s].toVisit :
        /\ loc' = [loc EXCEPT ![s] = [Idle EXCEPT
                !.todo = <<"recycle">>, !.proc = p, !.obj = instanceData[p]]]
        /\ instanceData' = [instanceData EXCEPT ![p] = None]
        /\ scrape' = [scrape EXCEPT ![s].toVisit = @ \ {p}]
    /\ UNCHANGED <<pidToCurrentProcessData, info, counts, processDataPool,
                   serviceTags, systemWide, pc, aggregation, serviceListOnce,
                   cleanupMu, system>>

Recycle(s) ==
    /\ At(s, "recycle")
    /\ pidToCurrentProcessData' =
            [pidToCurrentProcessData EXCEPT ![loc[s].proc] = None]
    /\ processDataPool' = processDataPool \union {loc[s].obj}
    /\ loc' = Stop(s)
    /\ UNCHANGED <<instanceData, info, counts, serviceTags, systemWide, pc,
                   scrape, aggregation, serviceListOnce, cleanupMu, system>>

EndScrape(s) ==
    /\ InScrape(s, "cleanup") /\ scrape[s].toVisit = {}
    /\ cleanupMu' = None
    /\ pc' = Go(s, "idle")
    /\ scrape' = [scrape EXCEPT ![s] = NoScrape]
    /\ UNCHANGED <<tables, serviceTags, systemWide, loc, aggregation,
                   serviceListOnce, system>>

-----------------------------------------------------------------------------
CallbackStarts ==
    \/ \E kind \in Kinds, p \in Procs : Event(kind, p)
    \/ \E p \in Procs : AddProcess(p) \/ MarkProcessForDeletion(p)
    \/ \E t \in Tags : RegisterServiceTag(t)
    \/ \E p \in Procs, t \in Tags : AddThread(p, t)

CallbackWorks ==
    \/ ResolveProcess \/ CountSystemWide \/ CountForProcess \/ PublishProcess

AggregateMetrics(s) ==
    \/ BeginScrape(s) \/ SnapshotServices(s) \/ ApplyService(s)
    \/ ServicesApplied(s) \/ GetMap(s) \/ VisitProcess(s)
    \/ QueryServiceName(s) \/ StoreQueried(s) \/ ReadKey(s) \/ SumCounters(s)
    \/ Swap(s) \/ ClearOld(s)

CollectAndClean(s) ==
    \/ \E kind \in Kinds : Collect(s, kind)
    \/ CollectTotal(s) \/ HoldMap(s) \/ CollectPrograms(s)
    \/ BeginCleanup(s) \/ Untrack(s) \/ Recycle(s) \/ EndScrape(s)

\* The bound on scrapes is used up, and nobody is in the middle of anything.
Waiting ==
    /\ \A g \in Goroutines : Free(g)
    /\ \A s \in Scrapers : pc[s] = "idle"
    /\ left.scrapes = 0
    /\ UNCHANGED vars

Next ==
    \/ Waiting
    \/ CallbackStarts \/ CallbackWorks
    \/ \E g \in Goroutines : StoreTag(g) \/ LookUpService(g) \/ StoreService(g)
    \/ \E s \in Scrapers : AggregateMetrics(s) \/ CollectAndClean(s)

Spec == Init /\ [][Next]_vars

-----------------------------------------------------------------------------
(* Properties.                                                             *)

Places == {"idle", "services", "apply", "get", "range", "query", "store",
           "key", "sum", "clear", "collect", "cleanup"}
Bags == [Keys -> Nat]

\* Counters hold events of processes, a scrape is where its locals say, and
\* what a goroutine has in hand is an object or nothing.
TypeOK ==
    /\ instanceData \in [Keys -> Objs \union {None}]
    /\ pidToCurrentProcessData \in [Procs -> Objs \union {None}]
    /\ info \in [Objs -> [proc : Keys \union {None},
                          tag : Tags \union {None},
                          service : Tags \union {None}]]
    /\ counts \in [Objs -> [Kinds -> Bags]]
    /\ processDataPool \subseteq Objs
    /\ serviceTags \subseteq Tags
    /\ systemWide \in [Kinds -> Nat]
    /\ \A g \in Goroutines :
        /\ loc[g].kind \in Kinds \union {None}
        /\ loc[g].proc \in Procs \union {None}
        /\ loc[g].obj \in Objs \union {None}
        /\ loc[g].tag \in Tags \union {None}
    /\ \A s \in Scrapers :
        /\ pc[s] \in Places
        /\ pc[s] \in {"query", "store", "key", "sum"} => loc[s].obj \in Objs
        /\ scrape[s].building \in Maps <=> pc[s] \in
                {"range", "query", "store", "key", "sum"}
    /\ aggregatedData \in Maps \union {None}
    /\ \A m \in Maps : DOMAIN maps[m] \subseteq Programs
    /\ aggregationDataPool \subseteq Maps
    /\ serviceListOnce \in {"todo", "running", "done"}
    /\ cleanupMu \in Scrapers \union {None}
    /\ phase \in [Procs -> {"new", "live", "ended"}]
    /\ happened \in [Kinds -> Bags] /\ left \in [Inputs -> Nat]

\* What the scrape has exported of a process, under whatever program.
Exported(s, kind, k) ==
    LET programs == scrape[s].programs[kind]
    IN  Total([g \in DOMAIN programs |-> programs[g][k]])
HasExported(s) == pc[s] = "cleanup"

\* A scrape exports everything that had been counted for a tracked process
\* when it began: nothing is left behind in a map that was swapped out or
\* cleared, or under the program that a process had before its service got
\* its name (AggregateMetrics, RangeAggregatedMetrics).
ExportComplete ==
    \A s \in Scrapers : HasExported(s) =>
        \A i \in Kinds, k \in Procs :
            Exported(s, i, k) >= scrape[s].before[i][k]

\* No event is exported twice in one scrape: a map that comes back from the
\* pool has nothing of an earlier scrape in it, and no process is summed
\* under two programs.
ExportNotInflated ==
    \A s \in Scrapers : HasExported(s) =>
        \A i \in Kinds, k \in Procs : Exported(s, i, k) <= happened[i][k]

\* The counters of a tracked process hold events of that process only, even
\* when the object had an earlier owner whose events were still being
\* counted while it was given back (AddProcess, ProcessData.Reset).
NoInheritance ==
    \A k \in Procs \ {SystemProc} :
        instanceData[k] # None => \A i \in Kinds, q \in Procs :
            q # k => counts[instanceData[k]][i][q] = 0

\* The programs of a scrape never add up to more than the system-wide
\* counter exported beside them, but for the one event that the callback may
\* have counted for its process and not yet for the system.
ProgramsWithinSystem ==
    \A s \in Scrapers : HasExported(s) =>
        \A i \in IF ByProtocol THEN Kinds ELSE Kinds \ {"network"} :
            Total([k \in Procs |-> Exported(s, i, k)])
                <= scrape[s].system[i] + (IF i \in SystemFirst THEN 0 ELSE 1)

\* A process is never given the service of another one: neither through its
\* object, which somebody may have had in hand when it was recycled, nor
\* through the threads that System runs for services
\* (resolveAndApplyServiceName, AggregateMetrics).
ServiceRight ==
    \A k \in Procs : instanceData[k] # None =>
        info[instanceData[k]].service \in {None} \union TagsOf[k]

\* A process that has got its service keeps it for as long as it is tracked,
\* so that its counters do not move from one series to another, whichever of
\* the callback and the scrape comes second.
ServiceStable ==
    [][\A k \in Procs :
        LET o == instanceData[k]
        IN  o # None /\ instanceData'[k] = o /\ info[o].service # None
                => info'[o].service = info[o].service]_vars
=============================================================================
