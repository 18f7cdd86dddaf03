# A verification project for etw_exporter

`etw_exporter` is a Prometheus exporter for Windows: it starts two real-time
ETW sessions, routes every kernel event to handlers, keeps tables of the
processes, threads, images and services of the system, aggregates counters on
a hot path, and serves them to a scraper.  This directory holds TLA+ modules
that model its state machines, TLC configurations that check them on small
instances, and theorems checked by TLAPS.

Paths below are relative to the repository; `sm/` stands for
`src/internal/kernel/statemanager/`.

## 1. Inventory

| component | state | operations | shared with |
|---|---|---|---|
| process table (`sm/s_process_manager.go`) | `instanceData`, `terminatedProcesses`, `pidToCurrentStartKey`, `pidToCurrentProcessData`, an object pool | AddProcess, MarkProcessForDeletion, EnrichProcessWithImageData, cleanupProcesses | callback and cleanup goroutines, without a common lock |
| thread table (`sm/s_thread_manager.go`) | `tidToCurrentProcessData`, `terminatedThreads` | AddThread, MarkThreadForDeletion, cleanupTerminated, cleanupThreadsForTerminatedProcesses | same |
| adaptive grace period (`sm/s_state_manager.go`) | scrape counter, ring buffer of intervals | PostScrapeCleanup, threshold, watchdog | scrapes, watchdog ticker |
| image table (`sm/s_image_manager.go`) | `images`, `addressCache`, reference counts, `terminatedImages`, pool | AddImage, UnloadImage, GetImageForAddress, RemoveImage, cleanupTerminated | callback, perf lookups, cleanup |
| service names (`sm/s_service_manager.go`) | tag to name map | RegisterServiceTag, resolveAndApplyServiceName | callback, aggregation |
| aggregation (`sm/aggregation.go`) | aggregated map, `unknownTagsAttempted` | AggregateMetrics, RangeAggregatedMetrics | every scrape, hot-path counters |
| hot-path counters (`sm/process_*.go`) | per-process disk, network, memory, registry, thread counters | double-checked creation, atomic adds, Reset | callback, aggregation, object pool |
| concurrent maps (`src/internal/maps`) | shards of locked maps, sync.Map, xsync | Load, Store, LoadOrStore, Update, Range... | everything |
| session manager (`src/internal/etw/etw_session.go`) | two sessions, the consumer, `running`, contexts | Start, Stop, restart, monitor, rundown | several goroutines |
| session watcher (`src/internal/etw/watcher`) | watched session names | HandleSessionStop | session manager |
| event routing (`src/internal/etw/event_handler.go`) | route table | NewEventHandler, RouteEvent | built once, read by the callback |
| provider groups (`src/internal/etw/provider_groups.go`) | none (functions of the configuration) | GetEnabledKernelFlags... | event handler, sessions |
| ISR/DPC collector (`src/internal/collectors/kernelperf`) | pending DPC per CPU, pending ISRs, histograms | ProcessISREvent, ProcessDPCEvent, ProcessCSwitchEvent, Collect | callback, scrape |
| thread collector (`src/internal/collectors/kernelthread`) | per-CPU switch intervals and counts | RecordCpuContextSwitch, Collect | callback, scrape |
| disk, memory, registry, network and process collectors (`src/internal/collectors/...`) | system-wide counters | Record..., Collect | callback, scrape |
| system configuration collector (`src/internal/collectors/kernelsysconfig`) | disks, volumes, the metrics requested | RequestMetrics, AddPhysicalDisk, AddLogicalDisk, Collect | callbacks of the capture and the kernel session, scrape |
| metrics server (`src/etw_exporter.go`) | HTTP server, run loop | metricsHandler, Run, Shutdown | everything |
| configuration, logging, Windows API wrappers (`src/internal/config`, `logger`, `windowsapi`) | file and system state | parsing, formatting, system calls | at start |

**How they interact.** The ETW library calls `EventRecordCallback` for one
event after the other; the callback looks up the route and runs the handler,
which writes the tables and the hot-path counters.  A scrape runs
`AggregateMetrics`, then the Prometheus handlers (each `Collect` swaps or reads
its counters), then `PostScrapeCleanup`, which removes what ended long enough
ago.  A watchdog runs the same cleanup when no scraper comes.  The session
manager restarts sessions that somebody stopped.  Nothing orders the callback
against a scrape: they meet in concurrent maps, atomics and pooled objects.

**What is hard.**  Interleavings of the callback with a cleanup across several
maps; the reuse of pids, tids, image bases and pooled objects; late and lost
events; irregular, overlapping and missing scrapes; sessions stopped,
restarted and shut down at once.  `PROJECT.json` lists each of these at its
line under "hazards".

**What makes each component correct.**

- Process and thread tables: a running process is found by its pid; a pid or tid
  never leads to another process's object; an object has one owner; nothing is
  removed before its end was exported.
- Grace period: the threshold never passes the counter; an ended entity lasts
  until a scrape has exported it, and for the minimum time when scrapes are
  steady and no faster than four in that time.
- Image table: the cache and a name read without the lock are right; an image
  goes when its last mapping has gone, and not before.
- Service names and aggregation: a process gets a service of its own and keeps
  it; a scrape exports everything once; programs and system-wide totals agree.
- Hot-path counters and the pool: a recycled object brings no counts along.
- Session manager: one restart at a time, no stop forgotten, none after Stop has
  begun; Stop returns and leaves nothing active.
- ISR/DPC and thread collectors: no event counted twice, what a swap of buffers
  loses is bounded, an interval is counted for its own CPU.
- Event routing and provider groups: with whatever groups, each collector gets
  exactly its events, and what they are attributed by.
- Concurrent maps: each operation on a key is atomic, no Go map is written
  while another goroutine uses it, and nobody waits for a lock for ever.
- System configuration: what is exported of disks is what events told of, once
  per disk, and exactly when it was asked for.

## 2. Plan

Modules in the order in which they were written.

| # | module | models | status |
|---|---|---|---|
| 1 | `StateManager` | process and thread tables, callback against cleaner | checked, eight theorems |
| 2 | `GracePeriod` | the adaptive threshold, scrapes and watchdog | checked, five theorems |
| 3 | `ImageManager` | image table, address cache, reference counts | checked, five theorems |
| 4 | `SessionManager` | start, stop, restart of the ETW sessions | checked, four theorems |
| 5 | `PerfInfo` | ISR/DPC correlation, its double buffer, the durations of drivers and their pruning | checked, five theorems |
| 6 | `Aggregation` | hot-path counters, services, the order of a scrape | checked, seven theorems |
| 7 | `ThreadCollector` | per-CPU histograms, swapped and pooled | checked, seven theorems |
| 8 | `EventHandler` | configuration, kernel flags, routes, the two callbacks, on Windows 10 and 11 | checked, six theorems |
| 9 | `ProcessLifecycle` | abstract: processes that are tracked, found by pid, and removed after their grace period | `StateManager` implements it: checked and proved |
| 10 | `ConcurrentMap`, `ShardedMap` | abstract: a map with atomic calls; detailed: shards with locks and a Range that copies one shard at a time | `ShardedMap` implements it: checked and proved |
| 11 | `SysConfCollector` | disks and volumes stored once and listed at each scrape | composed into `EventHandler`, checked and proved there |

How they compose.  `StateManager` takes the threshold of a cleanup from
`0 .. scrapeCounter + 1`, any value that `GracePeriod` may compute
(`GracePeriod!ThresholdBound`, proved for every interval); it therefore covers
every sequence of intervals, and `GracePeriod` carries the one entity that it
needs.  `ImageManager` is called by the same cleaner and makes the same
assumption.  `Aggregation` takes the tables of `StateManager` as atomic (a
process has a pid of its own in it) and looks at what goes through them.
`EventHandler` says which handlers get an event, and the other modules what a
handler does with it.

`SysConfCollector` is extended by `EventHandler`, which decides the events that
reach it.  `ConcurrentMap` is what the other modules take the tables to do:
one step per call, and a Range that visits keys at moments of its own.

Left out of the plan: the Windows 11 branch of `SessionManager`, one session with
system providers in place of two.  The code never enables those providers
(section 6, `etw_session.go:427`), so that there is no session of that kind to
be right about; `EventHandler` has the choice between the two systems.

## 3. The modules and the code

Every module has one action per handler, or per step of a handler that another
goroutine can see: an operation on a `ConcurrentMap`, an atomic, or a section
under a lock is one step.  Local computation belongs to the step before or
after it.  The operating system is part of a module only through the events
that it sends: variables such as `phase`, `owner`, `mapped` or `happened` are
history, for the properties to refer to.  `PROJECT.json` maps each definition
to its lines.

**StateManager.** `instanceData`, `terminatedProcesses`,
`pidToCurrentStartKey`, `pidToCurrentProcessData`, `tidToCurrentProcessData`
and `terminatedThreads` are the maps of the same names, total functions with
`Absent` for no entry.  `hpc` and `cpc` say where the callback and the cleaner
are.  AddProcess is `AddProcess`, `StoreInstance`, `StoreStartKey`,
`StoreProcessData`; PostScrapeCleanup runs from `VisitTermination` to
`CleanupEnds`.  A Range visits keys one at a time.  `StartKeyAfter`,
`ProcessDataAfter` and `MappingAfter` are the three Update closures, with what
they do for an absent key.  A `Nil` that is dereferenced ends the program
(`hpc = "panic"`), or the scrape, in whose goroutine the HTTP server recovers.
A panic inside an Update may leave the map's bucket locked; goroutines that need
it then stop, which a specification without fairness allows.
A behaviour has one of the `Workloads`: which processes run, how many scrapes
there are, and whether events may be late or lost.  Start keys are numbers in the
order of their processes, which stands for the comparison of creation times.

**ProcessLifecycle.** What the readers of the table rely on, without objects
and without an order of writes: a process is tracked after its start, leaves
only when it has ended and a later generation has begun, and the answer to a
pid stays until another process takes the pid or the answer's own grace period
is over.  `StateManager!Lifecycle` maps the objects that pids lead to onto the
processes whose records they hold (`answer`), so that an object that is
recycled too early is an answer that changes by itself, which no action of
`ProcessLifecycle` allows.

**GracePeriod.** The ring buffer, the average and its ceiling are computed as
in the code; a duration is a multiple of a unit.  `Collect` and
`PostScrapeCleanup` are the two halves of metricsHandler.  One ended entity
carries its generation, its age and whether a scrape has exported it.

**ImageManager.** A section under `imagesMutex` is one step; the decrement of
`RefCount`, the read of the scrape counter and the store into
`terminatedImages`, which are outside it, are steps of their own, as is the
read of an image's name after the lock is released.  `Covers` says which
addresses an image covers.

**SessionManager.** The main goroutine, the trace monitor, the watcher's
events, the rundown and any number of restart goroutines (`Workers`).  `mu` is
held over one long section only, the start of Stop (`MuHeld`); shorter ones are
steps.  The library starts and stops sessions, and each call succeeds or fails;
other tools stop sessions and take the NT Kernel Logger.  The configuration is
the one with a kernel session and an exporter session (Windows 10).

**PerfInfo.** A buffer is what the callback may hold after a scrape has swapped
it out: `loaded` is the callback's pointer, `old` a scrape's.  Events are
numbered, so that a counter is a set of them and `CountedOnce` can say which.
An event that ends a pending DPC takes two steps: `CountPendingDPC` counts it
and looks its driver up in the image table, `Handle` records the duration,
seeks the ISR and clears it; a scrape may swap, merge and empty the buffer in
between.  The durations of a driver are the set of its DPCs.  `UnloadImage` and
`PostScrapeCleanup` are the part of the image table that the collector sees:
marks, which `GetCleanedImages` lists at each scrape, and removals with any
threshold that `GracePeriod` allows.  `hasty` and `overtaken` are history: the
drivers that a cleanup removed in the generation of their unload, and those of
which the callback held a DPC while its buffer was emptied.  The merge of a
buffer is atomic: what tears inside it in Go is listed in section 6.

**Aggregation.** `loc` holds the rest of a handler as a sequence of steps
(`StepsOf`), since the collectors differ in their order: some count for the
system first, some for the process.  A counter is a bag of the processes whose
events it holds.  A scrape goes from `BeginScrape` to `EndScrape`; it takes a
map from the pool, sums each tracked process in it, swaps it in, clears the
old one, reads in the order of each collector's Collect, and cleans up.

**ThreadCollector.** The three fields of an `IntervalStats` are written and
merged one at a time.  `overtaken` and `reused` are history: how often a scrape
swapped out the object that the callback had loaded, and how often one took
it from the pool, to give it to a CPU again.

**EventHandler.** An event is a provider and an opcode; opcodes that share a
handler are one.  `FlagsOf` is the flags of each group, `EventsOf` what Windows
sends for a flag (external), `FirstStage` and `SecondStage` the raw and the
prepared callback.  `modern` is Windows 11, where nothing is captured, there is
no kernel session, and the system providers meant in its place are appended to
a list that is never used (section 6).  `arrived` is history, how many events
of each provider have come.  The routes of the handlers and the groups of the
collectors are tables (`RoutesOf`, `GroupOf`, `About`).  `SessionManager` and
this module are of the same package of the program, and their names differ
(`HandlersInit`, `HandlersSpec`), so that one module can extend both.

**SysConfCollector.** Two maps keyed by the number of a disk, so that a volume
replaces the one before it on its disk; the metrics requested; and what
Prometheus was told at the one registration.  `EventHandler` calls
`RequestMetrics` when it attaches the disk collector and the two Add operations
from the handler of the events, in the capture session and in the kernel
session.

**ConcurrentMap and ShardedMap.** `ShardedMap` takes a lock, reads, writes and
releases in steps of their own; `LoadOrStore` looks twice, first under the read
lock.  A Range copies a shard under its lock and calls the function without it,
so that the function may call the map again.  A call of `ConcurrentMap` takes
effect in one step; the refinement says where that is (`Effective`): at the
read, or at the write, or, when there is nothing to write, at the look under
the lock.  An `Update` closure is a function on values, applied once.

**Proof modules.** `StateManager_proofs`, `GracePeriod_proofs`,
`ImageManager_proofs`, `PerfInfo_proofs`, `Aggregation_proofs`,
`ThreadCollector_proofs`, `ShardedMap_proofs` and `Etw_proofs`, which is about
the two modules of package `etw`, `SessionManager` and `EventHandler`.  The
`MC...` modules hold the functions, workloads and symmetry sets of the small
instances.

`TypeOK` (`HandlersTypeOK` in `EventHandler`) documents the variables of each
module.  It is proved for every one of them, by a theorem or, in
`ShardedMap_proofs`, as part of the inductive invariant.  It is not a property
of a run.

## 4. The runs

| run | distinct states | what it shows |
|---|---|---|
| `StateManager` | 5,471,888 | With events in order: a running process is always found by pid, a thread is never attributed to another process, no tid leads to a recycled object.  With late and lost events too: an object has one owner, the pid index is sound, the tables implement `ProcessLifecycle`, and a thread is not given to a process younger than its own. |
| `StateManagerNilThread` | violation | The Update closure of cleanupTerminated keeps the zero value for a tid without an entry, and so stores a nil `*ProcessData`. |
| `GracePeriod` | 7,760,701 | Steady scrapes keep an entity for the minimum grace period; without a stall nothing is removed that no scrape has exported. |
| `ImageManager` | 5,483,661 | The cache leads to tracked images only, objects have one owner, a name read without the lock is right, an image with no references stays marked. |
| `ImageManagerReloaded` | violation | An image that is loaded again within the grace period keeps its old mark and is removed while loaded. |
| `SessionManager` | 646,496 | One restart at a time, no stop is forgotten, no restart passes the gate of Stop, Stop returns. |
| `SessionManagerLateRestart` | violation | A restart past its checks starts the session again after Stop has stopped it. |
| `PerfInfo` | 1,717,183 | No DPC is counted twice, no ISR matched twice, what a scrape loses is bounded, and a driver that was removed leaves no durations behind. |
| `Aggregation` | 2,767,815 | A scrape exports everything counted before it, nothing twice, programs within the system's totals; no process inherits counts or a foreign service. |
| `ThreadCollector` | 2,944,502 | With overlapping scrapes: one owner per object, nothing merged twice, loss and tearing bounded by the times the callback was overtaken. |
| `EventHandler` | 78,343 | For each of the 64 choices of groups, with and without the watcher, on Windows 10 and 11: collectors get their events and no others, counted once; a group on its own has the events it takes, on Windows 10; disks are described and exported exactly when asked for. |
| `ShardedMap` | 121,350 | No Go map is written while it is used; the map implements `ConcurrentMap`; every call returns. |

Bounds, and why they are enough.

- `StateManager`: in order, three processes, two of which share a pid, one tid,
  three scrapes.  Reuse of a pid needs two processes and an object that comes
  back; a bystander needs a third; a record of a thread lives for two
  generations, and a third scrape finds what the second left.  With late and
  lost events, two processes on one pid and two scrapes, for such events
  multiply the streams; the properties that hold then are proved for all
  bounds.
- `GracePeriod`: `MinGrace` is the code's 30 s; `WatchTimeout` is 100 s in
  place of three hours, of which only matters that it is above the stall limit
  of 60 s; intervals below and above 30 s, and above the stall limit; six
  scrapes fill the ring of four and go round it.  `SteadyGrace` speaks of steady
  intervals from a quarter of `MinGrace` to twice as much (`BufferCovers`): of
  shorter ones four samples do not reach back far enough (section 6).
- `ImageManager`: two images, a lookup address in each, one mapping each at a
  time (`MaxMappings` bounds those at once, not the loads), two scrapes.  A base
  stands for its image: another image loaded at the base of one that is still in
  the table (`s_image_manager.go:94-96`) is not represented.
- `SessionManager`: two restart goroutines, since the monitor and the watcher
  report one stop twice; two stops, so that one comes while the other is
  being handled; two attempts in place of ten, since the first and the last
  one are the ones that differ.
- `PerfInfo`: one CPU and three buffers, and two workloads: two ISRs, three
  DPCs and two scrapes that may overlap; or two DPCs of a driver that is
  unloaded and three scrapes in turn, what it takes for a buffer to come back
  from the pool and be merged again.  Pending events are kept per CPU and a DPC
  is matched with ISRs of its own CPU; `CleanEvery = 1` makes the periodic
  cleanup run, which with the code's 100 would need 100 CPUs.
- `Aggregation`: a workload is chosen at the start (`MCWorkloads`), so that
  counting, services and recycling are each explored to depth and not all at
  once; two kinds, one that counts for the system first and one that counts
  for the process first.  One object beside those of System and of the unknown
  process: it is recycled, but two processes of one program are never tracked at
  once, and that their counts are summed is covered by the theorems only.  One
  scraper: see section 6.
- `ThreadCollector`: two CPUs, two switches, three scrapes of which two may
  overlap, and six objects, which is what two CPUs and two scrapes can hold.  A
  third scrape brings an object back that the callback has held since before
  the first; more switches and scrapes are covered by the theorems.
- `EventHandler`: all six groups, one process and one thread, two disks with
  two volumes each, two events after the first start of a process and a thread;
  two are enough for a volume that replaces another.
- `ShardedMap`: two goroutines, one of which also iterates, three keys in two
  shards, so that one shard holds two keys; nine calls that meet on one key,
  with an Update that deletes and one that fills a gap.

Symmetry is used over objects of a pool, buffers, aggregation maps, scrapers and
restart goroutines, in runs that check no liveness; no property names one of
them.

Fairness.  In `SessionManager`: weak fairness of the main goroutine
once Stop has begun, of the monitor, of the end of a rundown and of each
restart goroutine.  Go's scheduler runs every goroutine that can run; calls of
the ETW library are taken to return, the wait for the consumer has a timeout in
the code.  In `ShardedMap`: weak fairness of a goroutine that has its lock, and
strong fairness of one that waits for one, since a sync.RWMutex lets no new
reader pass a waiting writer and starves nobody.  The lock of the model does let
readers pass: a goroutine that took the read lock twice could deadlock with a
writer in the code and not in the model, but none does.  No fairness is assumed of
other tools, events, ticks, new calls or the functions of a Range.  The three
safety counterexamples need none.

Deadlock is checked everywhere but in the runs of `SessionManager`, whose
process exits.  The other modules end in a `Waiting` step or a stutter when
the bounded inputs are used up and every goroutine is idle; a goroutine that
is stuck half-way would still be reported.

## 5. What is proved

TLAPS checks the theorems for every value of the constants that the named
assumptions allow, so for any number of processes, objects, CPUs, scrapes and
goroutines.

- **StateManager** (`KeysAssumption`, `ObjsAssumption`, `BoundsAssumption`):
  `TypeCorrect`, `ObjectsSolelyOwned`, `PidIndexCorrect`, `GraceRespected`,
  `LifecycleImplemented`. `SoleOwner` is not inductive: that a tracked object
  is not in the pool depends on who holds it between its removal from a table
  and its Put. `IndInv` adds `HandlerLocals` (what the callback's locals mean
  at each of its steps, and that the key it works on is not marked for
  removal), `CleanerLocals` (between LoadAndDelete and Put the cleaner alone
  holds the victim), `Marks` (only ended processes are marked, with the
  generation of their end, and a process chosen for cleanup is still tracked)
  and `Tables`. The step that matters is `UnmapProcessData`: after it no pid
  leads to the victim, which makes `Recycle` safe.  Every stream is covered.
  `LifecycleImplemented` maps each step to one of `ProcessLifecycle` or to a
  stutter, from the same invariant.
- **StateManager, events in order**: `RunningProcessesIndexed`,
  `ThreadsAttributedRight`, `ThreadsBeforeProcess`.  `OrderInv` is inductive on
  top of `IndInv` when no event is late or lost: the processes of a pid run one
  after the other (`StreamOrdered`), a running one is in both indexes unless the
  callback is about to enter it (`LiveIndexed`), a tid leads to its owner's
  process or to none (`ThreadsAttributed`), and the thread cleanup takes every
  tid of a process before the process cleanup takes its object
  (`ThreadsGoFirst`).
- **GracePeriod** (`GraceAssumption`): `TypeCorrect`, `ThresholdBehindCounter`,
  `OneGenerationKept`, `SteadyScrapesGrace` and, under `OneScraper`,
  `OneScraperExports`.  The second and third rest on `AtLeastOneGeneration`, the
  ceiling and its floor of one; the last on `ExportInv`: what is of an earlier
  generation while a scrape is in flight has been collected by it.
  `SteadyScrapesGrace` needs what the ring buffer says of the past: an ended
  entity is at least as old as the intervals that began after its end
  (`OldEnough`, by `Recording` for each place of the index), the average of four
  equal intervals is that interval (`SteadyAverage`), and the generations of it,
  at most four, make up the grace period (`GenerationsCover`).
- **ImageManager** (`ImageAssumption`): `TypeCorrect`, `CacheIsCoherent`,
  `ImagesSolelyOwned`, `NamesResolvedRight`, `ZeroCountsMarked`.  They need
  each other: a cached pointer is good because removal empties the cache of
  that object, and a name read late is good because Put leaves the fields alone
  and the callback, which is reading, is the only one that takes objects from
  the pool.
- **SessionManager** (`SessionAssumption`): `TypeCorrect`,
  `RestartsExclusive`, `StopsAccountedFor`, `RestartsGated`.  `IInv` adds that
  whoever is restarting a session has entered it in `restartingSessions`
  (`Entered`), how `running`, `isStopping` and the context follow the main
  goroutine (`Flags`), and that a goroutine about to release a session does
  not count as the report of a later stop (`Reported`).
- **PerfInfo** (`PerfInfoAssumption`, `CPUsAssumption`): `TypeCorrect`,
  `DpcsCountedOnce`, `IsrsMatchedOnce`, `SeriesGone`, `LossesBounded`.
  `CountedOnce` is not
  inductive: a scrape may empty a buffer between the count of a DPC and its
  clearing, and the callback then writes to a buffer of the pool. `IndInv` says
  where each buffer is (`Places`), that a DPC is pending in one buffer only and
  the one being ended is where the callback found it or nowhere (`Pending`),
  and that what was counted is not pending elsewhere (`Counting`). `Matching`
  adds that the ISRs of two buffers are distinct and a DPC in hand has no match
  yet. `SeriesInv` follows a driver that was marked before the scrape in
  progress: the active buffer carries nothing of it, so that once the counts
  are merged and pruned nothing can bring it back. `LossInv` bounds by the
  number of scrapes not what is lost but what is in no safe place (`SpiltDpcs`,
  `SpiltIsrs`): neither in the totals, nor in the active buffer or one that is
  yet to be merged, nor on its way into the active one. Only a swap adds to
  that, what is pending in the buffer that it takes and the event in hand; a
  buffer that the callback fills late may be lost or come back, and neither is
  more than was spilt. `TypeCorrect` needs `Tally` besides: the scrapes that
  have begun are those that are going on and those that were counted, so that
  the generation with which an image is marked never passes them.
- **Aggregation** (`ProcsAssumption`, `OptionsAssumption`, `FiniteAssumption`):
  `TypeCorrect`, `CountsNotInherited`, `ServicesKept` and, under `OneScraper`,
  `ServicesRight`, `ExportsComplete`, `ExportsNotInflated` and `ProgramsAddUp`.
  `NoInheritance` is not inductive: the callback may have in hand an object
  that a cleanup has given back. `IndInv` says that an object is tracked as one
  process, is found by that pid only and is not in the pool meanwhile
  (`Owned`), that the object to be published is nobody's and empty, and that
  the one in which an event is about to be counted is tracked as no process but
  that of the event, or System (`CallbackHand`), and that the one to be
  recycled is no longer tracked (`ScraperHand`). AddProcess empties what it
  takes, and the callback, being one goroutine, counts nothing between that and
  the publication. `ServiceInv` adds that whoever is about to name a service
  has a tag of the process that its object is tracked as (`HandRight`), System
  excepted, whose tag is not stored. `OneScraper` is needed: a second scrape
  may recycle what the first has in hand between two locks, or clear the map
  that the first is reading (section 6). `SumInv` carries what is exported from
  the counters to the collectors. `Counted` says that what the tracked
  processes hold (`Held`), with the event that the callback is about to count
  for a process, has happened (`AllHappened`), and that the system has counted
  it or is about to (`AllMeasured`). While a scrape visits processes
  (`WhileVisiting`), what a process had at its start is still to be added, and
  still there, or is in the map that is being built, which has nothing that
  does not come from a process that was added. With the swap the map becomes
  one whose sums no longer change (`WhileInstalled`), since the maps that are
  built, live, to be cleared and pooled are different ones (`Pool`, `OwnMaps`);
  from then on the counters only grow, and `Taken` says that each collector has
  read that map, and a system-wide counter no smaller than its sum, whichever
  of the two it reads first. `Slack` is the event that a kind counts for the
  process first. `TypeCorrect` holds for any number of scrapes: `TypesInv` says
  that an object that is tracked, about to be published or visited belongs to a
  process (`HandsIdentified`), also after it was recycled, for only AddProcess
  replaces the process of an object; hence every program in a map is one that a
  process has.
- **ThreadCollector** (`CollectorAssumption`): `StatsHaveASoleOwner`,
  `IntervalsAreCountedOnce`, `LossIsBounded`, `HistogramsAreNotTorn`,
  `IntervalsKeepTheirCpu`, `IntervalsFitTheTime`, `TypeCorrect`.  Ownership:
  phase 1 of a scrape holds one fresh object and the old objects of the CPUs
  before the present one, phase 2 the old objects from the present CPU on
  (`Ready`); each object has exactly one place among CPUs, pool and hands
  (`OnePlace`).  Counting: `Recorded` is what the totals of a CPU will hold of a
  field once every object whose field is still to be merged for it (`Holds`) is
  merged.  No step of a scrape changes it (`Steady`, from `BeginKeeps`,
  `GetKeeps`, `ResetKeeps`, `SwapKeeps`, `MergeKeeps` and `PutKeeps`), so that
  only the callback does, by what it adds to an object that still counts for a
  CPU.  Since a part of an object may be merged, what is conserved is stated for
  every set `U` of objects that are yet to be merged, half-merged ones apart.
  `CountInv` then relates the recorded sums to what happened: `Balance` to the
  intervals of a CPU, `Torn` the count to the buckets, `Placed` what counts for
  another CPU to `reused`, `InTime` the microseconds to the time; each has a
  term for the interval that the callback has in hand.  `Bounds` adds what
  `TypeOK` says of the sizes.
- **ShardedMap** (`MapAssumption`): `NoRaces`, `PromiseKept`.  `LocksHeld` ties
  the locks to where each goroutine is, and `Examined` says that what was
  looked at under the lock is still there when it is written; from these every
  step of the map is a step of `ConcurrentMap` or none.
- **EventHandler** (`HandlerAssumption`, `NoHandlerAssumption`,
  `NoVolumeAssumption`): `HandlersTypeCorrect`, `EventsRouted`,
  `GroupsSuffice`, `EventsCountedOnce`, `CollectorsAttached`, `DisksExported`,
  for any set of groups that the exporter has, any disks and partitions and any
  number of events.  `NothingMisrouted` is not inductive: where an event goes
  depends on the routes that were registered before the first session, in the
  order of the code.  `HandlersInv` adds that a handler that has registered has
  its routes and nobody else's (`Routing`), that all have before an event comes
  (`Staged`), that a running session has sent the start of what it sends events
  of (`Begun`), that the disk collector has asked for both metrics or for none
  (`Requested`), and that what is stored of disks is what was reported
  (`Stored`).  The rest is about the tables: no two handlers share an event
  (`RoutesApart`), each event of a collector is sent for a flag of its group
  (`GroupsAreFed`, from `FlagsTable` and `FlagTable`), and the two stages of
  the callback together hand an event to its handlers, each once (`Stages`,
  `HandedRunning`, `HandedCaptured`).  These are facts of the code, so that a
  route that is added twice, or a flag that a group lacks, makes a proof fail.

Sums.  A counter is compared with others through `Total`, a fold over the domain
of a function, and the induction theorems of the library take an operator as a
parameter, which the provers cannot instantiate.  `ThreadCollector_proofs`
therefore begins with a few lemmas (`TotalPlus`, `TotalOfOne`, `TotalChanges`,
`TotalNat`, `TotalAtMost`) that are proved from a minimal counterexample: the set
of the subsets for which a sum is wrong is a set, and has a minimal member if it
has any (`LeastSet`).  `Aggregation_proofs` has the same lemmas, and those
that it needs about sums of sums and about entries that a map does not have
(`TotalOfSupport`, `SumsAdded`, `SumsTaken`).  A sum of that kind needs a finite
domain: `FiniteAssumption` says that there are finitely many processes and tags.

Model-checked only: liveness (`StopReturns`, `EveryCallReturns`), which needs
fairness and with it ENABLED.  Every other property of a passing run is a
theorem.

## 6. Disagreements seen

Three are runs, with findings in `PROJECT.json`.  The others were met while
modelling; those with a module can be seen in it, and none is excused by it.

- `sm/s_state_manager.go:194`: a thread event that is handled between the
  thread cleanup and the process cleanup maps its tid to an object that is then
  recycled (what `NoThreadToRecycled` says only holds for events in order).
- `sm/s_state_manager.go:149`: two scrapes in flight count two generations and
  remove an entity that neither has exported (`ExportedUnlessStalled` with
  `MaxInFlight = 2`).  `sm/aggregation.go:243-256`: they also share aggregation
  maps that one of them clears while the other reads, after the lock is
  released; nothing keeps promhttp from serving two at once.  `:107`: one of
  them may store the name of a service in an object that the cleanup of the
  other has given back, which is why `ServicesRight` assumes `OneScraper`.
- `src/internal/collectors/kernelperf/perfinfo_collector.go:281`, `:333`: a DPC
  that is pending when a scrape swaps the buffers is dropped: the next DPC or
  context switch of its CPU looks in the new buffer and finds nothing, and the
  old one is emptied.  The comment at lines 513-515 says of it "It is NOT lost";
  `LossBounded` says how much is.
- `perfinfo_collector.go:288`: the callback may write to a Go map that the
  scrape iterates.  `:495`: the cleanup of old ISRs counts CPUs, not ISRs.
  `:317`: durations of an unloaded driver are pruned before they are exported;
  with two scrapes in flight, or after a stall, one that is recorded late stays
  for good (`SeriesGoWithDriver` is about scrapes in turn, and excepts `hasty`
  and `overtaken`).
- `sm/s_thread_manager.go:143-146`: a tid reused within its process loses its
  mapping; `:155-167`: so does one reused between Range and Delete.
- `sm/s_process_manager.go:249-250`: the Update closure of the pid index leaves
  a zero start key behind when there was no entry.  EnrichProcessWithImageData
  (`:92`) reads that index; no process has the key zero, so that it goes on as
  it does without an entry, and logs an image of an unknown process.
- `sm/s_image_manager.go:94-96`: rundowns raise the count of an image that is
  already tracked, and it is then never removed.
- `src/internal/etw/etw_session.go:223`: the check that nobody uses the NT
  Kernel Logger and the restart that takes it are far apart; `:499`:
  stopSessions returns at its first failure; `:440`: a Start that fails leaves
  the kernel session; `:427`: on Windows 11 an inner `:=` hides the list of
  providers, so that no group is fed (`EventsReceived` is about Windows 10);
  `:470`: a nil session is appended when there is no manifest provider.
- `sm/s_state_manager.go:31-33`: with irregular intervals an entity may be
  removed before the minimum grace period, for the average is of the past.  So
  may it when scrapes come at one steady interval below 7.5 s, a quarter of that
  period, and came faster before: the buffer holds four samples, and the
  generations that it asks for reach back beyond them.
- `src/internal/collectors/kernelthread/thread_collector.go:350-377`: a bucket
  is rounded down, so that an interval of 7 microseconds counts in `le="4"`.
- `src/internal/collectors/kernelnetwork/network_handler_mof.go:54`: on Windows
  11 the routes of the disk and the network handlers collide.

## 7. What is not modelled

The manifest handlers, which nothing registers; the ETW statistics collector,
diagnostics, formatting, parsing, logging and system calls, which keep no state
that the rest depends on; pseudo start keys, a pure hash.  Of the concurrent
maps the sharded variant is modelled; the default (`src/internal/maps/maps.go:5`)
and the cornelk variant are wrappers of libraries, and the sync.Map variant,
whose Update is two steps, is not used.  Within modelled components: names and
their enrichment (`Aggregation` knows System by its identity, the code by its
name), disks, protocols and opcodes as keys of a counter and their
double-checked creation, the buckets and sums of the ISR/DPC histograms, the
counters of thread states, and the session of the Windows 11 path, which is
given no provider (section 2).  Integers do not overflow in the models: the
counters are 64-bit and their bounds in the code are not reachable in the life
of a process.

## 8. Running it

    tlc -config StateManager.cfg MCStateManager
    tlapm StateManager_proofs.tla

Each run of `PROJECT.json` names its module and its configuration.  Definitions
that end in `_Something`, or that a comment calls a mutant, are plausible bugs;
`PROJECT.json` lists, for each property, the one that breaks it.
