--------------------------- MODULE ThreadCollector ---------------------------
(***************************************************************************)
(* The context-switch collector: a counter and a histogram of intervals    *)
(* for each CPU.                                                           *)
(*                                                                         *)
(* The ETW callback measures the interval since the last switch on the CPU *)
(* of an event, loads the CPU's current IntervalStats and adds to its      *)
(* count, its sum and one of its buckets, without a lock.  A scrape swaps  *)
(* the IntervalStats of every CPU for fresh ones from a pool, then merges  *)
(* the old ones into cumulative totals, field by field, and gives them     *)
(* back to the pool; the next user resets them.  Two scrapes may overlap.  *)
(*                                                                         *)
(* A count is kept by the CPU whose switches it counts, so that it says    *)
(* where an interval was measured as well as where it is counted.          *)
(***************************************************************************)
EXTENDS Naturals, Sequences, Functions, FiniteSets

CONSTANTS
    Cpus,           \* a set of naturals from 0, as the slices are indexed
    Stats,          \* *IntervalStats objects
    Scrapers,       \* goroutines that run Collect
    NBuckets,       \* len(csIntervalBuckets)
    None,           \* no object
    MaxSwitches,    \* bound on the context switches
    MaxTime,        \* bound on the clock, in microseconds
    MaxScrapes      \* bound on the calls of Collect

ASSUME CollectorAssumption ==
    /\ Cpus # {} /\ IsFiniteSet(Cpus) /\ Cpus = 0..(Cardinality(Cpus) - 1)
    /\ None \notin Stats /\ IsFiniteSet(Stats)
    /\ Cardinality(Stats)
            >= Cardinality(Cpus) * (1 + Cardinality(Scrapers))
    /\ NBuckets \in Nat /\ NBuckets > 0
    /\ MaxSwitches \in Nat /\ MaxTime \in Nat \ {0} /\ MaxScrapes \in Nat

VARIABLES
    lastCpuSwitch,           \* CPU -> time of the last switch, 0 for none
    contextSwitchesPerCPU,
    contextSwitchIntervals,  \* CPU -> the current IntervalStats
    stats,                   \* object -> its fields
    intervalStatsPool,
    cumulativeIntervals,     \* CPU -> the fields of the lifetime totals
    loc,                     \* locals of the callback
    collect,                 \* scraper -> locals of Collect
    scrapes,                 \* calls of Collect so far
    now,                     \* timestamp of the latest event
    firstSwitch,             \* CPU -> time of its first switch, 0 for none
    intervals,               \* CPU -> intervals that the callback measured
    overtaken,               \* times that a scrape swapped out the object
                             \* that the callback was adding to ...
    reused                   \* ... or took it from the pool again

recorded == <<contextSwitchesPerCPU, contextSwitchIntervals, stats,
              intervalStatsPool, cumulativeIntervals>>
history == <<now, firstSwitch, intervals>>
vars == <<lastCpuSwitch, recorded, loc, collect, scrapes, history, overtaken,
          reused>>

Buckets == 0..(NBuckets - 1)
Total(f) == FoldFunction(+, 0, f)
Zero == [count |-> [c \in Cpus |-> 0], sum |-> 0,
         buckets |-> [b \in Buckets |-> 0]]
Fields == <<"count", "sum", "buckets">>
Idle == [todo |-> <<>>, cpu |-> 0, interval |-> 0, obj |-> None]
NoCollect == [phase |-> "idle", cpu |-> 0, todo |-> <<>>, fresh |-> None,
              old |-> [c \in Cpus |-> None]]
LastCpu == Cardinality(Cpus) - 1

\* An element of S, where it makes no difference which.
AnyOf(S) == {x \in S : x = CHOOSE y \in S : TRUE}

\* NewThreadCSCollector, NewThreadHandler.
Init ==
    /\ lastCpuSwitch = [c \in Cpus |-> 0]
    /\ contextSwitchesPerCPU = [c \in Cpus |-> 0]
    /\ contextSwitchIntervals \in AnyOf(Injection(Cpus, Stats))
    /\ stats = [o \in Stats |-> Zero]
    /\ intervalStatsPool = {}
    /\ cumulativeIntervals = [c \in Cpus |-> Zero]
    /\ loc = Idle
    /\ collect = [s \in Scrapers |-> NoCollect]
    /\ scrapes = 0 /\ now = 1
    /\ firstSwitch = [c \in Cpus |-> 0]
    /\ intervals = [c \in Cpus |-> 0]
    /\ overtaken = 0 /\ reused = 0

-----------------------------------------------------------------------------
(* The callback.                                                           *)

\* mutant: the interval is taken from the start of time
IntervalSince_Start(last, time) == IF last > 0 THEN time ELSE 0

\* HandleContextSwitchRaw: the first switch seen on a CPU has no interval,
\* and neither has one with the timestamp of the last.
IntervalSince(last, time) == IF last > 0 THEN time - last ELSE 0

HandleContextSwitchRaw(c) ==
    /\ loc.todo = <<>> /\ Total(contextSwitchesPerCPU) < MaxSwitches
    /\ \E time \in now..MaxTime :
        LET interval == IntervalSince(lastCpuSwitch[c], time)
        IN  /\ now' = time
            /\ lastCpuSwitch' = [lastCpuSwitch EXCEPT ![c] = time]
            /\ firstSwitch' = IF firstSwitch[c] = 0
                              THEN [firstSwitch EXCEPT ![c] = time]
                              ELSE firstSwitch
            /\ intervals' = IF interval > 0
                            THEN [intervals EXCEPT ![c] = @ + 1]
                            ELSE intervals
            /\ loc' = [Idle EXCEPT !.todo = <<"switch">>, !.cpu = c,
                                   !.interval = interval]
    /\ UNCHANGED <<recorded, collect, scrapes, overtaken, reused>>

\* RecordCpuContextSwitch: the switch is counted, and an interval is
\* recorded in the IntervalStats that the CPU has now.
RecordSwitch ==
    /\ loc.todo = <<"switch">>
    /\ contextSwitchesPerCPU' = [contextSwitchesPerCPU EXCEPT ![loc.cpu] =
                                    @ + 1]
    /\ loc' = IF loc.interval > 0 THEN [loc EXCEPT !.todo = <<"load">>]
              ELSE Idle
    /\ UNCHANGED <<lastCpuSwitch, contextSwitchIntervals, stats,
                   intervalStatsPool, cumulativeIntervals, collect, scrapes,
                   history, overtaken, reused>>

\* mutant: the object of the first CPU is used for all
StatsOf_First(c) == contextSwitchIntervals[0]

StatsOf(c) == contextSwitchIntervals[c]
LoadStats ==
    /\ loc.todo = <<"load">>
    /\ loc' = [loc EXCEPT !.todo = Fields,
                          !.obj = StatsOf(loc.cpu)]
    /\ UNCHANGED <<lastCpuSwitch, recorded, collect, scrapes, history,
                   overtaken, reused>>

\* bits.Len64(n) - 1, and 0 for 0; the last bucket takes what is too large.
BucketOf(n) ==
    LET fits == {b \in Buckets : 2 ^ b <= n}
    IN  IF fits = {} THEN 0 ELSE CHOOSE b \in fits : \A d \in fits : d <= b

\* One field of s after the interval of the callback was added to it.
Added(s, field) ==
    CASE field = "count" -> [s EXCEPT !.count[loc.cpu] = @ + 1]
      [] field = "sum" -> [s EXCEPT !.sum = @ + loc.interval]
      [] field = "buckets" -> [s EXCEPT !.buckets[BucketOf(loc.interval)] =
                                    @ + 1]

AddInterval ==
    /\ loc.obj # None /\ loc.todo # <<>>
    /\ stats' = [stats EXCEPT ![loc.obj] = Added(@, Head(loc.todo))]
    /\ loc' = IF Len(loc.todo) = 1 THEN Idle
              ELSE [loc EXCEPT !.todo = Tail(@)]
    /\ UNCHANGED <<lastCpuSwitch, contextSwitchesPerCPU,
                   contextSwitchIntervals, intervalStatsPool,
                   cumulativeIntervals, collect, scrapes, history, overtaken,
                   reused>>

-----------------------------------------------------------------------------
(* A scrape.                                                               *)

In(s, phase) == collect[s].phase = phase /\ collect[s].todo = <<>>

BeginCollect(s) ==
    /\ In(s, "idle") /\ scrapes < MaxScrapes
    /\ scrapes' = scrapes + 1
    /\ collect' = [collect EXCEPT ![s].phase = "get"]
    /\ UNCHANGED <<lastCpuSwitch, recorded, loc, history, overtaken, reused>>

\* Phase 1, for the CPUs in order: an object from the pool, or a new one
\* when the pool is empty, is reset, ...
Fresh == Stats \ (Range(contextSwitchIntervals)
            \union UNION {Range(collect[r].old) \union {collect[r].fresh} :
                            r \in Scrapers})
GetStats(s) ==
    /\ In(s, "get")
    /\ \E o \in IF intervalStatsPool # {} THEN intervalStatsPool
               ELSE AnyOf(Fresh) :
        /\ intervalStatsPool' = intervalStatsPool \ {o}
        /\ collect' = [collect EXCEPT ![s].phase = "swap", ![s].fresh = o,
                                      ![s].todo = Fields]
        /\ reused' = IF loc.obj = o THEN reused + 1 ELSE reused
    /\ UNCHANGED <<lastCpuSwitch, contextSwitchesPerCPU,
                   contextSwitchIntervals, stats, cumulativeIntervals, loc,
                   scrapes, history, overtaken>>

\* IntervalStats.Reset, a field at a time.
ResetField(o, field) == [stats EXCEPT ![o] = [@ EXCEPT ![field] = Zero[field]]]
ResetStats(s) ==
    /\ collect[s].phase = "swap" /\ collect[s].todo # <<>>
    /\ stats' = ResetField(collect[s].fresh, Head(collect[s].todo))
    /\ collect' = [collect EXCEPT ![s].todo = Tail(@)]
    /\ UNCHANGED <<lastCpuSwitch, contextSwitchesPerCPU,
                   contextSwitchIntervals, intervalStatsPool,
                   cumulativeIntervals, loc, scrapes, history, overtaken,
                   reused>>

\* mutants: the fresh object goes to the next CPU, or always to the first
Swapped_Next(s) == [contextSwitchIntervals EXCEPT
    ![IF collect[s].cpu = LastCpu THEN 0 ELSE collect[s].cpu + 1] =
        collect[s].fresh]
Swapped_First(s) == [contextSwitchIntervals EXCEPT ![0] = collect[s].fresh]

\* ... and swapped for the one that the CPU has.
Swapped(s) == [contextSwitchIntervals EXCEPT ![collect[s].cpu] =
                    collect[s].fresh]
SwapStats(s) ==
    /\ In(s, "swap")
    /\ LET c == collect[s].cpu
           old == contextSwitchIntervals[c]
       IN  /\ contextSwitchIntervals' = Swapped(s)
           /\ collect' = [collect EXCEPT ![s] = [@ EXCEPT
                    !.old[c] = old, !.fresh = None,
                    !.phase = IF c = LastCpu THEN "merge" ELSE "get",
                    !.todo = IF c = LastCpu THEN Fields ELSE <<>>,
                    !.cpu = IF c = LastCpu THEN 0 ELSE c + 1]]
           /\ overtaken' = IF loc.obj = old THEN overtaken + 1 ELSE overtaken
    /\ UNCHANGED <<lastCpuSwitch, contextSwitchesPerCPU, stats,
                   intervalStatsPool, cumulativeIntervals, loc, scrapes,
                   history, reused>>

\* mutants: the totals are set, not added to, or their first bucket is left out
Merged_Set(total, old, field) == [total EXCEPT ![field] = old[field]]
Merged_NoFirst(total, old, field) ==
    CASE field = "count" ->
            [total EXCEPT !.count = [c \in Cpus |-> @[c] + old.count[c]]]
      [] field = "sum" -> [total EXCEPT !.sum = @ + old.sum]
      [] field = "buckets" ->
            [total EXCEPT !.buckets = [b \in Buckets |->
                IF b = 0 THEN @[b] ELSE @[b] + old.buckets[b]]]

\* Phase 2: the old objects are merged, a field at a time, ...
Merged(total, old, field) ==
    CASE field = "count" ->
            [total EXCEPT !.count = [c \in Cpus |-> @[c] + old.count[c]]]
      [] field = "sum" -> [total EXCEPT !.sum = @ + old.sum]
      [] field = "buckets" ->
            [total EXCEPT !.buckets =
                    [b \in Buckets |-> @[b] + old.buckets[b]]]

MergeStats(s) ==
    /\ collect[s].phase = "merge" /\ collect[s].todo # <<>>
    /\ LET c == collect[s].cpu
       IN  cumulativeIntervals' = [cumulativeIntervals EXCEPT ![c] =
                Merged(@, stats[collect[s].old[c]], Head(collect[s].todo))]
    /\ collect' = [collect EXCEPT ![s].todo = Tail(@)]
    /\ UNCHANGED <<lastCpuSwitch, contextSwitchesPerCPU,
                   contextSwitchIntervals, stats, intervalStatsPool, loc,
                   scrapes, history, overtaken, reused>>

\* ... and given back once the totals are exported.
PutStats(s) ==
    /\ In(s, "merge")
    /\ LET c == collect[s].cpu
       IN  /\ intervalStatsPool' = intervalStatsPool \union
                                        {collect[s].old[c]}
           /\ collect' = [collect EXCEPT ![s] =
                IF c = LastCpu THEN NoCollect
                ELSE [@ EXCEPT !.cpu = c + 1, !.todo = Fields,
                               !.old[c] = None]]
    /\ UNCHANGED <<lastCpuSwitch, contextSwitchesPerCPU,
                   contextSwitchIntervals, stats, cumulativeIntervals, loc,
                   scrapes, history, overtaken, reused>>

-----------------------------------------------------------------------------
\* The bounds are used up, and nobody is in the middle of anything.
Quiet == loc.todo = <<>> /\ \A s \in Scrapers : In(s, "idle")
Waiting ==
    /\ Quiet /\ scrapes = MaxScrapes
    /\ Total(contextSwitchesPerCPU) = MaxSwitches
    /\ UNCHANGED vars

Next ==
    \/ \E c \in Cpus : HandleContextSwitchRaw(c)
    \/ RecordSwitch \/ LoadStats \/ AddInterval
    \/ \E s \in Scrapers :
        \/ BeginCollect(s) \/ GetStats(s) \/ ResetStats(s) \/ SwapStats(s)
        \/ MergeStats(s) \/ PutStats(s)
    \/ Waiting

Spec == Init /\ [][Next]_vars

-----------------------------------------------------------------------------
(* Properties.                                                             *)

Counters == [count : [Cpus -> Nat], sum : Nat, buckets : [Buckets -> Nat]]

\* Every object is with a CPU, with a scrape or in the pool, and counters
\* are what their names say.
TypeOK ==
    /\ lastCpuSwitch \in [Cpus -> 0..MaxTime]
    /\ contextSwitchesPerCPU \in [Cpus -> 0..MaxSwitches]
    /\ contextSwitchIntervals \in [Cpus -> Stats]
    /\ stats \in [Stats -> Counters]
    /\ cumulativeIntervals \in [Cpus -> Counters]
    /\ intervalStatsPool \subseteq Stats
    /\ loc.cpu \in Cpus /\ loc.interval \in 0..MaxTime
    /\ loc.obj \in Stats \union {None}
    /\ scrapes \in 0..MaxScrapes /\ now \in 1..MaxTime
    /\ firstSwitch \in [Cpus -> 0..MaxTime]
    /\ intervals \in [Cpus -> 0..MaxSwitches]
    /\ overtaken \in Nat /\ reused \in Nat

\* Where the intervals of CPU c have been counted.
Counted(c) == Total([d \in Cpus |-> cumulativeIntervals[d].count[c]])
Current(c) ==
    Total([d \in Cpus |-> stats[contextSwitchIntervals[d]].count[c]])

\* The pool's objects are shared by all CPUs and all scrapes, yet two of them
\* never hold the same one: what the callback adds for one CPU, or a scrape
\* merges, nobody else resets or merges (Collect, phases 1 and 2).
SoleOwner ==
    LET Held(s) == {collect[s].old[c] : c \in Cpus} \union {collect[s].fresh}
        mine == [s \in Scrapers |-> Held(s) \ {None}]
    IN  /\ \A c, d \in Cpus : c # d =>
            contextSwitchIntervals[c] # contextSwitchIntervals[d]
        /\ \A s \in Scrapers :
            /\ mine[s] \intersect Range(contextSwitchIntervals) = {}
            /\ mine[s] \intersect intervalStatsPool = {}
            /\ \A r \in Scrapers \ {s} : mine[s] \intersect mine[r] = {}
        /\ intervalStatsPool \intersect Range(contextSwitchIntervals) = {}

\* However scrapes overlap, no interval is merged twice into the totals.
CountedOnce == \A c \in Cpus : Counted(c) <= intervals[c]

\* When nobody is at work, every interval is in the totals or will be merged
\* by the next scrape, but for one for each time that a scrape swapped out
\* the object that the callback was adding to.
LossBounded ==
    Quiet => \A c \in Cpus :
        intervals[c] <= Counted(c) + Current(c) + overtaken

\* The count of a histogram and its buckets are written and merged
\* separately.  When nobody is at work they differ by no more than the
\* intervals that were overtaken, so that a histogram is never torn by the
\* scrapes that the callback was not in the middle of.
BucketsMatchCount ==
    Quiet => \A d \in Cpus :
        LET count == Total(cumulativeIntervals[d].count)
            inBuckets == Total(cumulativeIntervals[d].buckets)
        IN  count <= inBuckets + overtaken
            /\ inBuckets <= count + overtaken

\* An interval is counted for the CPU it was measured on, although objects
\* move between CPUs, unless the callback holds one for so long that a scrape
\* swaps it out and gives it back, and another takes it from the pool.
CpuRight ==
    Total([d \in Cpus |-> Total([c \in Cpus \ {d} |->
            cumulativeIntervals[d].count[c]])]) <= reused

\* The intervals of a CPU follow on one another: what is recorded of them
\* never adds up to more than the time that has passed there.
SumWithinTime ==
    Total([d \in Cpus |-> cumulativeIntervals[d].sum])
        <= Total([c \in Cpus |-> lastCpuSwitch[c] - firstSwitch[c]])
=============================================================================
