------------------------------ MODULE PerfInfo ------------------------------
(***************************************************************************)
(* The ISR and DPC collector, PerfCollector                                *)
(* (src/internal/collectors/kernelperf/perfinfo_collector.go).             *)
(*                                                                         *)
(* One callback of the kernel session writes to the active buffer: an ISR  *)
(* becomes pending on its CPU; a DPC becomes pending too, and is counted   *)
(* and matched with an ISR when the next DPC or context switch of its CPU  *)
(* ends it.  A scrape swaps the active buffer for an empty one, adds the   *)
(* old one to the totals, empties it and returns it to a pool.  The        *)
(* callback loads the pointer once per event and takes no lock, so it may  *)
(* still write to a buffer that has been swapped out.                      *)
(*                                                                         *)
(* The duration of a DPC is kept by the name of its driver, which is       *)
(* looked up in the image table.  An image that is unloaded is marked, and *)
(* removed by a later cleanup; every scrape meanwhile prunes the durations *)
(* of its driver from the totals.                                          *)
(*                                                                         *)
(* ISRs and DPCs are numbered as they arrive.  Time is the number of ISRs  *)
(* so far: a DPC carries in "seen" how many ISRs began before it did.      *)
(***************************************************************************)
EXTENDS Naturals, Sequences, FiniteSets

CONSTANTS
    CPUs, Scrapers, Buffers,
    Drivers,      \* images whose routines DPCs run, each with its own name
    None,         \* no buffer, no event, no driver
    MaxDpcs,      \* bound on the DPCs of every workload
    Workloads,    \* bounds, one of which a behaviour has: how many ISRs, DPCs
                  \* and scrapes, how many scrapes at once, and which drivers
    CleanEvery    \* 100 in the code

\* What the callback may have in hand: an event, the DPC that it ends (0 for
\* none) and the driver of that DPC.
Events == [kind : {"isr", "dpc", "cswitch"}, cpu : CPUs, id : Nat, ends : Nat,
           driver : Drivers \union {None}]

ASSUME PerfInfoAssumption ==
    /\ None \notin Buffers \union Drivers \union Nat \union Events
    /\ MaxDpcs \in Nat
    /\ IsFiniteSet(Scrapers)
    /\ Workloads \subseteq [isrs : Nat, dpcs : 0 .. MaxDpcs, scrapes : Nat,
                            atOnce : Nat,
                            drivers : SUBSET (Drivers \union {None})]
    /\ CleanEvery \in Nat \ {0}
ASSUME CPUsAssumption == IsFiniteSet(CPUs)

VARIABLES
    isrs,     \* the ISRs so far: the CPU of each
    dpcs,     \* the DPCs so far: [cpu, seen, driver]
    buffers,  \* buffer -> contents
    place,    \* buffer -> "out", "pool" or "none" (not allocated)
    active,   \* activeBuffer
    event,    \* the event that the callback handles
    loaded,   \* the buffer that it has loaded
    old,      \* scraper -> the buffer that it has swapped out
    merged,   \* the scrapers that have added theirs to the totals
    cleaning, \* the scrapers that have yet to clean up
    totals,   \* [queued, executed, latency, durations]
    scrapes,  \* scrapes so far
    images,   \* the drivers in the image table
    terminatedImages,  \* driver -> scrape generation of its unload
    scrapeCounter,
    bound,    \* the workload
    hasty,    \* drivers removed in the generation of their unload ...
    overtaken \* ... or of which the callback had a DPC in hand while a scrape
              \* emptied its buffer

callback == <<isrs, dpcs, event, loaded>>
imageTable == <<images, terminatedImages, scrapeCounter, bound, hasty>>
scraping == <<place, active, old, merged, cleaning, totals, scrapes,
              overtaken>>
vars == <<callback, buffers, scraping, imageTable>>

Isrs == DOMAIN isrs
Dpcs == DOMAIN dpcs

\* newMetricsBuffer.  queued holds the ISRs counted in dpcQueuedCount, executed
\* how often each DPC is counted in dpcExecutedCount, latency the matches
\* <<ISR, DPC>> in the histogram, durations the <<driver, DPC>> in those of the
\* drivers.
NoCounts ==
    [queued |-> {}, executed |-> [d \in 1 .. MaxDpcs |-> 0], latency |-> {},
     durations |-> {}]

newMetricsBuffer ==
    [pending |-> [c \in CPUs |-> 0], isrs |-> {}, counts |-> NoCounts]

Init ==
    /\ isrs = <<>> /\ dpcs = <<>>
    /\ buffers = [b \in Buffers |-> newMetricsBuffer]
    /\ active \in Buffers
    /\ place = [b \in Buffers |-> IF b = active THEN "out" ELSE "none"]
    /\ event = None /\ loaded = None
    /\ old = [s \in Scrapers |-> None] /\ merged = {} /\ cleaning = {}
    /\ totals = NoCounts
    /\ scrapes = 0 /\ scrapeCounter = 0
    /\ bound \in Workloads
    /\ images = bound.drivers \ {None}
    /\ terminatedImages = [r \in Drivers |-> None]
    /\ hasty = {} /\ overtaken = {}

-----------------------------------------------------------------------------
(* The callback: it loads the active buffer, then works on it.             *)

Event(kind, c, id) ==
    [kind |-> kind, cpu |-> c, id |-> id, ends |-> 0, driver |-> None]

Load(e) ==
    /\ event = None
    /\ event' = e /\ loaded' = active
    /\ UNCHANGED <<buffers, scraping, imageTable>>

ISREvent(c) ==
    /\ Len(isrs) < bound.isrs
    /\ isrs' = Append(isrs, c)
    /\ Load(Event("isr", c, Len(isrs) + 1))
    /\ UNCHANGED dpcs

\* A DPC is reported when it is over, and may have begun before the last ISRs.
\* Its routine is that of a driver that is loaded, or of no image.
DPCEvent(c) ==
    /\ Len(dpcs) < bound.dpcs
    /\ \E seen \in 0 .. Len(isrs), r \in bound.drivers :
          /\ r # None => terminatedImages[r] = None /\ r \in images
          /\ dpcs' = Append(dpcs, [cpu |-> c, seen |-> seen, driver |-> r])
    /\ Load(Event("dpc", c, Len(dpcs) + 1))
    /\ UNCHANGED isrs

CSwitchEvent(c) ==
    /\ Load(Event("cswitch", c, 0))
    /\ UNCHANGED <<isrs, dpcs>>

\* UnloadImage, for the last mapping of the image; that the mark is stored after
\* its generation was read is in module ImageManager.
UnloadImage(r) ==
    /\ event = None /\ r \in images /\ terminatedImages[r] = None
    /\ terminatedImages' = [terminatedImages EXCEPT ![r] = scrapeCounter]
    /\ UNCHANGED <<callback, buffers, scraping, images, scrapeCounter, bound,
                   hasty>>

\* correlateISR: the latest ISR of the CPU that is not after the DPC.
Candidates(b, d) ==
    {i \in b.isrs : isrs[i] = dpcs[d].cpu /\ i <= dpcs[d].seen}
Closest(b, d) == {i \in Candidates(b, d) : \A j \in Candidates(b, d) : j <= i}

Unmatched_Kept(waiting, i) == waiting   \* mutant: the match is not removed

Unmatched(waiting, i) == waiting \ {i}

correlateISR(b, d) ==
    IF Closest(b, d) = {} THEN b
    ELSE LET i == CHOOSE i \in Closest(b, d) : TRUE
         IN  [b EXCEPT !.counts.latency = @ \union {<<i, d>>},
                       !.isrs = Unmatched(@, i)]

Cleared_Kept(d) == d   \* mutant: the pending DPC is not deleted

Cleared(d) == 0

\* finalizeAndClearPendingDPC: the DPC that was pending is counted and its
\* driver looked up, ...
Ended_Never(b, c) == 0   \* mutant: the next DPC replaces it

Ended(b, c) == b.pending[c]

resolveDriverName(r) == IF r \in images THEN r ELSE None

CountPendingDPC ==
    /\ event # None /\ event.kind # "isr" /\ event.ends = 0
    /\ LET d == Ended(buffers[loaded], event.cpu)
       IN  /\ d # 0
           /\ buffers' = [buffers EXCEPT ![loaded].counts.executed[d] = @ + 1]
           /\ event' = [event EXCEPT !.ends = d,
                               !.driver = resolveDriverName(dpcs[d].driver)]
    /\ UNCHANGED <<isrs, dpcs, loaded, scraping, imageTable>>

\* ... its duration recorded, its ISR sought, and it is pending no more.  The
\* buffer may have been emptied meanwhile.
clearPendingDPC(b) ==
    LET d == event.ends
        recorded == IF event.driver = None THEN b
                    ELSE [b EXCEPT !.counts.durations = @ \union
                                                {<<event.driver, d>>}]
    IN  IF d = 0 THEN b
        ELSE [correlateISR(recorded, d) EXCEPT !.pending[event.cpu] =
                                                    Cleared(d)]

\* ProcessISREvent.  cleanupOldISRs runs when the number of CPUs that have
\* ISRs waiting is a multiple of CleanEvery, and drops those before an instant.
ProcessISREvent(b, i) ==
    LET added == [b EXCEPT !.counts.queued = @ \union {i},
                           !.isrs = @ \union {i}]
        onCPUs == Cardinality({isrs[j] : j \in added.isrs})
    IN  IF onCPUs % CleanEvery = 0
        THEN {[added EXCEPT !.isrs = {j \in @ : j >= first}] : first \in 1 .. i}
        ELSE {added}

ProcessDPCEvent(b, c, d) == [clearPendingDPC(b) EXCEPT !.pending[c] = d]

ProcessCSwitchEvent(b) == clearPendingDPC(b)

Handle ==
    /\ event # None
    /\ \/ event.kind = "isr" \/ event.ends # 0
       \/ Ended(buffers[loaded], event.cpu) = 0
    /\ LET b == buffers[loaded]
           after == CASE event.kind = "isr" -> ProcessISREvent(b, event.id)
                      [] event.kind = "dpc" ->
                            {ProcessDPCEvent(b, event.cpu, event.id)}
                      [] event.kind = "cswitch" -> {ProcessCSwitchEvent(b)}
       IN  \E a \in after : buffers' = [buffers EXCEPT ![loaded] = a]
    /\ event' = None /\ loaded' = None
    /\ UNCHANGED <<isrs, dpcs, scraping, imageTable>>

-----------------------------------------------------------------------------
(* Collect.                                                                *)

Scraping == {s \in Scrapers : old[s] # None \/ s \in cleaning}

\* Get and Swap: a pooled buffer, as it is, or a new one.
Swap(s, b) ==
    /\ scrapes < bound.scrapes /\ Cardinality(Scraping) < bound.atOnce
    /\ s \notin Scraping /\ place[b] # "out"
    /\ old' = [old EXCEPT ![s] = active]
    /\ active' = b
    /\ place' = [place EXCEPT ![b] = "out"]
    /\ scrapes' = scrapes + 1
    /\ UNCHANGED <<callback, buffers, merged, cleaning, totals, overtaken,
                   imageTable>>

\* GetCleanedImages names the images that are marked and not yet removed.
GetCleanedImages == {r \in images : terminatedImages[r] # None}
Of(rs, durations) == {p \in durations : p[1] \in rs}

\* mutant: the totals are pruned before the old buffer is added
Durations_PruneFirst(c) ==
    (totals.durations \ Of(GetCleanedImages, totals.durations))
        \union c.durations

Durations(c) ==
    LET all == totals.durations \union c.durations
    IN  all \ Of(GetCleanedImages, all)

\* Under mu: the old buffer's counts are added to the totals, then those of
\* unloaded drivers pruned.
Merge(s) ==
    /\ old[s] # None /\ s \notin merged
    /\ LET c == buffers[old[s]].counts
       IN  totals' = [queued |-> totals.queued \union c.queued,
                      executed |-> [d \in 1 .. MaxDpcs |->
                                        totals.executed[d] + c.executed[d]],
                      latency |-> totals.latency \union c.latency,
                      durations |-> Durations(c)]
    /\ merged' = merged \union {s}
    /\ UNCHANGED <<callback, buffers, place, active, old, cleaning, scrapes,
                   overtaken, imageTable>>

\* The old buffer is emptied and returned.
InHand == {event.ends} \union (IF event.kind = "dpc" THEN {event.id} ELSE {})
Reset(s) ==
    /\ s \in merged
    /\ buffers' = [buffers EXCEPT ![old[s]] = newMetricsBuffer]
    /\ place' = [place EXCEPT ![old[s]] = "pool"]
    /\ old' = [old EXCEPT ![s] = None] /\ merged' = merged \ {s}
    /\ cleaning' = cleaning \union {s}
    /\ overtaken' = IF loaded = old[s]
                    THEN overtaken \union {dpcs[d].driver : d \in InHand \ {0}}
                    ELSE overtaken
    /\ UNCHANGED <<callback, active, totals, scrapes, imageTable>>

\* The garbage collector empties a sync.Pool.
PoolDrops(b) ==
    /\ place[b] = "pool" /\ loaded # b
    /\ place' = [place EXCEPT ![b] = "none"]
    /\ buffers' = [buffers EXCEPT ![b] = newMetricsBuffer]
    /\ UNCHANGED <<callback, active, old, merged, cleaning, totals, scrapes,
                   overtaken, imageTable>>

\* PostScrapeCleanup after the collectors: the images whose generation the
\* threshold has passed are removed (modules GracePeriod and ImageManager).
PostScrapeCleanup(s) ==
    /\ s \in cleaning /\ cleaning' = cleaning \ {s}
    /\ scrapeCounter' = scrapeCounter + 1
    /\ \E cleanupThreshold \in 0 .. scrapeCounter + 1 :
        LET gone == {r \in GetCleanedImages :
                        terminatedImages[r] < cleanupThreshold}
        IN  /\ images' = images \ gone
            /\ terminatedImages' = [r \in Drivers |->
                    IF r \in gone THEN None ELSE terminatedImages[r]]
            /\ hasty' = hasty \union
                    {r \in gone : terminatedImages[r] = scrapeCounter}
    /\ UNCHANGED <<callback, buffers, place, active, old, merged, totals,
                   scrapes, overtaken, bound>>

Next ==
    \/ \E c \in CPUs : ISREvent(c) \/ DPCEvent(c) \/ CSwitchEvent(c)
    \/ \E r \in Drivers : UnloadImage(r)
    \/ CountPendingDPC \/ Handle
    \/ \E s \in Scrapers, b \in Buffers : Swap(s, b)
    \/ \E s \in Scrapers : Merge(s) \/ Reset(s) \/ PostScrapeCleanup(s)
    \/ \E b \in Buffers : PoolDrops(b)

Spec == Init /\ [][Next]_vars

-----------------------------------------------------------------------------
(* What the collector promises.                                            *)

\* The values the variables take; a buffer is out exactly while it is active
\* or a scraper has it, and a pending DPC is one of its CPU.
TypeOK ==
    /\ isrs \in Seq(CPUs) /\ \A d \in Dpcs : dpcs[d].cpu \in CPUs
    /\ active \in Buffers /\ loaded \in Buffers \union {None}
    /\ event \in Events \union {None}
    /\ old \in [Scrapers -> Buffers \union {None}] /\ merged \subseteq Scrapers
    /\ \A s \in merged : old[s] # None
    /\ \A b \in Buffers :
          (place[b] = "out") <=> (b = active \/ \E s \in Scrapers : old[s] = b)
    /\ \A b \in Buffers, c \in CPUs :
          buffers[b].pending[c] # 0 =>
              buffers[b].pending[c] \in Dpcs /\ dpcs[buffers[b].pending[c]].cpu = c
    /\ \A b \in Buffers : buffers[b].isrs \subseteq Isrs
    /\ scrapes \in 0 .. bound.scrapes /\ scrapeCounter \in 0 .. scrapes
    /\ images \subseteq Drivers
    /\ \A r \in Drivers \ images : terminatedImages[r] = None
    /\ hasty \subseteq Drivers \ images /\ overtaken \subseteq Drivers \union {None}

\* The buffers whose counts are yet to be added to the totals.
Uncounted ==
    {b \in Buffers : place[b] # "none" /\ \A s \in merged : old[s] # b}

Counts == {totals} \union {buffers[b].counts : b \in Uncounted}

\* Every DPC is counted at most once, in the totals or in one buffer, and once
\* it is counted it is not pending any more, but for the one that the callback
\* is about to clear, whichever buffer it was writing to when a scrape swapped
\* it out.
CountedOnce ==
    \A d \in Dpcs :
        /\ \A b \in Uncounted : totals.executed[d] + buffers[b].counts.executed[d] <= 1
        /\ \A a, b \in Uncounted :
              /\ buffers[a].counts.executed[d] > 0 =>
                    a = b \/ buffers[b].counts.executed[d] = 0
              /\ totals.executed[d] + buffers[a].counts.executed[d] > 0 =>
                    \A c \in CPUs : buffers[b].pending[c] = d =>
                        event # None /\ event.ends = d /\ loaded = b

\* An ISR is matched with at most one DPC and a DPC with at most one ISR, over
\* the totals and all buffers, and a matched ISR waits no more.
IsrMatchedOnce ==
    LET matches == UNION {n.latency : n \in Counts}
    IN  /\ \A p, q \in matches : p[1] = q[1] \/ p[2] = q[2] => p = q
        /\ \A p \in matches, b \in Uncounted : p[1] \notin buffers[b].isrs

Handling(kind, id) == event # None /\ event.kind = kind /\ event.id = id

\* DPCs that are neither counted, nor pending in a buffer that is or may become
\* the active one, nor being handled.
LostDpcs ==
    {d \in Dpcs :
        /\ ~Handling("dpc", d)
        /\ \A n \in Counts : n.executed[d] = 0
        /\ \A b \in Buffers, c \in CPUs :
              buffers[b].pending[c] = d => \E s \in Scrapers : old[s] = b}

LostIsrs ==
    {i \in Isrs : ~Handling("isr", i) /\ \A n \in Counts : i \notin n.queued}

\* A scrape costs at most the DPC that was pending on each CPU and the one
\* event that the callback was handling: nothing is lost in between.
LossBounded ==
    /\ Cardinality(LostDpcs) <= scrapes * (Cardinality(CPUs) + 1)
    /\ Cardinality(LostIsrs) <= scrapes

\* When scrapes do not overlap, the durations of a driver whose image has been
\* removed are gone for good, from the totals and from every buffer that will
\* be added to them: the mark by which they are pruned outlives the last that
\* are recorded.  Excepted are a cleanup that removes the image in the
\* generation of its unload, as one after a stall may, and a callback that had
\* a DPC of the driver in hand while a whole scrape went by.
SeriesGoWithDriver ==
    bound.atOnce = 1 =>
        \A r \in Drivers \ (images \union hasty \union overtaken),
           n \in Counts : Of({r}, n.durations) = {}
=============================================================================
