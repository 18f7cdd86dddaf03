----------------------------- MODULE GracePeriod -----------------------------
(***************************************************************************)
(* When an entity that has ended is removed: the adaptive threshold of     *)
(* calculateAdaptiveCleanupThreshold, the scrapes and the watchdog that    *)
(* drive it, and one terminated entity (a process, a thread or an image)   *)
(* carried through them (src/internal/kernel/statemanager).                *)
(*                                                                         *)
(* Times are integers of one unit; durations are kept exactly and divided  *)
(* as the code divides them, the average truncated to the unit.  A scrape  *)
(* collects (AggregateMetrics) and later cleans up (PostScrapeCleanup);    *)
(* scrapes may overlap, cleanups may not.                                  *)
(***************************************************************************)
EXTENDS Integers

CONSTANTS
    MinGrace,      \* minTerminationGracePeriod
    WatchTimeout,  \* the timeout of startScrapeWatchdog
    Steps,         \* how far time may move at once
    Intervals,     \* the intervals at which cleanups may follow each other
    MaxInFlight,   \* bound on the scrapes in flight
    MaxScrapes     \* bound on scrapeCounter

scrapeDurationSamples == 4

ASSUME GraceAssumption ==
    /\ MinGrace \in Nat \ {0} /\ WatchTimeout \in Nat
    /\ Steps \subseteq Nat \ {0} /\ Intervals \subseteq Nat
    /\ MaxInFlight \in Nat /\ MaxScrapes \in Nat

VARIABLES
    scrapeDurations,      \* ring buffer, 0 .. scrapeDurationSamples - 1
    lastScrapeIndex,
    scrapeDurationsFull,
    scrapeCounter,
    cleanupThreshold,     \* of the last cleanup
    sinceLast,            \* time.Now() - lastScrapeTime
    inFlight,             \* scrapes that have collected and not yet cleaned
    watchdogDue,          \* the watchdog has found its timeout passed
    entity                \* the ended entity, or NoEntity

buffer == <<scrapeDurations, lastScrapeIndex, scrapeDurationsFull>>
vars == <<buffer, scrapeCounter, cleanupThreshold, sinceLast, inFlight,
          watchdogDue, entity>>

\* gen: scrapeCounter at its end; age: time since then, capped at MinGrace;
\* exported: a scrape has collected since.
NoEntity == [gen |-> -1, age |-> 0, exported |-> FALSE]
Entities == [gen : Nat \union {-1}, age : 0 .. MinGrace, exported : BOOLEAN]
Ended == entity.gen >= 0

Init ==
    /\ scrapeDurations = [i \in 0 .. scrapeDurationSamples - 1 |-> 0]
    /\ lastScrapeIndex = 0 /\ scrapeDurationsFull = FALSE
    /\ scrapeCounter = 0 /\ cleanupThreshold = 0
    /\ sinceLast = 0 /\ inFlight = 0 /\ watchdogDue = FALSE
    /\ entity = NoEntity

-----------------------------------------------------------------------------
(* The threshold.                                                          *)

\* The buffer and index after one more duration.
Recorded(d) == [scrapeDurations EXCEPT ![lastScrapeIndex] = d]
NextIndex ==
    IF lastScrapeIndex + 1 >= scrapeDurationSamples THEN 0
    ELSE lastScrapeIndex + 1
NowFull == scrapeDurationsFull \/ lastScrapeIndex + 1 >= scrapeDurationSamples

SampleCount == IF NowFull THEN scrapeDurationSamples ELSE NextIndex

\* The average of the first n durations of the buffer b, truncated.
Taken(b, n, i) == IF i < n THEN b[i] ELSE 0
Average(b, n) ==
    (Taken(b, n, 0) + Taken(b, n, 1) + Taken(b, n, 2) + Taken(b, n, 3)) \div n

\* math.Ceil(minTerminationGracePeriod / average), at least one.
GraceGenerations_Floor(avg) ==   \* mutant: the quotient is truncated
    IF avg > 0 /\ MinGrace \div avg >= 1 THEN MinGrace \div avg ELSE 1

GraceGenerations_Zero(avg) ==   \* mutant: truncated, and no floor of one
    IF avg > 0 THEN MinGrace \div avg ELSE 1

GraceGenerations(avg) ==
    IF avg > 0 THEN (MinGrace + avg - 1) \div avg ELSE 1

Stalled(d) == d > 2 * MinGrace

Threshold(d, current) ==
    LET g == GraceGenerations(Average(Recorded(d), SampleCount))
    IN  IF Stalled(d) THEN current
        ELSE IF current > g THEN current - g ELSE 0

-----------------------------------------------------------------------------
(* The steps.                                                              *)

\* Time passes: the entity grows older.  The watchdog only waits for the
\* mutex, which takes no time worth counting.
TimePasses(d) ==
    /\ ~watchdogDue
    /\ sinceLast <= WatchTimeout
    /\ sinceLast' = sinceLast + d
    /\ entity' = IF ~Ended THEN entity
                 ELSE [entity EXCEPT
                        !.age = IF @ + d > MinGrace THEN MinGrace ELSE @ + d]
    /\ UNCHANGED <<buffer, scrapeCounter, cleanupThreshold, inFlight, watchdogDue>>

\* An entity ends and is marked with the current generation.
MarkForDeletion ==
    /\ ~Ended
    /\ entity' = [gen |-> scrapeCounter, age |-> 0, exported |-> FALSE]
    /\ UNCHANGED <<buffer, scrapeCounter, cleanupThreshold, sinceLast, inFlight,
                   watchdogDue>>

\* The metrics handler aggregates and serves.
Collect ==
    /\ inFlight < MaxInFlight
    /\ inFlight' = inFlight + 1
    /\ entity' = [entity EXCEPT !.exported = Ended]
    /\ UNCHANGED <<buffer, scrapeCounter, cleanupThreshold, sinceLast, watchdogDue>>

\* PostScrapeCleanup: count, record the duration, compute the threshold and
\* remove the entity if its generation is below it.
Expired(threshold) == Ended /\ entity.gen < threshold

Cleanup ==
    LET current == scrapeCounter + 1
        threshold == Threshold(sinceLast, current)
    IN  /\ scrapeCounter < MaxScrapes
        /\ scrapeCounter' = current
        /\ scrapeDurations' = Recorded(sinceLast)
        /\ lastScrapeIndex' = NextIndex
        /\ scrapeDurationsFull' = NowFull
        /\ cleanupThreshold' = threshold
        /\ sinceLast' = 0
        /\ entity' = IF Expired(threshold) THEN NoEntity ELSE entity

PostScrapeCleanup ==
    /\ inFlight > 0
    /\ sinceLast \in Intervals
    /\ inFlight' = inFlight - 1
    /\ Cleanup
    /\ UNCHANGED watchdogDue

\* The watchdog finds that there was no cleanup for WatchTimeout, and then
\* takes cleanupMu and cleans up; a scrape may do so in between.
WatchdogFires ==
    /\ ~watchdogDue
    /\ sinceLast > WatchTimeout
    /\ watchdogDue' = TRUE
    /\ UNCHANGED <<buffer, scrapeCounter, cleanupThreshold, sinceLast, inFlight,
                   entity>>

WatchdogCleanup ==
    /\ watchdogDue
    /\ watchdogDue' = FALSE
    /\ Cleanup
    /\ UNCHANGED inFlight

Next ==
    \/ \E d \in Steps : TimePasses(d)
    \/ MarkForDeletion
    \/ Collect
    \/ PostScrapeCleanup
    \/ WatchdogFires
    \/ WatchdogCleanup
    \/ scrapeCounter = MaxScrapes /\ UNCHANGED vars

Spec == Init /\ [][Next]_vars

-----------------------------------------------------------------------------
(* Properties.                                                             *)

\* The ring buffer, the counters and the entity have their types; the index
\* stays inside the buffer.
TypeOK ==
    /\ scrapeDurations \in [0 .. scrapeDurationSamples - 1 -> Nat]
    /\ lastScrapeIndex \in 0 .. scrapeDurationSamples - 1
    /\ scrapeDurationsFull \in BOOLEAN
    /\ scrapeCounter \in Nat
    /\ cleanupThreshold \in Nat
    /\ sinceLast \in Nat
    /\ inFlight \in Nat
    /\ watchdogDue \in BOOLEAN
    /\ entity \in Entities

\* The threshold never runs ahead of the scrapes: what is marked after a
\* cleanup began is never taken by it.  This is all module StateManager
\* assumes of it.
ThresholdBound == cleanupThreshold <= scrapeCounter

Removed == Ended /\ ~Ended'
SteadyScrapes ==
    /\ NowFull
    /\ \A i, j \in 0 .. scrapeDurationSamples - 1 :
          scrapeDurations'[i] = scrapeDurations'[j]

\* The intervals of the ring buffer are as long as MinGrace together: of
\* shorter ones the average says nothing of what came before them.
BufferCovers == MinGrace <= scrapeDurationSamples * scrapeDurations'[0]

\* While scrapes come at one steady interval, between a quarter of MinGrace and
\* twice as much, an entity is kept for MinGrace after its end.
SteadyGrace ==
    [][Removed /\ SteadyScrapes /\ BufferCovers /\ ~Stalled(sinceLast)
         => entity.age >= MinGrace]_vars

\* Unless it comes after a stall, a cleanup keeps what ended since the
\* cleanup before it, however short the interval and however many scrapes
\* overlap ("always wait at least one full scrape").
LastGenerationKept ==
    [][Removed /\ ~Stalled(sinceLast) => entity.gen < scrapeCounter]_vars

\* Unless the cleanup comes after a stall, an entity is removed only when a
\* scrape that began after its end has collected its final values ("to be
\* cleaned up after the next scrape", MarkThreadForDeletion).
ExportedUnlessStalled ==
    [][Removed /\ ~Stalled(sinceLast) => entity.exported]_vars

-----------------------------------------------------------------------------
(* The inductive invariants.                                               *)

IndInv == TypeOK /\ ThresholdBound

\* One scraper, which does not come back in the instant the watchdog fires.
OneScraper ==
    /\ MaxInFlight <= 1
    /\ WatchTimeout >= 2 * MinGrace
    /\ \A d \in Intervals : d <= WatchTimeout

\* What a cleanup may find of an earlier generation has been collected.
Collected ==
    /\ inFlight <= MaxInFlight
    /\ watchdogDue => sinceLast > WatchTimeout
    /\ Ended => entity.gen <= scrapeCounter
    /\ Ended /\ entity.gen < scrapeCounter /\ inFlight > 0 => entity.exported

ExportInv == IndInv /\ Collected

\* The last m intervals that were recorded, m at most three.
Before(i) == scrapeDurations[(lastScrapeIndex + scrapeDurationSamples - i)
                                % scrapeDurationSamples]
Lately(m) == (IF m >= 1 THEN Before(1) ELSE 0) + (IF m >= 2 THEN Before(2) ELSE 0)
             + (IF m >= 3 THEN Before(3) ELSE 0)

\* An entity is at least as old as the intervals that began after its end.
OldEnough ==
    Ended => \A m \in 0 .. 3 : m < scrapeCounter - entity.gen =>
        entity.age >= MinGrace \/ entity.age >= Lately(m) + sinceLast
=============================================================================
