------------------------- MODULE GracePeriod_proofs -------------------------
(***************************************************************************)
(* The threshold of module GracePeriod for every minimum grace period,     *)
(* every watchdog timeout and every sequence of intervals.                 *)
(***************************************************************************)
EXTENDS GracePeriod, TLAPS

\* The sum of at most four natural numbers, divided by a positive count.
LEMMA AverageType ==
    ASSUME NEW b \in [0 .. scrapeDurationSamples - 1 -> Nat], NEW n \in Nat \ {0}
    PROVE  Average(b, n) \in Nat
<1>1. \A i \in 0 .. 3 : Taken(b, n, i) \in Nat
    BY DEF Taken, scrapeDurationSamples
<1>2. PICK total \in Nat : Average(b, n) = total \div n
    <2>1. Taken(b, n, 0) + Taken(b, n, 1) + Taken(b, n, 2) + Taken(b, n, 3) \in Nat
        BY <1>1
    <2>2. QED
        BY <2>1 DEF Average
<1>3. QED
    BY <1>2

\* A grace period is at least one generation, whatever the average (the
\* ceiling and the floor of calculateAdaptiveCleanupThreshold).
LEMMA AtLeastOneGeneration ==
    ASSUME NEW avg \in Nat
    PROVE  GraceGenerations(avg) \in Nat \ {0}
<1>1. CASE avg = 0
    BY <1>1 DEF GraceGenerations
<1>2. CASE avg > 0
    <2>1. MinGrace + avg - 1 \in Nat /\ MinGrace + avg - 1 >= avg
        BY <1>2, GraceAssumption
    <2>2. (MinGrace + avg - 1) \div avg \in Nat \ {0}
        BY <1>2, <2>1, Z3
    <2>3. QED
        BY <1>2, <2>2 DEF GraceGenerations
<1>3. QED
    BY <1>1, <1>2

\* The ring buffer always has at least one sample when it is averaged.
LEMMA SamplesTaken ==
    ASSUME TypeOK
    PROVE  SampleCount \in Nat \ {0}
    BY DEF TypeOK, SampleCount, NowFull, NextIndex, scrapeDurationSamples

\* Without a stall the threshold is the counter less the generations of the
\* average, and never below zero.
LEMMA ThresholdOf ==
    ASSUME NEW current, NEW g, ~Stalled(sinceLast),
           GraceGenerations(Average(Recorded(sinceLast), SampleCount)) = g
    PROVE  Threshold(sinceLast, current) = IF current > g THEN current - g ELSE 0
    BY DEF Threshold

\* The threshold is at most the new counter, and below it unless the
\* cleanup comes after a stall.
LEMMA ThresholdBelow ==
    ASSUME TypeOK, NEW current \in Nat
    PROVE  /\ Threshold(sinceLast, current) \in 0 .. current
           /\ ~Stalled(sinceLast) /\ current > 0
                => Threshold(sinceLast, current) < current
<1> DEFINE b == Recorded(sinceLast)
           g == GraceGenerations(Average(b, SampleCount))
<1>1. b \in [0 .. scrapeDurationSamples - 1 -> Nat]
    BY DEF TypeOK, Recorded
<1>2. Average(b, SampleCount) \in Nat
    BY <1>1, SamplesTaken, AverageType
<1>3. g \in Nat \ {0}
    BY <1>2, AtLeastOneGeneration
<1>4. Threshold(sinceLast, current) =
        IF Stalled(sinceLast) THEN current
        ELSE IF current > g THEN current - g ELSE 0
    BY DEF Threshold
<1> HIDE DEF g
<1>5. QED
    BY <1>3, <1>4

-----------------------------------------------------------------------------
\* A cleanup keeps the types and the bound on the threshold; it removes the
\* entity or leaves it alone, and removes nothing that ended since the
\* previous cleanup unless it comes after a stall.
LEMMA CleanupInv ==
    ASSUME IndInv, Cleanup, inFlight' \in Nat, watchdogDue' \in BOOLEAN
    PROVE  /\ IndInv'
           /\ Removed /\ ~Stalled(sinceLast) => entity.gen < scrapeCounter
           /\ Ended' => entity' = entity
           /\ Stalled(sinceLast) /\ Ended' => entity.gen >= scrapeCounter + 1
<1> DEFINE t == Threshold(sinceLast, scrapeCounter + 1)
<1>1. scrapeCounter \in Nat /\ entity \in Entities /\ sinceLast \in Nat
    BY DEF IndInv, TypeOK
<1>2. /\ t \in 0 .. scrapeCounter + 1
      /\ ~Stalled(sinceLast) => t < scrapeCounter + 1
    BY <1>1, ThresholdBelow DEF IndInv
<1>3. /\ cleanupThreshold' = t /\ scrapeCounter' = scrapeCounter + 1
      /\ entity' = IF Expired(t) THEN NoEntity ELSE entity
      /\ sinceLast' = 0
    BY DEF Cleanup
<1>4. Stalled(sinceLast) => t = scrapeCounter + 1
    BY DEF Threshold
<1> HIDE DEF t
<1>5. NoEntity \in Entities
    BY GraceAssumption DEF NoEntity, Entities
<1>6. scrapeDurations' \in [0 .. scrapeDurationSamples - 1 -> Nat]
    BY <1>1 DEF Cleanup, Recorded, IndInv, TypeOK
<1>7. /\ lastScrapeIndex' \in 0 .. scrapeDurationSamples - 1
      /\ scrapeDurationsFull' \in BOOLEAN
    BY DEF Cleanup, NextIndex, NowFull, IndInv, TypeOK, scrapeDurationSamples
<1>8. IndInv'
    BY <1>1, <1>2, <1>3, <1>5, <1>6, <1>7 DEF IndInv, TypeOK, ThresholdBound
<1>9. entity.gen \in Nat \union {-1} /\ NoEntity.gen = -1
    BY <1>1 DEF Entities, NoEntity
<1>10. QED
    BY <1>1, <1>2, <1>3, <1>4, <1>8, <1>9 DEF Removed, Ended, Expired

\* Initially nothing has been scraped and no entity has ended.
LEMMA InitInv == ASSUME Init PROVE IndInv
<1>1. NoEntity \in Entities
    BY GraceAssumption DEF NoEntity, Entities
<1>2. scrapeDurations \in [0 .. scrapeDurationSamples - 1 -> Nat]
    BY DEF Init
<1>3. lastScrapeIndex \in 0 .. scrapeDurationSamples - 1
    BY DEF Init, scrapeDurationSamples
<1>4. scrapeDurationsFull \in BOOLEAN /\ watchdogDue \in BOOLEAN
    BY DEF Init
<1>5. QED
    BY <1>1, <1>2, <1>3, <1>4 DEF Init, IndInv, TypeOK, ThresholdBound

\* Growing older keeps an entity an entity.
LEMMA TimePassesInv ==
    ASSUME IndInv, NEW d \in Steps, TimePasses(d)
    PROVE  /\ IndInv' /\ (Ended' <=> Ended) /\ entity'.gen = entity.gen
           /\ entity'.exported = entity.exported /\ sinceLast' \in Nat
<1>1. d \in Nat /\ entity \in Entities /\ MinGrace \in Nat /\ sinceLast \in Nat
    BY GraceAssumption DEF IndInv, TypeOK
<1>2. /\ entity' \in Entities /\ entity'.gen = entity.gen
      /\ entity'.exported = entity.exported
    BY <1>1 DEF TimePasses, Entities
<1>3. sinceLast' \in Nat
    BY <1>1 DEF TimePasses
<1>4. QED
    BY <1>1, <1>2, <1>3 DEF TimePasses, IndInv, TypeOK, ThresholdBound, buffer, Ended

\* Every step keeps the invariant, and removes the entity only as CleanupInv
\* says.
LEMMA StepInv ==
    ASSUME IndInv, [Next]_vars
    PROVE  /\ IndInv'
           /\ Removed /\ ~Stalled(sinceLast) => entity.gen < scrapeCounter
<1>1. CASE \E d \in Steps : TimePasses(d)
    BY <1>1, TimePassesInv DEF Removed
<1>2. CASE MarkForDeletion
    BY <1>2, GraceAssumption
    DEF MarkForDeletion, IndInv, TypeOK, ThresholdBound, buffer, Entities,
        Ended, Removed
<1>3. CASE Collect
    <2>1. entity \in Entities /\ Ended \in BOOLEAN
        BY DEF IndInv, TypeOK, Ended
    <2>2. entity' = [entity EXCEPT !.exported = Ended]
        BY <1>3 DEF Collect
    <2>3. entity' \in Entities /\ entity'.gen = entity.gen
        BY <2>1, <2>2 DEF Entities
    <2>4. ~Removed
        BY <2>3 DEF Removed, Ended
    <2>5. QED
        BY <1>3, <2>3, <2>4 DEF Collect, IndInv, TypeOK, ThresholdBound, buffer
<1>4. CASE PostScrapeCleanup
    <2>1. inFlight' \in Nat /\ watchdogDue' \in BOOLEAN
        BY <1>4 DEF PostScrapeCleanup, IndInv, TypeOK
    <2>2. QED
        BY <1>4, <2>1, CleanupInv DEF PostScrapeCleanup
<1>5. CASE WatchdogFires
    BY <1>5 DEF WatchdogFires, IndInv, TypeOK, ThresholdBound, buffer, Ended,
        Removed
<1>6. CASE WatchdogCleanup
    <2>1. inFlight' \in Nat /\ watchdogDue' \in BOOLEAN
        BY <1>6 DEF WatchdogCleanup, IndInv, TypeOK
    <2>2. QED
        BY <1>6, <2>1, CleanupInv DEF WatchdogCleanup
<1>7. CASE UNCHANGED vars
    BY <1>7 DEF vars, buffer, IndInv, TypeOK, ThresholdBound, Ended, Removed
<1>8. QED
    BY <1>1, <1>2, <1>3, <1>4, <1>5, <1>6, <1>7 DEF Next

\* What is marked after a cleanup began is never taken by it: the threshold
\* never passes the counter (calculateAdaptiveCleanupThreshold).
THEOREM ThresholdBehindCounter == Spec => []ThresholdBound
<1>1. Init => IndInv
    BY InitInv
<1>2. IndInv /\ [Next]_vars => IndInv'
    BY StepInv
<1>3. IndInv => ThresholdBound
    BY DEF IndInv
<1>4. QED
    BY <1>1, <1>2, <1>3, PTL DEF Spec

\* Unless it comes after a stall, a cleanup keeps what ended since the one
\* before it, for every grace period and every sequence of intervals.
THEOREM OneGenerationKept == Spec => LastGenerationKept
<1>1. Init => IndInv
    BY InitInv
<1>2. IndInv /\ [Next]_vars => IndInv'
    BY StepInv
<1>3. IndInv /\ [Next]_vars
        => [Removed /\ ~Stalled(sinceLast) => entity.gen < scrapeCounter]_vars
    BY StepInv
<1>4. QED
    BY <1>1, <1>2, <1>3, PTL DEF Spec, LastGenerationKept

-----------------------------------------------------------------------------
\* With one scraper, every step keeps Collected, and removes the entity only
\* once a scrape has collected it or after a stall.
LEMMA ExportStep ==
    ASSUME OneScraper, ExportInv, [Next]_vars
    PROVE  /\ ExportInv'
           /\ Removed /\ ~Stalled(sinceLast) => entity.exported
<1>1. /\ IndInv /\ IndInv' /\ Collected
      /\ Removed /\ ~Stalled(sinceLast) => entity.gen < scrapeCounter
    BY StepInv DEF ExportInv
<1>2. /\ entity \in Entities /\ scrapeCounter \in Nat /\ inFlight \in Nat
      /\ sinceLast \in Nat /\ WatchTimeout \in Nat /\ MinGrace \in Nat
      /\ MaxInFlight \in Nat
    BY <1>1, GraceAssumption DEF IndInv, TypeOK
<1>3. CASE \E d \in Steps : TimePasses(d)
    <2>1. PICK d \in Steps : TimePasses(d)
        BY <1>3
    <2>2. /\ Ended' <=> Ended
          /\ entity'.gen = entity.gen /\ entity'.exported = entity.exported
        BY <1>1, <2>1, TimePassesInv
    <2>3. Collected'
        BY <1>1, <2>1, <2>2 DEF Collected, TimePasses
    <2>4. QED
        BY <1>1, <2>2, <2>3 DEF ExportInv, Removed
<1>4. CASE MarkForDeletion
    BY <1>1, <1>2, <1>4 DEF MarkForDeletion, ExportInv, Collected, Ended, Removed
<1>5. CASE Collect
    <2>1. /\ entity'.gen = entity.gen /\ (Ended' <=> Ended)
          /\ entity'.exported = Ended
        <3>1. Ended \in BOOLEAN
            BY DEF Ended
        <3>2. entity' = [entity EXCEPT !.exported = Ended]
            BY <1>5 DEF Collect
        <3>3. entity'.gen = entity.gen /\ entity'.exported = Ended
            BY <1>2, <3>1, <3>2 DEF Entities
        <3>4. QED
            BY <3>3 DEF Ended
    <2>2. inFlight' <= MaxInFlight
        BY <1>2, <1>5 DEF Collect
    <2>3. Collected'
        BY <1>1, <2>1, <2>2, <1>5 DEF Collect, Collected
    <2>4. QED
        BY <1>1, <2>1, <2>3 DEF ExportInv, Removed
<1>6. CASE PostScrapeCleanup
    <2>1. /\ inFlight' = inFlight - 1 /\ inFlight = 1
          /\ watchdogDue' = watchdogDue /\ ~watchdogDue
        BY <1>1, <1>2, <1>6 DEF PostScrapeCleanup, Collected, OneScraper
    <2>2. /\ Ended' => entity' = entity
          /\ scrapeCounter' = scrapeCounter + 1
        BY <1>1, <1>6, <2>1, CleanupInv DEF PostScrapeCleanup, Cleanup, IndInv, TypeOK
    <2>3. Ended' => Ended /\ entity'.gen = entity.gen
        BY <2>2 DEF Ended
    <2>4. Collected'
        <3>1. inFlight' = 0 /\ ~watchdogDue'
            BY <2>1
        <3>2. Ended' => entity'.gen <= scrapeCounter'
            BY <1>1, <1>2, <2>2, <2>3 DEF Collected, Entities
        <3>3. QED
            BY <1>2, <3>1, <3>2 DEF Collected
    <2>5. Removed /\ ~Stalled(sinceLast) => entity.exported
        BY <1>1, <2>1 DEF Collected, Removed
    <2>6. QED
        BY <1>1, <2>4, <2>5 DEF ExportInv
<1>7. CASE WatchdogFires
    BY <1>1, <1>2, <1>7 DEF WatchdogFires, ExportInv, Collected, Ended, Removed, buffer
<1>8. CASE WatchdogCleanup
    <2>1. Stalled(sinceLast)
        BY <1>1, <1>2, <1>8 DEF WatchdogCleanup, Collected, OneScraper, Stalled
    <2>2. inFlight' = inFlight /\ watchdogDue' = FALSE /\ Cleanup
        BY <1>8 DEF WatchdogCleanup
    <2>3. /\ Ended' => entity' = entity /\ entity.gen >= scrapeCounter + 1
          /\ scrapeCounter' = scrapeCounter + 1
        BY <1>1, <1>2, <2>1, <2>2, CleanupInv DEF Cleanup
    <2>4. ~Ended'
        BY <1>1, <1>2, <2>3 DEF Collected, Ended, Entities
    <2>5. QED
        BY <1>1, <2>1, <2>2, <2>4 DEF ExportInv, Collected
<1>9. CASE UNCHANGED vars
    BY <1>1, <1>9 DEF vars, buffer, ExportInv, Collected, Ended, Removed
<1>10. QED
    BY <1>3, <1>4, <1>5, <1>6, <1>7, <1>8, <1>9 DEF Next

\* With one scraper, a timeout of the watchdog past the stall threshold, and
\* no scrape in the instant the watchdog fires, an entity is removed only
\* once a scrape that began after its end has collected it, unless the
\* cleanup comes after a stall: for every grace period and all intervals.
THEOREM OneScraperExports ==
    ASSUME OneScraper
    PROVE  Spec => ExportedUnlessStalled
<1>1. Init => ExportInv
    <2> SUFFICES ASSUME Init PROVE ExportInv
        OBVIOUS
    <2>1. IndInv
        BY InitInv
    <2>2. ~Ended
        BY DEF Init, Ended, NoEntity
    <2>3. QED
        BY <2>1, <2>2, GraceAssumption DEF Init, ExportInv, Collected
<1>2. ExportInv /\ [Next]_vars => ExportInv'
    BY OneScraper, ExportStep
<1>3. ExportInv /\ [Next]_vars
        => [Removed /\ ~Stalled(sinceLast) => entity.exported]_vars
    BY OneScraper, ExportStep
<1>4. QED
    BY <1>1, <1>2, <1>3, PTL DEF Spec, ExportedUnlessStalled

-----------------------------------------------------------------------------
\* A quotient is below k when the dividend is below k times the divisor, and
\* the next multiple of the divisor is above the dividend.
LEMMA QuotientBelow ==
    ASSUME NEW x \in Nat, NEW d \in Nat \ {0}, x < 5 * d
    PROVE  /\ x \div d \in 0 .. 4
           /\ x < d * (x \div d) + d
<1>1. x \div d \in Int /\ x = d * (x \div d) + (x % d) /\ x % d \in 0 .. d - 1
    BY Z3
<1>2. x < d * (x \div d) + d
    BY <1>1
<1>3. x \div d >= 0
    BY Z3
<1>4. x \div d < 5
    BY Z3
<1>5. QED
    BY <1>1, <1>2, <1>3, <1>4

\* The generations of an average that covers MinGrace in four, times that
\* average, make up MinGrace (the ceiling of calculateAdaptiveCleanupThreshold).
LEMMA GenerationsCover ==
    ASSUME NEW d \in Nat, MinGrace <= 4 * d
    PROVE  /\ GraceGenerations(d) \in 1 .. 4
           /\ MinGrace <= d + (IF GraceGenerations(d) >= 2 THEN d ELSE 0)
                            + (IF GraceGenerations(d) >= 3 THEN d ELSE 0)
                            + (IF GraceGenerations(d) >= 4 THEN d ELSE 0)
<1> DEFINE g == (MinGrace + d - 1) \div d
<1>1. d > 0 /\ MinGrace \in Nat \ {0}
    BY GraceAssumption
<1>2. MinGrace + d - 1 \in Nat /\ MinGrace + d - 1 < 5 * d
    BY <1>1
<1>3. g \in 0 .. 4 /\ MinGrace + d - 1 < d * g + d
    BY <1>1, <1>2, QuotientBelow
<1>4. GraceGenerations(d) = g /\ g \in Nat \ {0}
    BY <1>1, AtLeastOneGeneration DEF GraceGenerations
<1> HIDE DEF g
<1>5. g = 1 \/ g = 2 \/ g = 3 \/ g = 4
    BY <1>3, <1>4
<1>6. CASE g = 1
    BY <1>1, <1>3, <1>4, <1>6
<1>7. CASE g = 2
    BY <1>1, <1>3, <1>4, <1>7
<1>8. CASE g = 3
    BY <1>1, <1>3, <1>4, <1>8
<1>9. CASE g = 4
    BY <1>1, <1>3, <1>4, <1>9
<1>10. QED
    BY <1>5, <1>6, <1>7, <1>8, <1>9

\* Four equal durations have that duration as their average.
LEMMA SteadyAverage ==
    ASSUME NEW b, NEW d \in Nat, \A i \in 0 .. 3 : b[i] = d
    PROVE  Average(b, 4) = d
<1>1. /\ Taken(b, 4, 0) = d /\ Taken(b, 4, 1) = d
      /\ Taken(b, 4, 2) = d /\ Taken(b, 4, 3) = d
    BY DEF Taken
<1>2. d + d + d + d = 4 * d /\ (4 * d) \div 4 = d
    BY Z3
<1>3. QED
    BY <1>1, <1>2 DEF Average

\* A cleanup records sinceLast as the last interval, moves the two before it
\* back by one and overwrites none of the three (the ring of four).
LEMMA Recording ==
    ASSUME TypeOK, Cleanup
    PROVE  /\ \A i \in 1 .. 3 : Before(i) \in Nat
           /\ Before(1)' = sinceLast /\ Before(2)' = Before(1)
           /\ Before(3)' = Before(2)
           /\ \A i \in 1 .. 3 : \E j \in 0 .. 3 : Before(i) = scrapeDurations'[j]
           /\ \E j \in 0 .. 3 : scrapeDurations'[j] = sinceLast
<1>1. /\ scrapeDurations \in [0 .. 3 -> Nat] /\ sinceLast \in Nat
      /\ lastScrapeIndex \in 0 .. 3
      /\ scrapeDurations' = [scrapeDurations EXCEPT ![lastScrapeIndex] = sinceLast]
      /\ lastScrapeIndex' = IF lastScrapeIndex + 1 >= 4 THEN 0 ELSE lastScrapeIndex + 1
    BY DEF TypeOK, Cleanup, Recorded, NextIndex, scrapeDurationSamples
<1>2. /\ 3 % 4 = 3 /\ 2 % 4 = 2 /\ 1 % 4 = 1 /\ 4 % 4 = 0 /\ 5 % 4 = 1
      /\ 6 % 4 = 2
    BY Z3
<1>3. lastScrapeIndex = 0 \/ lastScrapeIndex = 1 \/ lastScrapeIndex = 2
        \/ lastScrapeIndex = 3
    BY <1>1
<1>4. CASE lastScrapeIndex = 0
    <2>1. /\ Before(1) = scrapeDurations[3] /\ Before(2) = scrapeDurations[2]
          /\ Before(3) = scrapeDurations[1]
        BY <1>2, <1>4 DEF Before, scrapeDurationSamples
    <2>2. lastScrapeIndex' = 1
        BY <1>1, <1>4
    <2>3. /\ Before(1)' = scrapeDurations'[0] /\ Before(2)' = scrapeDurations'[3]
          /\ Before(3)' = scrapeDurations'[2]
        BY <1>2, <2>2 DEF Before, scrapeDurationSamples
    <2>4. /\ scrapeDurations'[0] = sinceLast
          /\ scrapeDurations'[1] = scrapeDurations[1]
          /\ scrapeDurations'[2] = scrapeDurations[2]
          /\ scrapeDurations'[3] = scrapeDurations[3]
        BY <1>1, <1>4
    <2>5. QED
        BY <1>1, <2>1, <2>3, <2>4
<1>5. CASE lastScrapeIndex = 1
    <2>1. /\ Before(1) = scrapeDurations[0] /\ Before(2) = scrapeDurations[3]
          /\ Before(3) = scrapeDurations[2]
        BY <1>2, <1>5 DEF Before, scrapeDurationSamples
    <2>2. lastScrapeIndex' = 2
        BY <1>1, <1>5
    <2>3. /\ Before(1)' = scrapeDurations'[1] /\ Before(2)' = scrapeDurations'[0]
          /\ Before(3)' = scrapeDurations'[3]
        BY <1>2, <2>2 DEF Before, scrapeDurationSamples
    <2>4. /\ scrapeDurations'[1] = sinceLast
          /\ scrapeDurations'[0] = scrapeDurations[0]
          /\ scrapeDurations'[2] = scrapeDurations[2]
          /\ scrapeDurations'[3] = scrapeDurations[3]
        BY <1>1, <1>5
    <2>5. QED
        BY <1>1, <2>1, <2>3, <2>4
<1>6. CASE lastScrapeIndex = 2
    <2>1. /\ Before(1) = scrapeDurations[1] /\ Before(2) = scrapeDurations[0]
          /\ Before(3) = scrapeDurations[3]
        BY <1>2, <1>6 DEF Before, scrapeDurationSamples
    <2>2. lastScrapeIndex' = 3
        BY <1>1, <1>6
    <2>3. /\ Before(1)' = scrapeDurations'[2] /\ Before(2)' = scrapeDurations'[1]
          /\ Before(3)' = scrapeDurations'[0]
        BY <1>2, <2>2 DEF Before, scrapeDurationSamples
    <2>4. /\ scrapeDurations'[2] = sinceLast
          /\ scrapeDurations'[0] = scrapeDurations[0]
          /\ scrapeDurations'[1] = scrapeDurations[1]
          /\ scrapeDurations'[3] = scrapeDurations[3]
        BY <1>1, <1>6
    <2>5. QED
        BY <1>1, <2>1, <2>3, <2>4
<1>7. CASE lastScrapeIndex = 3
    <2>1. /\ Before(1) = scrapeDurations[2] /\ Before(2) = scrapeDurations[1]
          /\ Before(3) = scrapeDurations[0]
        BY <1>2, <1>7 DEF Before, scrapeDurationSamples
    <2>2. lastScrapeIndex' = 0
        BY <1>1, <1>7
    <2>3. /\ Before(1)' = scrapeDurations'[3] /\ Before(2)' = scrapeDurations'[2]
          /\ Before(3)' = scrapeDurations'[1]
        BY <1>2, <2>2 DEF Before, scrapeDurationSamples
    <2>4. /\ scrapeDurations'[3] = sinceLast
          /\ scrapeDurations'[0] = scrapeDurations[0]
          /\ scrapeDurations'[1] = scrapeDurations[1]
          /\ scrapeDurations'[2] = scrapeDurations[2]
        BY <1>1, <1>7
    <2>5. QED
        BY <1>1, <2>1, <2>3, <2>4
<1>8. QED
    BY <1>3, <1>4, <1>5, <1>6, <1>7

\* A cleanup leaves the entity as old as the intervals that began after its
\* end: it adds one interval to them, and the entity was that old before.
LEMMA CleanupOldEnough ==
    ASSUME IndInv, OldEnough, Cleanup, Ended' => entity' = entity
    PROVE  OldEnough'
<1> SUFFICES ASSUME Ended', NEW m \in 0 .. 3, m < scrapeCounter' - entity'.gen
             PROVE  entity'.age >= MinGrace \/ entity'.age >= Lately(m)' + sinceLast'
    BY DEF OldEnough
<1>1. entity' = entity /\ Ended
    BY DEF Ended
<1>2. /\ entity.gen \in Nat /\ entity.age \in Nat /\ scrapeCounter \in Nat
      /\ sinceLast \in Nat /\ TypeOK /\ MinGrace \in Nat
    BY <1>1, GraceAssumption DEF IndInv, TypeOK, Entities, Ended
<1>3. scrapeCounter' = scrapeCounter + 1 /\ sinceLast' = 0
    BY DEF Cleanup
<1>4. CASE m = 0
    <2>1. Lately(m)' = 0
        BY <1>4 DEF Lately
    <2>2. QED
        BY <1>1, <1>2, <1>3, <2>1
<1>5. CASE m \in 1 .. 3
    <2>1. m - 1 \in 0 .. 3 /\ m - 1 < scrapeCounter - entity.gen
        BY <1>1, <1>2, <1>3, <1>5
    <2>2. entity.age >= MinGrace \/ entity.age >= Lately(m - 1) + sinceLast
        BY <1>1, <2>1 DEF OldEnough
    <2>3. /\ Before(1) \in Nat /\ Before(2) \in Nat
          /\ Before(1)' = sinceLast /\ Before(2)' = Before(1)
          /\ Before(3)' = Before(2)
        BY <1>2, Recording
    <2>4. Lately(m)' = Lately(m - 1) + sinceLast
        BY <1>2, <1>5, <2>3 DEF Lately
    <2>5. QED
        BY <1>1, <1>3, <2>2, <2>4, <2>3, <1>2, <1>5 DEF Lately
<1>6. QED
    BY <1>4, <1>5

\* Every step keeps the entity as old as the intervals that began after its
\* end.
LEMMA OldEnoughStep ==
    ASSUME IndInv, OldEnough, [Next]_vars
    PROVE  OldEnough'
<1>1. /\ TypeOK /\ entity \in Entities /\ scrapeCounter \in Nat /\ sinceLast \in Nat
      /\ inFlight \in Nat /\ watchdogDue \in BOOLEAN /\ MinGrace \in Nat
    BY GraceAssumption DEF IndInv, TypeOK
<1>2. ASSUME UNCHANGED <<buffer, scrapeCounter, sinceLast>>,
             entity'.gen = entity.gen, entity'.age = entity.age
      PROVE  OldEnough'
    BY <1>2 DEF OldEnough, Ended, Lately, Before, buffer
<1>3. CASE \E d \in Steps : TimePasses(d)
    <2>1. PICK d \in Steps : TimePasses(d)
        BY <1>3
    <2>2. d \in Nat
        BY GraceAssumption
    <2> SUFFICES ASSUME Ended', NEW m \in 0 .. 3, m < scrapeCounter' - entity'.gen
                 PROVE  entity'.age >= MinGrace \/ entity'.age >= Lately(m)' + sinceLast'
        BY DEF OldEnough
    <2>3. Ended /\ entity'.gen = entity.gen
        BY <2>1, TimePassesInv
    <2>4. /\ sinceLast' = sinceLast + d /\ Lately(m)' = Lately(m)
          /\ scrapeCounter' = scrapeCounter
        BY <2>1 DEF TimePasses, Lately, Before, buffer
    <2>5. entity'.age = IF entity.age + d > MinGrace THEN MinGrace ELSE entity.age + d
        BY <1>1, <2>1, <2>3 DEF TimePasses, Entities
    <2>6. entity.age >= MinGrace \/ entity.age >= Lately(m) + sinceLast
        BY <2>3, <2>4 DEF OldEnough
    <2>7. Lately(m) \in Nat /\ entity.age \in Nat
        <3>1. \A i \in 1 .. 3 : Before(i) \in Nat
            <4>1. \A i \in 1 .. 3 :
                     (lastScrapeIndex + scrapeDurationSamples - i)
                        % scrapeDurationSamples \in 0 .. scrapeDurationSamples - 1
                BY <1>1, Z3 DEF TypeOK, scrapeDurationSamples
            <4>2. QED
                BY <1>1, <4>1 DEF Before, TypeOK
        <3>2. QED
            BY <1>1, <3>1 DEF Lately, Entities
    <2>8. QED
        BY <1>1, <2>2, <2>4, <2>5, <2>6, <2>7
<1>4. CASE MarkForDeletion
    <2>1. entity'.gen = scrapeCounter /\ scrapeCounter' = scrapeCounter
        BY <1>4 DEF MarkForDeletion
    <2>2. ASSUME NEW m \in 0 .. 3, m < scrapeCounter' - entity'.gen
          PROVE  FALSE
        BY <1>1, <2>1, <2>2
    <2>3. QED
        BY <2>2 DEF OldEnough
<1>5. CASE Collect
    <2>1. entity' = [entity EXCEPT !.exported = Ended]
        BY <1>5 DEF Collect
    <2>2. entity'.gen = entity.gen /\ entity'.age = entity.age
        BY <1>1, <2>1 DEF Entities
    <2>3. QED
        BY <1>2, <1>5, <2>2 DEF Collect
<1>6. CASE PostScrapeCleanup
    <2>1. inFlight' \in Nat /\ watchdogDue' \in BOOLEAN /\ Cleanup
        BY <1>1, <1>6 DEF PostScrapeCleanup
    <2>2. QED
        BY <2>1, CleanupInv, CleanupOldEnough
<1>7. CASE WatchdogFires
    BY <1>2, <1>7 DEF WatchdogFires
<1>8. CASE WatchdogCleanup
    <2>1. inFlight' \in Nat /\ watchdogDue' \in BOOLEAN /\ Cleanup
        BY <1>1, <1>8 DEF WatchdogCleanup
    <2>2. QED
        BY <2>1, CleanupInv, CleanupOldEnough
<1>9. CASE UNCHANGED vars
    BY <1>2, <1>9 DEF vars
<1>10. QED
    BY <1>3, <1>4, <1>5, <1>6, <1>7, <1>8, <1>9 DEF Next

\* What a cleanup removes after steady scrapes is old enough: the average is
\* the interval, and the generations that have passed began after its end.
LEMMA SteadyRemoval ==
    ASSUME IndInv, OldEnough, Cleanup, Removed, SteadyScrapes, BufferCovers,
           ~Stalled(sinceLast)
    PROVE  entity.age >= MinGrace
<1> DEFINE g == GraceGenerations(sinceLast)
<1>1. /\ TypeOK /\ entity.gen \in Nat /\ entity.age \in Nat
      /\ scrapeCounter \in Nat /\ sinceLast \in Nat /\ MinGrace \in Nat
    BY GraceAssumption DEF IndInv, TypeOK, Entities, Removed, Ended
<1>2. /\ scrapeDurations' = Recorded(sinceLast)
      /\ \A j \in 0 .. 3 : scrapeDurations'[j] = sinceLast
    <2>1. PICK j \in 0 .. 3 : scrapeDurations'[j] = sinceLast
        BY <1>1, Recording
    <2>2. \A i \in 0 .. 3 : scrapeDurations'[i] = scrapeDurations'[j]
        BY DEF SteadyScrapes, scrapeDurationSamples
    <2>3. QED
        BY <2>1, <2>2 DEF Cleanup
<1>3. MinGrace <= 4 * sinceLast
    BY <1>2 DEF BufferCovers, scrapeDurationSamples
<1>4. Before(1) = sinceLast /\ Before(2) = sinceLast /\ Before(3) = sinceLast
    BY <1>1, <1>2, Recording
<1>5. Average(Recorded(sinceLast), SampleCount) = sinceLast
    <2>1. SampleCount = 4
        BY DEF SampleCount, SteadyScrapes, scrapeDurationSamples
    <2>2. QED
        BY <1>1, <1>2, <2>1, SteadyAverage
<1>6. /\ g \in 1 .. 4
      /\ MinGrace <= sinceLast + (IF g >= 2 THEN sinceLast ELSE 0)
                       + (IF g >= 3 THEN sinceLast ELSE 0)
                       + (IF g >= 4 THEN sinceLast ELSE 0)
    BY <1>1, <1>3, GenerationsCover
<1>7. Threshold(sinceLast, scrapeCounter + 1)
        = IF scrapeCounter + 1 > g THEN scrapeCounter + 1 - g ELSE 0
    <2>1. GraceGenerations(Average(Recorded(sinceLast), SampleCount)) = g
        BY <1>5
    <2> HIDE DEF g
    <2>2. QED
        BY <1>1, <1>6, <2>1, ThresholdOf
<1>8. entity.gen < Threshold(sinceLast, scrapeCounter + 1)
    BY DEF Cleanup, Expired, Removed, Ended
<1> HIDE DEF g
<1>9. g - 1 \in 0 .. 3 /\ g - 1 < scrapeCounter - entity.gen
    BY <1>1, <1>6, <1>7, <1>8
<1>10. entity.age >= MinGrace \/ entity.age >= Lately(g - 1) + sinceLast
    BY <1>9 DEF OldEnough, Removed
<1>11. Lately(g - 1) = (IF g >= 2 THEN sinceLast ELSE 0)
                       + (IF g >= 3 THEN sinceLast ELSE 0)
                       + (IF g >= 4 THEN sinceLast ELSE 0)
    BY <1>1, <1>4, <1>6 DEF Lately
<1>12. QED
    BY <1>1, <1>6, <1>10, <1>11

\* No step but a cleanup removes the entity.
LEMMA OnlyCleanupRemoves ==
    ASSUME IndInv, [Next]_vars, Removed
    PROVE  Cleanup
<1>1. entity \in Entities
    BY DEF IndInv, TypeOK
<1>2. CASE \E d \in Steps : TimePasses(d)
    BY <1>2, TimePassesInv DEF Removed
<1>3. CASE MarkForDeletion
    BY <1>3 DEF MarkForDeletion, Removed
<1>4. CASE Collect
    <2>1. entity' = [entity EXCEPT !.exported = Ended]
        BY <1>4 DEF Collect
    <2>2. entity'.gen = entity.gen
        BY <1>1, <2>1 DEF Entities
    <2>3. QED
        BY <2>2 DEF Removed, Ended
<1>5. CASE PostScrapeCleanup \/ WatchdogCleanup
    BY <1>5 DEF PostScrapeCleanup, WatchdogCleanup
<1>6. CASE WatchdogFires \/ UNCHANGED vars
    BY <1>6 DEF WatchdogFires, vars, Removed, Ended
<1>7. QED
    BY <1>2, <1>3, <1>4, <1>5, <1>6 DEF Next

\* While scrapes come at one steady interval, from a quarter of MinGrace to
\* twice as much, an entity is kept for MinGrace after its end: for every
\* grace period, every such interval and any number of scrapers.
THEOREM SteadyScrapesGrace == Spec => SteadyGrace
<1>1. Init => IndInv /\ OldEnough
    <2>1. Init => ~Ended
        BY DEF Init, Ended, NoEntity
    <2>2. QED
        BY <2>1, InitInv DEF OldEnough
<1>2. IndInv /\ OldEnough /\ [Next]_vars => (IndInv /\ OldEnough)'
    BY StepInv, OldEnoughStep
<1>3. IndInv /\ OldEnough /\ [Next]_vars
        => [Removed /\ SteadyScrapes /\ BufferCovers /\ ~Stalled(sinceLast)
              => entity.age >= MinGrace]_vars
    BY OnlyCleanupRemoves, SteadyRemoval
<1>4. QED
    BY <1>1, <1>2, <1>3, PTL DEF Spec, SteadyGrace

\* The ring buffer's index stays inside it and every variable keeps its type.
THEOREM TypeCorrect == Spec => []TypeOK
<1>1. Init => IndInv
    BY InitInv
<1>2. IndInv /\ [Next]_vars => IndInv'
    BY StepInv
<1>3. IndInv => TypeOK
    BY DEF IndInv
<1>4. QED
    BY <1>1, <1>2, <1>3, PTL DEF Spec
=============================================================================
