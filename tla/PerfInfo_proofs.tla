--------------------------- MODULE PerfInfo_proofs ---------------------------
(***************************************************************************)
(* What module PerfInfo promises of DPCs, ISRs and drivers, for any CPUs,  *)
(* scrapers, buffers, drivers and workloads.                               *)
(***************************************************************************)
EXTENDS PerfInfo, FiniteSetTheorems, TLAPS

USE PerfInfoAssumption

-----------------------------------------------------------------------------
(* The invariant.                                                          *)

DpcNumbers == 1 .. MaxDpcs
AnyDriver == Drivers \union {None}
Count == [queued : SUBSET Nat, executed : [DpcNumbers -> Nat],
          latency : SUBSET (Nat \X DpcNumbers),
          durations : SUBSET (Drivers \X DpcNumbers)]
Contents == [pending : [CPUs -> DpcNumbers \union {0}], isrs : SUBSET Nat,
             counts : Count]
EventRec == [kind : {"isr", "dpc", "cswitch"}, cpu : CPUs, id : Nat,
             ends : DpcNumbers \union {0}, driver : AnyDriver]

Shapes ==
    /\ isrs \in Seq(CPUs)
    /\ dpcs \in Seq([cpu : CPUs, seen : Nat, driver : AnyDriver])
    /\ Len(dpcs) <= MaxDpcs
    /\ buffers \in [Buffers -> Contents] /\ totals \in Count
    /\ place \in [Buffers -> {"out", "pool", "none"}] /\ active \in Buffers
    /\ old \in [Scrapers -> Buffers \union {None}]
    /\ merged \subseteq Scrapers /\ cleaning \subseteq Scrapers
    /\ event # None => event \in EventRec /\ loaded \in Buffers
    /\ bound \in Workloads

\* Each buffer is active, with one scraper, in the pool or not there; one that
\* is not there is as good as new, and the callback does not work on it.
Places ==
    /\ \A b \in Buffers :
          (place[b] = "out") <=> (b = active \/ \E s \in Scrapers : old[s] = b)
    /\ \A s \in Scrapers : old[s] # active
    /\ \A s, r \in Scrapers : old[s] # None /\ old[s] = old[r] => s = r
    /\ \A s \in merged : old[s] # None
    /\ \A s \in cleaning : old[s] = None
    /\ \A b \in Buffers : place[b] = "none" =>
          buffers[b] = newMetricsBuffer /\ loaded # b

\* A DPC is pending on its own CPU and in one buffer only; the one that is being
\* ended still is where the callback found it, or nowhere; the one being
\* handled is nowhere yet.
Pending ==
    /\ \A b \in Buffers, c \in CPUs : buffers[b].pending[c] # 0 =>
          buffers[b].pending[c] \in Dpcs /\ dpcs[buffers[b].pending[c]].cpu = c
    /\ \A a, b \in Buffers, c \in CPUs :
          buffers[a].pending[c] # 0 /\ buffers[a].pending[c] = buffers[b].pending[c]
              => a = b
    /\ event # None /\ event.ends # 0 =>
          /\ event.kind # "isr"
          /\ event.ends \in Dpcs /\ dpcs[event.ends].cpu = event.cpu
          /\ \A b \in Buffers, c \in CPUs : buffers[b].pending[c] = event.ends =>
                b = loaded /\ c = event.cpu
          /\ buffers[loaded].pending[event.cpu] \in {0, event.ends}
    /\ event # None /\ event.kind = "dpc" =>
          /\ event.id \in Dpcs /\ dpcs[event.id].cpu = event.cpu
          /\ event.id # event.ends
          /\ \A b \in Buffers, c \in CPUs : buffers[b].pending[c] # event.id

\* A DPC that has been counted is in the totals or in one buffer; one that is
\* pending or has just come has not been counted.
Executed(d) == totals.executed[d] > 0
            \/ \E b \in Uncounted : buffers[b].counts.executed[d] > 0
IsPending(d) == \E b \in Buffers, c \in CPUs :
                    buffers[b].pending[c] = d /\ ~(event # None /\ event.ends = d)
Counting ==
    \A d \in DpcNumbers :
        /\ totals.executed[d] <= 1
        /\ \A b \in Uncounted : totals.executed[d] + buffers[b].counts.executed[d] <= 1
        /\ \A a, b \in Uncounted : buffers[a].counts.executed[d] > 0 =>
              a = b \/ buffers[b].counts.executed[d] = 0
        /\ Executed(d) => d \in Dpcs /\ ~IsPending(d) /\ ~Handling("dpc", d)

IndInv == Shapes /\ Places /\ Pending /\ Counting

-----------------------------------------------------------------------------
(* Lemmas about the operators.                                             *)

\* An empty buffer.
LEMMA NewBuffer ==
    /\ newMetricsBuffer \in Contents
    /\ \A c \in CPUs : newMetricsBuffer.pending[c] = 0
    /\ newMetricsBuffer.isrs = {}
    /\ newMetricsBuffer.counts = NoCounts
    /\ NoCounts \in Count
    /\ \A d \in DpcNumbers : NoCounts.executed[d] = 0
    /\ NoCounts.latency = {} /\ NoCounts.durations = {}
BY DEF newMetricsBuffer, NoCounts, Contents, Count, DpcNumbers

\* The numbers of the DPCs and of the ISRs so far.
LEMMA DpcRange ==
    ASSUME Shapes
    PROVE  /\ Dpcs = 1 .. Len(dpcs) /\ Isrs = 1 .. Len(isrs)
           /\ Dpcs \subseteq DpcNumbers
           /\ Len(dpcs) \in Nat /\ Len(isrs) \in Nat
BY DEF Shapes, Dpcs, Isrs, DpcNumbers

\* An event in hand is one, and a DPC is a record.
LEMMA EventsAreRecords ==
    /\ EventRec \subseteq Events /\ None \notin EventRec
    /\ Shapes => \A d \in Dpcs :
            dpcs[d] \in [cpu : CPUs, seen : Nat, driver : AnyDriver]
<1>1. EventRec \subseteq Events
    BY DEF EventRec, Events, DpcNumbers, AnyDriver
<1>2. ASSUME Shapes, NEW d \in Dpcs
      PROVE  dpcs[d] \in [cpu : CPUs, seen : Nat, driver : AnyDriver]
    <2> DEFINE R == [cpu : CPUs, seen : Nat, driver : AnyDriver]
    <2>1. dpcs \in Seq(R) /\ d \in 1 .. Len(dpcs)
        BY <1>2, DpcRange DEF Shapes
    <2> HIDE DEF R
    <2>2. dpcs[d] \in R
        BY <2>1
    <2>3. QED
        BY <2>2 DEF R
<1>3. QED
    BY <1>1, <1>2

\* The active buffer, and those that scrapers have yet to merge, are uncounted.
LEMMA ToBeCounted ==
    ASSUME Shapes, Places
    PROVE  /\ active \in Uncounted
           /\ \A s \in Scrapers : old[s] # None /\ s \notin merged =>
                old[s] \in Uncounted
BY DEF Shapes, Places, Uncounted

\* What a buffer holds.
LEMMA BufferFields ==
    ASSUME Shapes, NEW b \in Buffers
    PROVE  /\ buffers[b] \in Contents /\ buffers[b].counts \in Count
           /\ buffers[b].pending \in [CPUs -> DpcNumbers \union {0}]
           /\ buffers[b].isrs \subseteq Nat
           /\ buffers[b].counts.executed \in [DpcNumbers -> Nat]
BY DEF Shapes, Contents, Count

\* What handling an event makes of the buffer: an ISR waits; a DPC that ends is
\* recorded for its driver and matched with one ISR or none, and is pending no
\* more, in whose place the DPC of the event is.
Waits(b, a) ==
    /\ a.pending = b.pending
    /\ a.counts = [b.counts EXCEPT !.queued = @ \union {event.id}]
    /\ a.isrs \subseteq b.isrs \union {event.id}
Recorded(b, a) ==
    a.counts.durations = IF event.ends = 0 \/ event.driver = None
                         THEN b.counts.durations
                         ELSE b.counts.durations \union
                                    {<<event.driver, event.ends>>}
Matched(b, a) ==
    \/ a.counts.latency = b.counts.latency /\ a.isrs = b.isrs
    \/ \E i \in b.isrs :
          /\ event.ends # 0
          /\ a.counts.latency = b.counts.latency \union {<<i, event.ends>>}
          /\ a.isrs = b.isrs \ {i}
Ends(b, a) ==
    /\ a.pending = [b.pending EXCEPT ![event.cpu] =
                        IF event.kind = "dpc" THEN event.id ELSE 0]
    /\ a.counts.executed = b.counts.executed
    /\ a.counts.queued = b.counts.queued
    /\ Recorded(b, a) /\ Matched(b, a)

\* A match is of an ISR that was waiting.
LEMMA Correlated ==
    ASSUME NEW b \in Contents, NEW d \in DpcNumbers
    PROVE  /\ correlateISR(b, d) \in Contents
           /\ correlateISR(b, d).pending = b.pending
           /\ correlateISR(b, d).counts.executed = b.counts.executed
           /\ correlateISR(b, d).counts.queued = b.counts.queued
           /\ correlateISR(b, d).counts.durations = b.counts.durations
           /\ \/ /\ correlateISR(b, d).counts.latency = b.counts.latency
                 /\ correlateISR(b, d).isrs = b.isrs
              \/ \E i \in b.isrs :
                    /\ correlateISR(b, d).counts.latency =
                            b.counts.latency \union {<<i, d>>}
                    /\ correlateISR(b, d).isrs = b.isrs \ {i}
<1>1. CASE Closest(b, d) = {}
    BY <1>1 DEF correlateISR
<1>2. CASE Closest(b, d) # {}
    <2> DEFINE i == CHOOSE i \in Closest(b, d) : TRUE
    <2>1. i \in b.isrs
        BY <1>2 DEF Closest, Candidates
    <2>2. correlateISR(b, d) =
            [b EXCEPT !.counts.latency = @ \union {<<i, d>>},
                      !.isrs = @ \ {i}]
        BY <1>2 DEF correlateISR, Unmatched
    <2> HIDE DEF i
    <2>3. i \in Nat
        BY <2>1 DEF Contents
    <2> DEFINE n == [b.counts EXCEPT !.latency = @ \union {<<i, d>>}]
    <2>4. b.counts \in Count /\ n \in Count
        BY <2>3 DEF Contents, Count
    <2>5. correlateISR(b, d) = [b EXCEPT !.counts = n, !.isrs = @ \ {i}]
        BY <2>2
    <2>6. /\ correlateISR(b, d) \in Contents
          /\ correlateISR(b, d).pending = b.pending
          /\ correlateISR(b, d).counts = n
          /\ correlateISR(b, d).isrs = b.isrs \ {i}
        BY <2>4, <2>5 DEF Contents
    <2>7. /\ n.executed = b.counts.executed /\ n.queued = b.counts.queued
          /\ n.durations = b.counts.durations
          /\ n.latency = b.counts.latency \union {<<i, d>>}
        BY <2>4 DEF Count
    <2> HIDE DEF n
    <2>8. QED
        BY <2>1, <2>6, <2>7
<1>3. QED
    BY <1>1, <1>2

\* What clearPendingDPC makes of a buffer.
LEMMA ClearedDPC ==
    ASSUME Shapes, event # None, event.kind # "isr", NEW b \in Contents,
           event.ends = 0 => b.pending[event.cpu] = 0
    PROVE  LET a == clearPendingDPC(b)
           IN  /\ a \in Contents
               /\ a.pending = [b.pending EXCEPT ![event.cpu] = 0]
               /\ a.counts.executed = b.counts.executed
               /\ a.counts.queued = b.counts.queued
               /\ Recorded(b, a) /\ Matched(b, a)
<1>1. event \in EventRec /\ event.cpu \in CPUs
    BY DEF Shapes, EventRec
<1>2. CASE event.ends = 0
    <2>1. clearPendingDPC(b) = b
        BY <1>2 DEF clearPendingDPC
    <2>2. b.pending = [b.pending EXCEPT ![event.cpu] = 0]
        BY <1>1, <1>2 DEF Contents
    <2>3. QED
        BY <2>1, <2>2, <1>2 DEF Recorded, Matched
<1>3. CASE event.ends # 0
    <2> DEFINE d == event.ends
               n == [b.counts EXCEPT !.durations = @ \union
                                                {<<event.driver, d>>}]
               rec == IF event.driver = None THEN b ELSE [b EXCEPT !.counts = n]
    <2>1. d \in DpcNumbers /\ event.driver \in AnyDriver
        BY <1>1, <1>3 DEF EventRec
    <2>2. clearPendingDPC(b) =
            [correlateISR(rec, d) EXCEPT !.pending[event.cpu] = 0]
        BY <1>3 DEF clearPendingDPC, Cleared
    <2>3. b.counts \in Count
        BY DEF Contents
    <2>4. event.driver # None => n \in Count
        BY <2>1, <2>3 DEF Count, AnyDriver
    <2>5. /\ rec \in Contents
          /\ rec.pending = b.pending /\ rec.isrs = b.isrs
          /\ rec.counts.executed = b.counts.executed
          /\ rec.counts.queued = b.counts.queued
          /\ rec.counts.latency = b.counts.latency
          /\ Recorded(b, rec)
        BY <1>3, <2>1, <2>3, <2>4 DEF Contents, Count, Recorded
    <2> HIDE DEF rec, d, n
    <2> DEFINE m == correlateISR(rec, d)
    <2>6. /\ m \in Contents
          /\ m.pending = rec.pending
          /\ m.counts.executed = rec.counts.executed
          /\ m.counts.queued = rec.counts.queued
          /\ m.counts.durations = rec.counts.durations
          /\ \/ m.counts.latency = rec.counts.latency /\ m.isrs = rec.isrs
             \/ \E i \in rec.isrs :
                    /\ m.counts.latency = rec.counts.latency \union {<<i, d>>}
                    /\ m.isrs = rec.isrs \ {i}
        BY Correlated, <2>1, <2>5
    <2> HIDE DEF m
    <2>7. clearPendingDPC(b) = [m EXCEPT !.pending[event.cpu] = 0]
        BY <2>2 DEF m
    <2>8. LET a == clearPendingDPC(b)
          IN  /\ a \in Contents
              /\ a.pending = [m.pending EXCEPT ![event.cpu] = 0]
              /\ a.counts = m.counts /\ a.isrs = m.isrs
        BY <2>6, <2>7, <1>1 DEF Contents
    <2>9. d = event.ends
        BY DEF d
    <2> QED
        BY <2>5, <2>6, <2>8, <2>9, <1>3 DEF Recorded, Matched
<1>4. QED
    BY <1>2, <1>3

\* What Handle does.
LEMMA Handled ==
    ASSUME Shapes, Pending, Handle
    PROVE  /\ event # None /\ event \in EventRec /\ loaded \in Buffers
           /\ event' = None /\ loaded' = None
           /\ UNCHANGED <<isrs, dpcs, scraping, imageTable>>
           /\ \E a \in Contents :
                /\ buffers' = [buffers EXCEPT ![loaded] = a]
                /\ event.kind = "isr" => Waits(buffers[loaded], a)
                /\ event.kind # "isr" => Ends(buffers[loaded], a)
<1>1. /\ event # None /\ event \in EventRec /\ loaded \in Buffers
      /\ event' = None /\ loaded' = None
      /\ UNCHANGED <<isrs, dpcs, scraping, imageTable>>
    BY DEF Handle, Shapes
<1> DEFINE b == buffers[loaded]
<1>2. b \in Contents /\ b.counts \in Count
    BY <1>1, BufferFields
<1>3. CASE event.kind = "isr"
    <2>1. PICK a \in ProcessISREvent(b, event.id) :
                buffers' = [buffers EXCEPT ![loaded] = a]
        BY <1>3 DEF Handle
    <2> DEFINE n == [b.counts EXCEPT !.queued = @ \union {event.id}]
               added == [b EXCEPT !.counts = n, !.isrs = @ \union {event.id}]
    <2>2. event.id \in Nat
        BY <1>1 DEF EventRec
    <2>3. n \in Count
        BY <1>2, <2>2 DEF Count
    <2>4. /\ added \in Contents /\ added.counts = n /\ added.pending = b.pending
          /\ added.isrs = b.isrs \union {event.id}
        BY <1>2, <2>2, <2>3 DEF Contents
    <2>5. \/ a = added
          \/ \E first \in 1 .. event.id :
                a = [added EXCEPT !.isrs = {j \in @ : j >= first}]
        BY <2>1 DEF ProcessISREvent
    <2> HIDE DEF added, b
    <2>6. /\ a \in Contents /\ a.counts = n /\ a.pending = b.pending
          /\ a.isrs \subseteq b.isrs \union {event.id}
        BY <2>4, <2>5 DEF Contents
    <2>7. QED
        BY <1>1, <1>3, <2>1, <2>6 DEF Waits, b
<1>4. CASE event.kind # "isr"
    <2> DEFINE c == clearPendingDPC(b)
    <2>1. event.ends = 0 => b.pending[event.cpu] = 0
        BY <1>4 DEF Handle, Ended
    <2>2. /\ c \in Contents
          /\ c.pending = [b.pending EXCEPT ![event.cpu] = 0]
          /\ c.counts.executed = b.counts.executed
          /\ c.counts.queued = b.counts.queued
          /\ Recorded(b, c) /\ Matched(b, c)
        BY <1>1, <1>2, <1>4, <2>1, ClearedDPC
    <2> HIDE DEF c
    <2> DEFINE a == IF event.kind = "dpc"
                    THEN [c EXCEPT !.pending[event.cpu] = event.id] ELSE c
    <2>3. buffers' = [buffers EXCEPT ![loaded] = a]
        <3>1. CASE event.kind = "dpc"
            BY <3>1 DEF Handle, ProcessDPCEvent, c
        <3>2. CASE event.kind = "cswitch"
            BY <3>2 DEF Handle, ProcessCSwitchEvent, c
        <3>3. QED
            BY <1>1, <1>4, <3>1, <3>2 DEF EventRec
    <2>4. event.cpu \in CPUs
        BY <1>1 DEF EventRec
    <2>5. /\ a.pending = [b.pending EXCEPT ![event.cpu] =
                            IF event.kind = "dpc" THEN event.id ELSE 0]
          /\ a.counts = c.counts /\ a.isrs = c.isrs
        BY <1>2, <2>2, <2>4 DEF Contents
    <2>6. Ends(b, a)
        BY <2>2, <2>5 DEF Ends, Recorded, Matched
    <2>7. event.kind = "dpc" => event.id \in DpcNumbers
        BY <1>1, DpcRange DEF Pending
    <2>8. a \in Contents
        BY <2>2, <2>4, <2>7 DEF Contents
    <2>9. QED
        BY <1>1, <1>4, <2>3, <2>6, <2>8
<1>5. QED
    BY <1>3, <1>4

-----------------------------------------------------------------------------
(* The callback.                                                           *)

\* Nothing has happened.
LEMMA InitInv == ASSUME Init PROVE IndInv
<1>1. /\ \A b \in Buffers : buffers[b] = newMetricsBuffer
      /\ totals = NoCounts /\ event = None /\ loaded = None
      /\ active \in Buffers
      /\ place = [b \in Buffers |-> IF b = active THEN "out" ELSE "none"]
      /\ old = [s \in Scrapers |-> None] /\ merged = {} /\ cleaning = {}
    BY DEF Init
<1>2. Shapes
    <2>1. isrs \in Seq(CPUs) /\ dpcs = <<>> /\ bound \in Workloads
        BY DEF Init
    <2>2. buffers \in [Buffers -> Contents] /\ totals \in Count
        BY <1>1, NewBuffer DEF Init
    <2>3. Len(dpcs) <= MaxDpcs /\ dpcs \in Seq([cpu : CPUs, seen : Nat, driver : AnyDriver])
        BY <2>1
    <2>4. QED
        BY <1>1, <2>1, <2>2, <2>3 DEF Shapes
<1>3. Places
    BY <1>1, NewBuffer DEF Places
<1>4. Pending
    BY <1>1, NewBuffer DEF Pending
<1>5. Counting
    BY <1>1, NewBuffer DEF Counting, Executed, Uncounted
<1>6. QED
    BY <1>2, <1>3, <1>4, <1>5 DEF IndInv

\* An event is loaded: a new one, and nothing else changes.
LEMMA LoadInv ==
    ASSUME IndInv, event = None, NEW e \in EventRec, event' = e,
           loaded' = active, e.ends = 0, e.driver = None,
           isrs' \in Seq(CPUs),
           dpcs' \in Seq([cpu : CPUs, seen : Nat, driver : AnyDriver]),
           Len(dpcs') <= MaxDpcs, Dpcs \subseteq Dpcs',
           \A d \in Dpcs : dpcs'[d] = dpcs[d],
           e.kind = "dpc" => e.id \in Dpcs' /\ e.id \notin Dpcs /\ e.id # 0
                             /\ dpcs'[e.id].cpu = e.cpu,
           UNCHANGED <<buffers, scraping, imageTable>>
    PROVE  IndInv'
<1>1. UNCHANGED <<buffers, totals, place, active, old, merged, cleaning, bound>>
    BY DEF scraping, imageTable
<1>2. Shapes'
    BY <1>1 DEF IndInv, Shapes
<1>3. Places'
    <2>1. place[active] = "out"
        BY DEF IndInv, Shapes, Places
    <2>2. QED
        BY <1>1, <2>1 DEF IndInv, Places
<1>4. Pending'
    BY <1>1 DEF IndInv, Pending
<1>5. Uncounted' = Uncounted
    BY <1>1 DEF Uncounted
<1>6. Counting'
    <2>1. \A d \in DpcNumbers : Executed(d)' = Executed(d)
        BY <1>1, <1>5 DEF Executed
    <2>2. \A d \in DpcNumbers : IsPending(d)' => IsPending(d)
        BY <1>1 DEF IsPending
    <2>3. \A d \in Dpcs : ~Handling("dpc", d)'
        BY DEF Handling
    <2>4. QED
        BY <1>1, <1>5, <2>1, <2>2, <2>3 DEF IndInv, Counting
<1>7. QED
    BY <1>2, <1>3, <1>4, <1>6 DEF IndInv

\* An ISR, a DPC and a context switch.
LEMMA EventInv ==
    ASSUME IndInv, NEW c \in CPUs, ISREvent(c) \/ DPCEvent(c) \/ CSwitchEvent(c)
    PROVE  IndInv'
<1>1. Shapes /\ Len(isrs) \in Nat /\ Len(dpcs) \in Nat
    BY DpcRange DEF IndInv
<1>2. CASE ISREvent(c)
    <2> DEFINE e == Event("isr", c, Len(isrs) + 1)
    <2>1. e \in EventRec /\ e.ends = 0 /\ e.driver = None /\ e.kind = "isr"
        BY <1>1 DEF Event, EventRec, AnyDriver
    <2>2. /\ event = None /\ event' = e /\ loaded' = active
          /\ isrs' = Append(isrs, c) /\ dpcs' = dpcs
          /\ UNCHANGED <<buffers, scraping, imageTable>>
        BY <1>2 DEF ISREvent, Load
    <2>3. isrs' \in Seq(CPUs)
        BY <1>1, <2>2 DEF Shapes
    <2> HIDE DEF e
    <2>4. QED
        BY <1>1, <2>1, <2>2, <2>3, LoadInv DEF Shapes, Dpcs
<1>3. CASE DPCEvent(c)
    <2> DEFINE e == Event("dpc", c, Len(dpcs) + 1)
    <2>1. PICK seen \in 0 .. Len(isrs), r \in bound.drivers :
                dpcs' = Append(dpcs, [cpu |-> c, seen |-> seen, driver |-> r])
        BY <1>3 DEF DPCEvent
    <2>2. /\ event = None /\ event' = e /\ loaded' = active
          /\ isrs' = isrs /\ Len(dpcs) < bound.dpcs
          /\ UNCHANGED <<buffers, scraping, imageTable>>
        BY <1>3 DEF DPCEvent, Load
    <2>3. bound.dpcs \in 0 .. MaxDpcs /\ r \in AnyDriver
        BY <1>1 DEF Shapes, AnyDriver
    <2>4. e \in EventRec /\ e.ends = 0 /\ e.driver = None /\ e.kind = "dpc"
          /\ e.id = Len(dpcs) + 1 /\ e.cpu = c
        BY <1>1 DEF Event, EventRec, AnyDriver
    <2> DEFINE x == [cpu |-> c, seen |-> seen, driver |-> r]
    <2>5. x \in [cpu : CPUs, seen : Nat, driver : AnyDriver] /\ x.cpu = c
        BY <2>3, <1>1
    <2> HIDE DEF x
    <2>6. /\ dpcs' \in Seq([cpu : CPUs, seen : Nat, driver : AnyDriver])
          /\ Len(dpcs') = Len(dpcs) + 1
          /\ \A d \in 1 .. Len(dpcs) : dpcs'[d] = dpcs[d]
          /\ dpcs'[Len(dpcs) + 1] = x
          /\ Dpcs = 1 .. Len(dpcs) /\ Dpcs' = 1 .. Len(dpcs) + 1
        <3>1. dpcs' = Append(dpcs, x)
            BY <2>1 DEF x
        <3>2. dpcs \in Seq([cpu : CPUs, seen : Nat, driver : AnyDriver])
            BY <1>1 DEF Shapes
        <3>3. QED
            BY <3>1, <3>2, <2>5 DEF Dpcs
    <2>7. Len(dpcs') <= MaxDpcs
        BY <1>1, <2>2, <2>3, <2>6
    <2> HIDE DEF e
    <2>8. /\ Dpcs \subseteq Dpcs' /\ \A d \in Dpcs : dpcs'[d] = dpcs[d]
          /\ e.id \in Dpcs' /\ e.id \notin Dpcs /\ e.id # 0
          /\ dpcs'[e.id].cpu = e.cpu
        BY <1>1, <2>4, <2>5, <2>6
    <2>9. isrs' \in Seq(CPUs)
        BY <1>1, <2>2 DEF Shapes
    <2>10. QED
        BY <2>2, <2>4, <2>6, <2>7, <2>8, <2>9, LoadInv
<1>4. CASE CSwitchEvent(c)
    <2> DEFINE e == Event("cswitch", c, 0)
    <2>1. e \in EventRec /\ e.ends = 0 /\ e.driver = None /\ e.kind = "cswitch"
        BY DEF Event, EventRec, AnyDriver
    <2>2. /\ event = None /\ event' = e /\ loaded' = active
          /\ isrs' = isrs /\ dpcs' = dpcs
          /\ UNCHANGED <<buffers, scraping, imageTable>>
        BY <1>4 DEF CSwitchEvent, Load
    <2> HIDE DEF e
    <2>3. QED
        BY <1>1, <2>1, <2>2, LoadInv DEF Shapes, Dpcs
<1>5. QED
    BY <1>2, <1>3, <1>4

\* The pending DPC is counted: it had not been, and is nowhere else.
LEMMA CountPendingInv ==
    ASSUME IndInv, CountPendingDPC
    PROVE  IndInv'
<1> DEFINE b == buffers[loaded]
<1>1. /\ event \in EventRec /\ loaded \in Buffers /\ event # None
      /\ event.kind # "isr" /\ event.ends = 0 /\ event.cpu \in CPUs
    BY DEF CountPendingDPC, IndInv, Shapes, EventRec
<1>2. PICK d \in DpcNumbers :
            /\ d = buffers[loaded].pending[event.cpu]
            /\ d \in Dpcs /\ d # 0 /\ dpcs[d].cpu = event.cpu
    BY <1>1, DpcRange DEF CountPendingDPC, Ended, IndInv, Pending
<1>3. /\ buffers' = [buffers EXCEPT ![loaded].counts.executed[d] = @ + 1]
      /\ event' = [event EXCEPT !.ends = d,
                        !.driver = resolveDriverName(dpcs[d].driver)]
      /\ UNCHANGED <<isrs, dpcs, loaded, scraping, imageTable>>
    BY <1>2 DEF CountPendingDPC, Ended
<1>4. UNCHANGED <<totals, place, active, old, merged, cleaning, bound>>
    BY <1>3 DEF scraping, imageTable
<1>5. b \in Contents /\ b.counts \in Count
      /\ b.counts.executed \in [DpcNumbers -> Nat]
    BY <1>1, BufferFields DEF IndInv
<1> DEFINE n == [b.counts EXCEPT !.executed[d] = @ + 1]
           a == [b EXCEPT !.counts = n]
<1>6. n \in Count /\ n.executed = [b.counts.executed EXCEPT ![d] = @ + 1]
    <2> DEFINE e == [b.counts.executed EXCEPT ![d] = @ + 1]
    <2>1. e \in [DpcNumbers -> Nat]
        BY <1>2, <1>5
    <2>2. n = [b.counts EXCEPT !.executed = e]
        BY <1>5 DEF Count
    <2> HIDE DEF n, e
    <2>3. n \in Count /\ n.executed = e
        BY <1>5, <2>1, <2>2 DEF Count
    <2>4. QED
        BY <2>3 DEF e
<1>7. a \in Contents /\ a.pending = b.pending /\ a.counts = n /\ a.isrs = b.isrs
    BY <1>5, <1>6 DEF Contents
<1>8. buffers' = [buffers EXCEPT ![loaded] = a]
    BY <1>3
<1>9. dpcs[d].driver \in AnyDriver
    <2>1. dpcs[d] \in [cpu : CPUs, seen : Nat, driver : AnyDriver]
        BY <1>2, EventsAreRecords DEF IndInv
    <2>2. QED
        BY <2>1
<1>10. event' \in EventRec /\ event'.ends = d /\ event'.kind = event.kind
       /\ event'.cpu = event.cpu /\ event'.id = event.id
    BY <1>1, <1>2, <1>3, <1>9 DEF EventRec, resolveDriverName, AnyDriver
<1> HIDE DEF n, a, b
<1>11. /\ buffers' \in [Buffers -> Contents]
       /\ \A x \in Buffers : x # loaded => buffers'[x] = buffers[x]
       /\ buffers'[loaded] = a
       /\ \A x \in Buffers : buffers'[x].pending = buffers[x].pending
    BY <1>1, <1>7, <1>8 DEF IndInv, Shapes, b
<1>12. Shapes'
    BY <1>3, <1>4, <1>10, <1>11, <1>1 DEF IndInv, Shapes
<1>13. Places'
    <2>1. place[loaded] # "none"
        BY <1>1 DEF IndInv, Places, Shapes
    <2>2. QED
        BY <2>1, <1>3, <1>4, <1>11 DEF IndInv, Places
<1>14. Pending'
    <2>1. \A x \in Buffers, c \in CPUs :
            buffers[x].pending[c] = d => x = loaded /\ c = event.cpu
        <3>1. \A x \in Buffers, c \in CPUs :
                buffers[x].pending[c] = d => c = event.cpu
            BY <1>1, <1>2 DEF IndInv, Pending
        <3>2. \A x \in Buffers :
                buffers[x].pending[event.cpu] = d => x = loaded
            BY <1>1, <1>2 DEF IndInv, Pending
        <3>3. QED
            BY <3>1, <3>2
    <2>2. event.kind = "dpc" => event.id # d
        BY <1>1, <1>2 DEF IndInv, Pending
    <2>3. buffers[loaded].pending[event.cpu] = d
        BY <1>2
    <2>4. /\ \A x \in Buffers, c \in CPUs : buffers[x].pending[c] # 0 =>
                buffers[x].pending[c] \in Dpcs
                /\ dpcs[buffers[x].pending[c]].cpu = c
          /\ \A x, y \in Buffers, c \in CPUs :
                buffers[x].pending[c] # 0
                /\ buffers[x].pending[c] = buffers[y].pending[c] => x = y
          /\ event.kind = "dpc" =>
                /\ event.id \in Dpcs /\ dpcs[event.id].cpu = event.cpu
                /\ \A x \in Buffers, c \in CPUs : buffers[x].pending[c] # event.id
        BY <1>1 DEF IndInv, Pending
    <2>5. dpcs' = dpcs /\ Dpcs' = Dpcs /\ loaded' = loaded
        BY <1>3 DEF Dpcs
    <2>6. QED
        <3> DEFINE pends(x, c) == buffers'[x].pending[c]
        <3>1. \A x \in Buffers, c \in CPUs : pends(x, c) = buffers[x].pending[c]
            BY <1>11
        <3>2. /\ \A x \in Buffers, c \in CPUs : pends(x, c) # 0 =>
                    pends(x, c) \in Dpcs /\ dpcs[pends(x, c)].cpu = c
              /\ \A x, y \in Buffers, c \in CPUs :
                    pends(x, c) # 0 /\ pends(x, c) = pends(y, c) => x = y
            BY <2>4, <3>1
        <3>3. /\ event'.kind # "isr" /\ event'.ends = d /\ d \in Dpcs
              /\ dpcs[d].cpu = event'.cpu /\ event'.cpu = event.cpu
              /\ \A x \in Buffers, c \in CPUs : pends(x, c) = d =>
                    x = loaded /\ c = event.cpu
              /\ pends(loaded, event.cpu) = d
            BY <1>1, <1>2, <1>10, <2>1, <2>3, <3>1
        <3>4. event'.kind = "dpc" =>
                /\ event'.id \in Dpcs /\ dpcs[event'.id].cpu = event'.cpu
                /\ event'.id # event'.ends
                /\ \A x \in Buffers, c \in CPUs : pends(x, c) # event'.id
            BY <1>10, <2>2, <2>4, <3>1
        <3>5. QED
            BY <2>5, <3>2, <3>3, <3>4 DEF Pending
<1>15. Counting'
    <2>1. Uncounted' = Uncounted
        BY <1>4 DEF Uncounted
    <2>2. ~Executed(d)
        <3>1. IsPending(d)
            BY <1>1, <1>2 DEF IsPending
        <3>2. QED
            BY <1>2, <3>1 DEF IndInv, Counting
    <2>3. totals.executed[d] = 0 /\ \A x \in Uncounted :
                buffers[x].counts.executed[d] = 0
        <3>1. totals.executed[d] \in Nat
            BY <1>2 DEF IndInv, Shapes, Count
        <3>2. \A x \in Uncounted : buffers[x].counts.executed[d] \in Nat
            BY <1>2, BufferFields DEF IndInv, Uncounted
        <3>3. QED
            BY <2>2, <3>1, <3>2 DEF Executed
    <2>4. \A x \in Uncounted : buffers'[x].counts.executed[d] =
                                    IF x = loaded THEN 1 ELSE 0
        <3>1. loaded \in Uncounted =>
                buffers'[loaded].counts.executed[d] = 1
            <4>1. loaded \in Uncounted => b.counts.executed[d] = 0
                BY <2>3 DEF b
            <4>2. n.executed[d] = b.counts.executed[d] + 1
                BY <1>2, <1>5, <1>6 DEF Count
            <4>3. buffers'[loaded].counts.executed[d] = n.executed[d]
                BY <1>7, <1>11
            <4>4. QED
                BY <4>1, <4>2, <4>3
        <3>2. ASSUME NEW x \in Uncounted, x # loaded
              PROVE  buffers'[x].counts.executed[d] = 0
            <4>1. x \in Buffers
                BY DEF Uncounted
            <4>2. buffers'[x] = buffers[x]
                BY <1>11, <3>2, <4>1
            <4>3. QED
                BY <2>3, <4>2
        <3>3. QED
            BY <3>1, <3>2
    <2>5. \A x \in Uncounted, e \in DpcNumbers : e # d =>
            buffers'[x].counts.executed[e] = buffers[x].counts.executed[e]
        <3>1. ASSUME NEW e \in DpcNumbers, e # d
              PROVE  buffers'[loaded].counts.executed[e] =
                        buffers[loaded].counts.executed[e]
            <4>1. n.executed[e] = b.counts.executed[e]
                BY <1>2, <1>5, <1>6, <3>1 DEF Count
            <4>2. buffers'[loaded].counts.executed[e] = n.executed[e]
                BY <1>7, <1>11
            <4>3. QED
                BY <4>1, <4>2 DEF b
        <3>2. ASSUME NEW x \in Uncounted, x # loaded
              PROVE  buffers'[x] = buffers[x]
            BY <1>11, <3>2 DEF Uncounted
        <3>3. QED
            BY <3>1, <3>2
    <2>6. \A e \in DpcNumbers : IsPending(e)' => IsPending(e) /\ e # d
        <3>1. event' # None
            BY <1>10, EventsAreRecords
        <3>2. \A e \in DpcNumbers : e # 0
            BY DEF DpcNumbers
        <3>3. ASSUME NEW e \in DpcNumbers, IsPending(e)'
              PROVE  IsPending(e) /\ e # d
            <4>1. PICK x \in Buffers, c \in CPUs :
                    buffers'[x].pending[c] = e /\ ~(event'.ends = e)
                BY <3>1, <3>3 DEF IsPending
            <4>2. buffers[x].pending[c] = e /\ e # d /\ event.ends # e
                BY <1>1, <1>10, <1>11, <3>2, <4>1
            <4>3. QED
                BY <4>2 DEF IsPending
        <3>4. QED
            BY <3>3
    <2>7. \A e \in DpcNumbers : Handling("dpc", e)' => Handling("dpc", e)
        BY <1>1, <1>10 DEF Handling
    <2>8. ~Handling("dpc", d)
        BY <1>1, <1>2 DEF IndInv, Pending, Handling
    <2>9. Dpcs' = Dpcs
        BY <1>3 DEF Dpcs
    <2>10. ASSUME NEW e \in DpcNumbers, e # d
           PROVE  /\ totals'.executed[e] <= 1
                  /\ \A x \in Uncounted' :
                        totals'.executed[e] + buffers'[x].counts.executed[e] <= 1
                  /\ \A x, y \in Uncounted' : buffers'[x].counts.executed[e] > 0 =>
                        x = y \/ buffers'[y].counts.executed[e] = 0
                  /\ Executed(e)' => e \in Dpcs' /\ ~IsPending(e)'
                                        /\ ~Handling("dpc", e)'
        <3>1. Executed(e)' = Executed(e)
            BY <1>4, <2>1, <2>5, <2>10 DEF Executed
        <3>2. QED
            BY <3>1, <1>4, <2>1, <2>5, <2>6, <2>7, <2>9, <2>10
            DEF IndInv, Counting
    <2>11. /\ totals'.executed[d] <= 1
           /\ \A x \in Uncounted' :
                totals'.executed[d] + buffers'[x].counts.executed[d] <= 1
           /\ \A x, y \in Uncounted' : buffers'[x].counts.executed[d] > 0 =>
                x = y \/ buffers'[y].counts.executed[d] = 0
           /\ Executed(d)' => d \in Dpcs' /\ ~IsPending(d)'
                                /\ ~Handling("dpc", d)'
        <3>1. d \in Dpcs' /\ ~IsPending(d)' /\ ~Handling("dpc", d)'
            BY <1>2, <2>6, <2>7, <2>8, <2>9
        <3>2. QED
            BY <3>1, <1>4, <2>1, <2>3, <2>4
    <2>12. QED
        <3> SUFFICES ASSUME NEW e \in DpcNumbers
              PROVE  /\ totals'.executed[e] <= 1
                     /\ \A x \in Uncounted' :
                        totals'.executed[e] + buffers'[x].counts.executed[e] <= 1
                     /\ \A x, y \in Uncounted' : buffers'[x].counts.executed[e] > 0 =>
                        x = y \/ buffers'[y].counts.executed[e] = 0
                     /\ Executed(e)' => e \in Dpcs' /\ ~IsPending(e)'
                                        /\ ~Handling("dpc", e)'
            BY DEF Counting
        <3>1. CASE e = d
            BY <2>11, <3>1
        <3>2. CASE e # d
            BY <2>10, <3>2
        <3>3. QED
            BY <3>1, <3>2
<1>16. QED
    BY <1>12, <1>13, <1>14, <1>15 DEF IndInv

\* The event is handled: what was pending is so no more, and what has come is.
LEMMA HandleInv ==
    ASSUME IndInv, Handle
    PROVE  IndInv'
<1>1. /\ event # None /\ event \in EventRec /\ loaded \in Buffers
      /\ event' = None /\ loaded' = None
      /\ UNCHANGED <<isrs, dpcs, scraping, imageTable>>
    BY Handled DEF IndInv
<1>2. PICK a \in Contents :
            /\ buffers' = [buffers EXCEPT ![loaded] = a]
            /\ event.kind = "isr" => Waits(buffers[loaded], a)
            /\ event.kind # "isr" => Ends(buffers[loaded], a)
    BY Handled DEF IndInv
<1>3. UNCHANGED <<totals, place, active, old, merged, cleaning, bound>>
    BY <1>1 DEF scraping, imageTable
<1>4. /\ buffers' \in [Buffers -> Contents]
      /\ \A x \in Buffers : x # loaded => buffers'[x] = buffers[x]
      /\ buffers'[loaded] = a
    BY <1>1, <1>2 DEF IndInv, Shapes
<1>5. \A x \in Buffers, d \in DpcNumbers :
        buffers'[x].counts.executed[d] = buffers[x].counts.executed[d]
    <2>1. a.counts.executed = buffers[loaded].counts.executed
        <3>1. buffers[loaded].counts \in Count
            BY <1>1, BufferFields DEF IndInv
        <3>2. QED
            BY <1>1, <1>2, <3>1 DEF Waits, Ends, Count
    <2>2. QED
        BY <2>1, <1>4
<1>6. event.cpu \in CPUs
    BY <1>1 DEF EventRec
<1>7. \A x \in Buffers, c \in CPUs :
        buffers'[x].pending[c] =
            IF event.kind # "isr" /\ x = loaded /\ c = event.cpu
            THEN (IF event.kind = "dpc" THEN event.id ELSE 0)
            ELSE buffers[x].pending[c]
    <2>1. buffers[loaded].pending \in [CPUs -> DpcNumbers \union {0}]
        BY <1>1, BufferFields DEF IndInv
    <2>2. QED
        BY <1>2, <1>4, <1>6, <2>1 DEF Waits, Ends
<1>8. Shapes'
    BY <1>1, <1>3, <1>4 DEF IndInv, Shapes
<1>9. Places'
    <2>1. place[loaded] # "none"
        BY <1>1 DEF IndInv, Places, Shapes
    <2>2. \A x \in Buffers : x # None
        OBVIOUS
    <2>3. QED
        BY <2>1, <2>2, <1>1, <1>3, <1>4 DEF IndInv, Places
<1>10. Dpcs' = Dpcs /\ dpcs' = dpcs
    BY <1>1 DEF Dpcs
<1>11. Pending'
    <2>1. \A x \in Buffers, c \in CPUs : buffers'[x].pending[c] # 0 =>
            /\ buffers'[x].pending[c] \in Dpcs
            /\ dpcs[buffers'[x].pending[c]].cpu = c
        BY <1>1, <1>6, <1>7 DEF IndInv, Pending
    <2>2. \A x, y \in Buffers, c \in CPUs :
            buffers'[x].pending[c] # 0
            /\ buffers'[x].pending[c] = buffers'[y].pending[c] => x = y
        BY <1>1, <1>6, <1>7 DEF IndInv, Pending
    <2>3. QED
        BY <1>1, <1>10, <2>1, <2>2 DEF Pending
<1>12. Counting'
    <2>1. Uncounted' = Uncounted /\ Uncounted \subseteq Buffers
        BY <1>3 DEF Uncounted
    <2>2. \A d \in DpcNumbers : Executed(d)' = Executed(d)
        BY <1>3, <1>5, <2>1 DEF Executed
    <2>3. ASSUME NEW d \in DpcNumbers, IsPending(d)'
          PROVE  IsPending(d) \/ Handling("dpc", d)
        <3>1. PICK x \in Buffers, c \in CPUs : buffers'[x].pending[c] = d
            BY <2>3 DEF IsPending
        <3>2. d # 0
            BY DEF DpcNumbers
        <3>3. CASE event.kind # "isr" /\ x = loaded /\ c = event.cpu
            BY <1>1, <1>7, <3>1, <3>2, <3>3 DEF Handling
        <3>4. CASE ~(event.kind # "isr" /\ x = loaded /\ c = event.cpu)
            <4>1. buffers[x].pending[c] = d
                BY <1>7, <3>1, <3>4
            <4>2. event.ends # d
                BY <1>1, <3>2, <3>4, <4>1 DEF IndInv, Pending
            <4>3. QED
                BY <4>1, <4>2 DEF IsPending
        <3>5. QED
            BY <3>3, <3>4
    <2>4. \A d \in DpcNumbers : ~Handling("dpc", d)'
        BY <1>1 DEF Handling
    <2>5. QED
        BY <1>3, <1>5, <1>10, <2>1, <2>2, <2>3, <2>4 DEF IndInv, Counting
<1>13. QED
    BY <1>8, <1>9, <1>11, <1>12 DEF IndInv

-----------------------------------------------------------------------------
(* The scrape.                                                             *)

\* A buffer is swapped in: it was in the pool and is uncounted already, or it
\* is a new one and counts nothing.
LEMMA SwapInv ==
    ASSUME IndInv, NEW s \in Scrapers, NEW b \in Buffers, Swap(s, b)
    PROVE  IndInv'
<1>1. /\ old[s] = None /\ s \notin cleaning /\ place[b] # "out" /\ b # active
      /\ s \notin merged
    BY DEF Swap, Scraping, IndInv, Places, Shapes
<1>2. /\ old' = [old EXCEPT ![s] = active] /\ active' = b
      /\ place' = [place EXCEPT ![b] = "out"]
      /\ UNCHANGED <<isrs, dpcs, event, loaded, buffers, merged, cleaning,
                     totals, bound>>
    BY DEF Swap, callback, imageTable
<1>3. Shapes'
    BY <1>2 DEF IndInv, Shapes
<1>4. Places'
    <2>1. \A r \in Scrapers : old'[r] = IF r = s THEN active ELSE old[r]
        BY <1>2 DEF IndInv, Shapes
    <2>2. \A x \in Buffers : place'[x] = IF x = b THEN "out" ELSE place[x]
        BY <1>2 DEF IndInv, Shapes
    <2>3. active \in Buffers /\ active # None
        BY DEF IndInv, Shapes
    <2>4. QED
        BY <1>1, <1>2, <2>1, <2>2, <2>3 DEF IndInv, Places
<1>5. Dpcs' = Dpcs /\ Pending'
    BY <1>2 DEF IndInv, Pending, Dpcs
<1>6. Counting'
    <2>1. \A x \in Uncounted' :
            \/ x \in Uncounted
            \/ x \in Buffers /\ buffers[x] = newMetricsBuffer
        <3>1. ASSUME NEW x \in Uncounted', x # b PROVE x \in Uncounted
            <4>1. x \in Buffers /\ place[x] # "none"
                BY <1>2, <3>1 DEF Uncounted, IndInv, Shapes
            <4>2. \A r \in merged : old[r] # x
                BY <1>1, <1>2, <3>1 DEF Uncounted, IndInv, Shapes
            <4>3. QED
                BY <4>1, <4>2 DEF Uncounted
        <3>2. CASE place[b] = "none"
            BY <3>1, <3>2 DEF IndInv, Places
        <3>3. CASE place[b] # "none"
            <4>1. \A r \in merged : old[r] # b
                BY <1>1 DEF IndInv, Shapes, Places
            <4>2. b \in Uncounted
                BY <3>3, <4>1 DEF Uncounted
            <4>3. QED
                BY <3>1, <4>2
        <3>4. QED
            BY <3>2, <3>3
    <2>2. \A x \in Uncounted', d \in DpcNumbers :
            x \in Uncounted \/ buffers[x].counts.executed[d] = 0
        BY <2>1, NewBuffer
    <2>3. \A d \in DpcNumbers :
            /\ Executed(d)' => Executed(d)
            /\ IsPending(d)' = IsPending(d)
            /\ Handling("dpc", d)' = Handling("dpc", d)
        BY <1>2, <2>2 DEF Executed, IsPending, Handling
    <2>4. \A d \in DpcNumbers : totals.executed[d] \in Nat
        BY DEF IndInv, Shapes, Count
    <2>5. QED
        BY <1>2, <1>5, <2>2, <2>3, <2>4 DEF IndInv, Counting
<1>7. QED
    BY <1>3, <1>4, <1>5, <1>6 DEF IndInv

\* The counts move from the old buffer to the totals.
LEMMA MergeInv ==
    ASSUME IndInv, NEW s \in Scrapers, Merge(s)
    PROVE  IndInv'
<1>1. /\ old[s] # None /\ old[s] \in Buffers /\ s \notin merged
      /\ old[s] \in Uncounted
    BY ToBeCounted DEF Merge, IndInv, Shapes
<1> DEFINE o == old[s]
           c == buffers[o].counts
           sum == [d \in DpcNumbers |-> totals.executed[d] + c.executed[d]]
<1>2. /\ totals' = [queued |-> totals.queued \union c.queued,
                    executed |-> sum,
                    latency |-> totals.latency \union c.latency,
                    durations |-> Durations(c)]
      /\ merged' = merged \union {s}
      /\ UNCHANGED <<isrs, dpcs, event, loaded, buffers, place, active, old,
                     cleaning, bound>>
    BY DEF Merge, callback, imageTable, DpcNumbers
<1>3. c \in Count /\ totals \in Count /\ Uncounted \subseteq Buffers
    BY <1>1, BufferFields DEF IndInv, Shapes, Uncounted
<1>4. sum \in [DpcNumbers -> Nat]
    BY <1>3 DEF Count
<1>5. Durations(c) \subseteq Drivers \X DpcNumbers
    BY <1>3 DEF Durations, Of, Count
<1>6. totals' \in Count /\ totals'.executed = sum
    <2> HIDE DEF sum, c
    <2>1. totals.queued \union c.queued \in SUBSET Nat
        BY <1>3 DEF Count
    <2>2. totals.latency \union c.latency \in SUBSET (Nat \X DpcNumbers)
        BY <1>3 DEF Count
    <2>3. QED
        BY <1>2, <1>4, <1>5, <2>1, <2>2 DEF Count
<1>7. \A d \in DpcNumbers : totals'.executed[d] =
                    totals.executed[d] + buffers[o].counts.executed[d]
    BY <1>6
<1> HIDE DEF sum, c
<1>8. Shapes'
    BY <1>1, <1>2, <1>6 DEF IndInv, Shapes
<1>9. Places'
    BY <1>1, <1>2 DEF IndInv, Places
<1>10. Dpcs' = Dpcs /\ Pending'
    BY <1>2 DEF IndInv, Pending, Dpcs
<1>11. Counting'
    <2>1. \A x \in Uncounted' : x \in Uncounted /\ x # o
        BY <1>1, <1>2 DEF Uncounted
    <2>2. ASSUME NEW d \in DpcNumbers
          PROVE  /\ Executed(d)' => Executed(d)
                 /\ IsPending(d)' = IsPending(d)
                 /\ Handling("dpc", d)' = Handling("dpc", d)
        <3>1. /\ totals.executed[d] \in Nat
              /\ buffers[o].counts.executed[d] \in Nat
            BY <1>1, BufferFields DEF IndInv, Shapes, Count
        <3>2. Executed(d)' => Executed(d)
            BY <1>1, <1>2, <1>7, <2>1, <3>1 DEF Executed
        <3>3. QED
            BY <1>2, <3>2 DEF IsPending, Handling
    <2>3. ASSUME NEW d \in DpcNumbers
          PROVE  /\ totals'.executed[d] <= 1
                 /\ \A x \in Uncounted' :
                      totals'.executed[d] + buffers[x].counts.executed[d] <= 1
        <3>1. /\ totals.executed[d] \in Nat
              /\ \A x \in Uncounted : buffers[x].counts.executed[d] \in Nat
            <4>1. totals.executed \in [DpcNumbers -> Nat]
                BY DEF IndInv, Shapes, Count
            <4>2. ASSUME NEW x \in Uncounted
                  PROVE  buffers[x].counts.executed \in [DpcNumbers -> Nat]
                BY BufferFields DEF IndInv, Uncounted
            <4>3. QED
                BY <4>1, <4>2
        <3>2. totals.executed[d] + buffers[o].counts.executed[d] <= 1
            BY <1>1 DEF IndInv, Counting
        <3>3. ASSUME NEW x \in Uncounted'
              PROVE  totals'.executed[d] + buffers[x].counts.executed[d] <= 1
            <4>1. x \in Uncounted /\ x # o
                BY <2>1
            <4>2. /\ totals.executed[d] + buffers[x].counts.executed[d] <= 1
                  /\ buffers[o].counts.executed[d] > 0 =>
                        buffers[x].counts.executed[d] = 0
                BY <1>1, <4>1 DEF IndInv, Counting
            <4>3. QED
                BY <1>1, <1>7, <3>1, <3>2, <4>1, <4>2
        <3>4. QED
            BY <1>7, <3>2, <3>3
    <2>4. QED
        BY <1>2, <1>10, <2>1, <2>2, <2>3 DEF IndInv, Counting
<1>12. QED
    BY <1>8, <1>9, <1>10, <1>11 DEF IndInv

\* A buffer that is emptied: fewer DPCs are pending, and it counts none.
LEMMA Emptied ==
    ASSUME IndInv, NEW o \in Buffers,
           buffers' = [buffers EXCEPT ![o] = newMetricsBuffer],
           UNCHANGED <<isrs, dpcs, event, loaded, totals>>,
           \A x \in Uncounted' : x \in Uncounted \/ x = o
    PROVE  /\ buffers' \in [Buffers -> Contents]
           /\ Pending' /\ Counting'
<1>1. /\ buffers'[o] = newMetricsBuffer
      /\ \A x \in Buffers : x # o => buffers'[x] = buffers[x]
      /\ buffers' \in [Buffers -> Contents] /\ Dpcs' = Dpcs
    BY NewBuffer DEF IndInv, Shapes, Dpcs
<1>2. \A x \in Buffers, c \in CPUs :
        buffers'[x].pending[c] \in {0, buffers[x].pending[c]}
    BY <1>1, NewBuffer
<1>3. Pending'
    <2>1. \A x \in Buffers, c \in CPUs : buffers'[x].pending[c] # 0 =>
            buffers'[x].pending[c] = buffers[x].pending[c]
        BY <1>2
    <2>2. event # None => loaded \in Buffers /\ event.cpu \in CPUs
        BY DEF IndInv, Shapes, EventRec
    <2>3. \A x, y \in Buffers, c \in CPUs :
            buffers'[x].pending[c] # 0
            /\ buffers'[x].pending[c] = buffers'[y].pending[c] => x = y
        BY <2>1 DEF IndInv, Pending
    <2>4. ASSUME event # None, event.ends # 0
          PROVE  /\ \A x \in Buffers, c \in CPUs :
                        buffers'[x].pending[c] = event.ends =>
                            x = loaded /\ c = event.cpu
                 /\ buffers'[loaded].pending[event.cpu] \in {0, event.ends}
        BY <1>2, <2>1, <2>2, <2>4 DEF IndInv, Pending
    <2>5. ASSUME event # None, event.kind = "dpc"
          PROVE  \A x \in Buffers, c \in CPUs :
                    buffers'[x].pending[c] # event.id
        <3>1. event.id # 0
            BY <2>5, DpcRange DEF IndInv, Pending, DpcNumbers
        <3>2. QED
            BY <2>1, <2>5, <3>1 DEF IndInv, Pending
    <2>6. QED
        BY <1>1, <2>1, <2>3, <2>4, <2>5 DEF IndInv, Pending
<1>4. Counting'
    <2>1. \A x \in Uncounted', d \in DpcNumbers :
            \/ buffers'[x].counts.executed[d] = 0
            \/ x \in Uncounted /\ buffers'[x] = buffers[x]
        BY <1>1, NewBuffer DEF Uncounted
    <2>2. \A d \in DpcNumbers : d # 0
        BY DEF DpcNumbers
    <2>3. \A d \in DpcNumbers :
            /\ Executed(d)' => Executed(d)
            /\ IsPending(d)' => IsPending(d)
            /\ Handling("dpc", d)' = Handling("dpc", d)
        <3>1. \A d \in DpcNumbers : Executed(d)' => Executed(d)
            BY <2>1 DEF Executed
        <3>2. \A d \in DpcNumbers : IsPending(d)' => IsPending(d)
            BY <1>2, <2>2 DEF IsPending
        <3>3. QED
            BY <3>1, <3>2 DEF Handling
    <2>4. \A d \in DpcNumbers : totals.executed[d] \in Nat
        BY DEF IndInv, Shapes, Count
    <2>5. QED
        BY <1>1, <2>1, <2>3, <2>4 DEF IndInv, Counting
<1>5. QED
    BY <1>1, <1>3, <1>4

\* The old buffer is emptied and returned.
LEMMA ResetInv ==
    ASSUME IndInv, NEW s \in Scrapers, Reset(s)
    PROVE  IndInv'
<1>1. s \in merged /\ old[s] \in Buffers /\ old[s] # active
    BY DEF Reset, IndInv, Shapes, Places
<1>2. /\ buffers' = [buffers EXCEPT ![old[s]] = newMetricsBuffer]
      /\ place' = [place EXCEPT ![old[s]] = "pool"]
      /\ old' = [old EXCEPT ![s] = None] /\ merged' = merged \ {s}
      /\ cleaning' = cleaning \union {s}
      /\ UNCHANGED <<isrs, dpcs, event, loaded, active, totals, bound>>
    BY DEF Reset, callback, imageTable
<1>3. \A r \in Scrapers : old'[r] = IF r = s THEN None ELSE old[r]
    BY <1>2 DEF IndInv, Shapes
<1>4. \A x \in Buffers : place'[x] = IF x = old[s] THEN "pool" ELSE place[x]
    BY <1>2 DEF IndInv, Shapes
<1>5. \A x \in Uncounted' : x \in Uncounted \/ x = old[s]
    BY <1>2, <1>3, <1>4 DEF Uncounted
<1>6. buffers' \in [Buffers -> Contents] /\ Pending' /\ Counting'
    BY <1>1, <1>2, <1>5, Emptied
<1>7. Shapes'
    BY <1>2, <1>6 DEF IndInv, Shapes
<1>8. Places'
    <2>1. \A x \in Buffers : x # old[s] => buffers'[x] = buffers[x]
        BY <1>2 DEF IndInv, Shapes
    <2>2. \A r \in Scrapers : r # s => old[r] # old[s]
        BY <1>1 DEF IndInv, Places
    <2>3. \A x \in Buffers : (place'[x] = "out") <=>
            (x = active \/ \E r \in Scrapers : old'[r] = x)
        <3>1. ASSUME NEW x \in Buffers, x = old[s]
              PROVE  place'[x] # "out" /\ \A r \in Scrapers : old'[r] # x
            BY <1>1, <1>3, <1>4, <2>2, <3>1
        <3>2. ASSUME NEW x \in Buffers, x # old[s]
              PROVE  /\ place'[x] = place[x]
                     /\ \A r \in Scrapers : old'[r] = x <=> old[r] = x
            BY <1>1, <1>3, <1>4, <3>2
        <3>3. QED
            BY <1>1, <3>1, <3>2 DEF IndInv, Places
    <2>4. \A x \in Buffers : place'[x] = "none" =>
            buffers'[x] = newMetricsBuffer /\ loaded # x
        BY <1>4, <2>1 DEF IndInv, Places
    <2>5. /\ \A r \in Scrapers : old'[r] # active
          /\ \A r, q \in Scrapers : old'[r] # None /\ old'[r] = old'[q] => r = q
          /\ \A r \in merged' : old'[r] # None
          /\ \A r \in cleaning' : old'[r] = None
        <3>1. active # None
            BY DEF IndInv, Shapes
        <3>2. merged \subseteq Scrapers /\ cleaning \subseteq Scrapers
            BY DEF IndInv, Shapes
        <3>3. QED
            BY <1>2, <1>3, <3>1, <3>2 DEF IndInv, Places
    <2>6. QED
        BY <1>2, <2>3, <2>4, <2>5 DEF Places
<1>9. QED
    BY <1>6, <1>7, <1>8 DEF IndInv

\* A pooled buffer is dropped.
LEMMA PoolDropsInv ==
    ASSUME IndInv, NEW b \in Buffers, PoolDrops(b)
    PROVE  IndInv'
<1>1. /\ place[b] = "pool" /\ loaded # b
      /\ place' = [place EXCEPT ![b] = "none"]
      /\ buffers' = [buffers EXCEPT ![b] = newMetricsBuffer]
      /\ UNCHANGED <<isrs, dpcs, event, loaded, active, old, merged, cleaning,
                     totals, bound>>
    BY DEF PoolDrops, callback, imageTable
<1>2. \A x \in Buffers : place'[x] = IF x = b THEN "none" ELSE place[x]
    BY <1>1 DEF IndInv, Shapes
<1>3. \A x \in Uncounted' : x \in Uncounted \/ x = b
    BY <1>1, <1>2 DEF Uncounted
<1>4. buffers' \in [Buffers -> Contents] /\ Pending' /\ Counting'
    BY <1>1, <1>3, Emptied
<1>5. Shapes'
    BY <1>1, <1>4 DEF IndInv, Shapes
<1>6. Places'
    <2>1. \A x \in Buffers :
            buffers'[x] = IF x = b THEN newMetricsBuffer ELSE buffers[x]
        BY <1>1 DEF IndInv, Shapes
    <2>2. QED
        BY <1>1, <1>2, <2>1 DEF IndInv, Places
<1>7. QED
    BY <1>4, <1>5, <1>6 DEF IndInv

\* The image table is no concern of the DPCs'.
LEMMA ImagesInv ==
    ASSUME IndInv, (\E r \in Drivers : UnloadImage(r))
                   \/ \E s \in Scrapers : PostScrapeCleanup(s)
    PROVE  IndInv'
<1>1. /\ UNCHANGED <<isrs, dpcs, event, loaded, buffers, place, active, old,
                     merged, totals, bound>>
      /\ cleaning' \subseteq cleaning
    BY DEF UnloadImage, PostScrapeCleanup, callback, scraping
<1>2. Shapes' /\ Places'
    BY <1>1 DEF IndInv, Shapes, Places
<1>3. Dpcs' = Dpcs /\ Uncounted' = Uncounted
    BY <1>1 DEF Dpcs, Uncounted
<1>4. Pending'
    BY <1>1, <1>3 DEF IndInv, Pending
<1>5. \A d \in DpcNumbers :
        /\ Executed(d)' = Executed(d) /\ IsPending(d)' = IsPending(d)
        /\ Handling("dpc", d)' = Handling("dpc", d)
    BY <1>1, <1>3 DEF Executed, IsPending, Handling
<1>6. Counting'
    BY <1>1, <1>3, <1>5 DEF IndInv, Counting
<1>7. QED
    BY <1>2, <1>4, <1>6 DEF IndInv

\* No step breaks the invariant.
LEMMA NextInv == ASSUME IndInv, [Next]_vars PROVE IndInv'
<1>1. ASSUME UNCHANGED vars PROVE IndInv'
    <2>1. /\ UNCHANGED <<isrs, dpcs, event, loaded, buffers, place, active, old,
                         merged, cleaning, totals, bound>>
          /\ Dpcs' = Dpcs /\ Uncounted' = Uncounted
        BY <1>1 DEF vars, callback, scraping, imageTable, Dpcs, Uncounted
    <2>2. Shapes' /\ Places' /\ Pending'
        BY <2>1 DEF IndInv, Shapes, Places, Pending
    <2>3. Counting'
        BY <2>1 DEF IndInv, Counting, Executed, IsPending, Handling
    <2>4. QED
        BY <2>2, <2>3 DEF IndInv
<1>2. ASSUME Next PROVE IndInv'
    BY <1>2, EventInv, ImagesInv, CountPendingInv, HandleInv, SwapInv, MergeInv,
       ResetInv, PoolDropsInv DEF Next
<1>3. QED
    BY <1>1, <1>2

\* The invariant says that a DPC is counted at most once.
LEMMA InvCounts == IndInv => CountedOnce
<1> SUFFICES ASSUME IndInv PROVE CountedOnce
    OBVIOUS
<1>1. Dpcs \subseteq DpcNumbers
    BY DpcRange DEF IndInv
<1>2. \A x \in Uncounted, d \in DpcNumbers :
        buffers[x].counts.executed[d] \in Nat
    BY BufferFields DEF IndInv, Uncounted
<1>3. \A d \in DpcNumbers : totals.executed[d] \in Nat
    BY DEF IndInv, Shapes, Count
<1>4. ASSUME NEW d \in Dpcs, NEW a \in Uncounted, NEW b \in Uncounted,
             totals.executed[d] + buffers[a].counts.executed[d] > 0,
             NEW c \in CPUs, buffers[b].pending[c] = d
      PROVE  event # None /\ event.ends = d /\ loaded = b
    <2>1. Executed(d)
        BY <1>1, <1>2, <1>3, <1>4 DEF Executed
    <2>2. event # None /\ event.ends = d
        BY <1>1, <1>4, <2>1 DEF IndInv, Counting, IsPending, Uncounted
    <2>3. d # 0
        BY <1>1 DEF DpcNumbers
    <2>4. QED
        BY <1>4, <2>2, <2>3 DEF IndInv, Pending, Uncounted
<1>5. QED
    BY <1>1, <1>4 DEF CountedOnce, IndInv, Counting

\* finalizeAndClearPendingDPC and Collect: for any number of CPUs, scrapes and
\* buffers, a DPC is counted at most once, though the callback may go on writing
\* to a buffer that a scrape has swapped out, merged and emptied; and one that is
\* counted is pending nowhere, but where the callback is about to clear it.
THEOREM DpcsCountedOnce == Spec => []CountedOnce
<1>1. Init => IndInv
    BY InitInv
<1>2. IndInv /\ [Next]_vars => IndInv'
    BY NextInv
<1>3. IndInv => CountedOnce
    BY InvCounts
<1>4. QED
    BY <1>1, <1>2, <1>3, PTL DEF Spec

-----------------------------------------------------------------------------
(* ISRs and their DPCs.                                                    *)

\* The matches that are or will be in the totals.
Matches == totals.latency \union
           UNION {buffers[b].counts.latency : b \in Uncounted}

\* A DPC that may still be matched.
Open(d) == \/ \E b \in Buffers, c \in CPUs : buffers[b].pending[c] = d
           \/ event # None /\ event.ends = d
           \/ Handling("dpc", d)

\* No ISR and no DPC is in two matches; an ISR waits in one buffer, and is not
\* matched when it does; a DPC that may still be matched has not been.
Matching ==
    /\ Matches \subseteq Isrs \X Dpcs
    /\ \A p, q \in Matches : p[1] = q[1] \/ p[2] = q[2] => p = q
    /\ \A p \in Matches, b \in Uncounted : p[1] \notin buffers[b].isrs
    /\ \A b \in Buffers : buffers[b].isrs \subseteq Isrs
    /\ \A a, b \in Buffers : a = b \/ buffers[a].isrs \cap buffers[b].isrs = {}
    /\ \A p \in Matches : ~Open(p[2])
    /\ event # None /\ event.kind = "isr" =>
          /\ event.id \in Isrs
          /\ \A b \in Buffers : event.id \notin buffers[b].isrs
          /\ \A p \in Matches : p[1] # event.id

\* A step that adds no match, opens no DPC that was there and makes no ISR wait.
LEMMA NoNewMatch ==
    ASSUME Matching, Matches' \subseteq Matches,
           Isrs \subseteq Isrs', Dpcs \subseteq Dpcs',
           \A b \in Buffers : buffers'[b].isrs \subseteq buffers[b].isrs,
           \A b \in Uncounted' : b \in Uncounted \/ buffers'[b].isrs = {},
           \A d \in Dpcs : Open(d)' => Open(d),
           event' # None /\ event'.kind = "isr" =>
                event'.id \in Isrs' /\ (event'.id \notin Isrs \/ event' = event)
    PROVE  Matching'
<1>1. Matches' \subseteq Isrs' \X Dpcs'
    BY DEF Matching
<1>2. \A p, q \in Matches' : p[1] = q[1] \/ p[2] = q[2] => p = q
    BY DEF Matching
<1>3. \A p \in Matches', b \in Uncounted' : p[1] \notin buffers'[b].isrs
    BY DEF Matching, Uncounted
<1>4. \A b \in Buffers : buffers'[b].isrs \subseteq Isrs'
    BY DEF Matching
<1>5. \A a, b \in Buffers : a = b \/ buffers'[a].isrs \cap buffers'[b].isrs = {}
    BY DEF Matching
<1>6. ASSUME NEW p \in Matches' PROVE ~Open(p[2])'
    <2>1. PICK d \in Dpcs : p[2] = d
        BY <1>6 DEF Matching
    <2>2. ~Open(d)
        BY <2>1, <1>6 DEF Matching
    <2>3. ~Open(d)'
        BY <2>2
    <2>4. Open(p[2])' = Open(d)'
        BY <2>1 DEF Open, Handling
    <2>5. QED
        BY <2>3, <2>4
<1>7. ASSUME event' # None, event'.kind = "isr"
      PROVE  /\ event'.id \in Isrs'
             /\ \A b \in Buffers : event'.id \notin buffers'[b].isrs
             /\ \A p \in Matches' : p[1] # event'.id
    <2>1. CASE event'.id \notin Isrs
        <3>1. \A p \in Matches : p[1] \in Isrs
            BY DEF Matching
        <3>2. QED
            BY <1>7, <2>1, <3>1 DEF Matching
    <2>2. CASE event' = event
        BY <1>7, <2>2 DEF Matching
    <2>3. QED
        BY <1>7, <2>1, <2>2
<1>8. QED
    BY <1>1, <1>2, <1>3, <1>4, <1>5, <1>6, <1>7 DEF Matching

\* Nothing has been matched.
LEMMA InitMatch == ASSUME Init PROVE Matching
<1>1. /\ \A b \in Buffers : buffers[b].isrs = {}
                            /\ buffers[b].counts.latency = {}
      /\ totals.latency = {} /\ event = None
    BY NewBuffer DEF Init
<1>2. Matches = {}
    BY <1>1 DEF Matches, Uncounted
<1>3. QED
    BY <1>1, <1>2 DEF Matching

\* An event is loaded.
LEMMA EventMatch ==
    ASSUME IndInv, Matching, NEW c \in CPUs,
           ISREvent(c) \/ DPCEvent(c) \/ CSwitchEvent(c)
    PROVE  Matching'
<1>1. event = None /\ UNCHANGED <<buffers, place, old, merged, totals>>
    BY DEF ISREvent, DPCEvent, CSwitchEvent, Load, scraping
<1>2. Matches' = Matches /\ Uncounted' = Uncounted
    BY <1>1 DEF Matches, Uncounted
<1>3. Shapes /\ Dpcs = 1 .. Len(dpcs) /\ Isrs = 1 .. Len(isrs)
      /\ Len(isrs) \in Nat /\ Len(dpcs) \in Nat
    BY DpcRange DEF IndInv
<1>4. CASE ISREvent(c)
    <2>1. /\ isrs' = Append(isrs, c) /\ dpcs' = dpcs
          /\ event' = Event("isr", c, Len(isrs) + 1)
        BY <1>4 DEF ISREvent, Load
    <2>2. Isrs' = 1 .. Len(isrs) + 1 /\ Dpcs' = Dpcs
        BY <1>3, <2>1 DEF Isrs, Dpcs, Shapes
    <2>3. event'.id = Len(isrs) + 1 /\ event'.ends = 0 /\ event'.kind = "isr"
        BY <2>1 DEF Event
    <2>4. \A d \in Dpcs : Open(d)' => Open(d)
        BY <1>1, <1>3, <2>3 DEF Open, Handling
    <2>5. QED
        BY <1>1, <1>2, <1>3, <2>2, <2>3, <2>4, NoNewMatch
<1>5. CASE DPCEvent(c)
    <2>1. /\ isrs' = isrs /\ event' = Event("dpc", c, Len(dpcs) + 1)
          /\ \E x : dpcs' = Append(dpcs, x)
          /\ Len(dpcs') = Len(dpcs) + 1
        BY <1>3, <1>5 DEF DPCEvent, Load, Shapes
    <2>2. Isrs' = Isrs /\ Dpcs \subseteq Dpcs'
        <3> DEFINE R == [cpu : CPUs, seen : Nat, driver : AnyDriver]
        <3>1. IndInv'
            BY <1>5, EventInv
        <3>2. dpcs' \in Seq(R)
            BY <3>1 DEF IndInv, Shapes
        <3> HIDE DEF R
        <3>3. Dpcs' = 1 .. Len(dpcs')
            BY <3>2 DEF Dpcs
        <3>4. QED
            BY <1>3, <2>1, <3>3 DEF Isrs
    <2>3. event'.id = Len(dpcs) + 1 /\ event'.ends = 0 /\ event'.kind = "dpc"
        BY <2>1 DEF Event
    <2>4. \A d \in Dpcs : Open(d)' => Open(d)
        BY <1>1, <1>3, <2>3 DEF Open, Handling
    <2>5. QED
        BY <1>1, <1>2, <2>2, <2>3, <2>4, NoNewMatch
<1>6. CASE CSwitchEvent(c)
    <2>1. /\ isrs' = isrs /\ dpcs' = dpcs
          /\ event' = Event("cswitch", c, 0)
        BY <1>6 DEF CSwitchEvent, Load
    <2>2. Isrs' = Isrs /\ Dpcs' = Dpcs
        BY <2>1 DEF Isrs, Dpcs
    <2>3. event'.ends = 0 /\ event'.kind = "cswitch"
        BY <2>1 DEF Event
    <2>4. \A d \in Dpcs : Open(d)' => Open(d)
        BY <1>1, <1>3, <2>3 DEF Open, Handling
    <2>5. QED
        BY <1>1, <1>2, <2>2, <2>3, <2>4, NoNewMatch
<1>7. QED
    BY <1>4, <1>5, <1>6

\* The pending DPC, now being ended, was open.
LEMMA CountPendingMatch ==
    ASSUME IndInv, Matching, CountPendingDPC
    PROVE  Matching'
<1>1. /\ event \in EventRec /\ loaded \in Buffers /\ event # None
      /\ event.kind # "isr" /\ event.cpu \in CPUs
    BY DEF CountPendingDPC, IndInv, Shapes, EventRec
<1>2. PICK d \in DpcNumbers :
            /\ d = buffers[loaded].pending[event.cpu]
            /\ buffers' = [buffers EXCEPT ![loaded].counts.executed[d] = @ + 1]
            /\ event'.ends = d /\ event'.kind = event.kind
            /\ event'.id = event.id
    <2>1. Ended(buffers[loaded], event.cpu) \in DpcNumbers
        BY <1>1, DpcRange DEF CountPendingDPC, Ended, IndInv, Pending
    <2>2. QED
        BY <1>1, <2>1 DEF CountPendingDPC, Ended, EventRec
<1>3. UNCHANGED <<isrs, dpcs, loaded, totals, place, old, merged>>
    BY DEF CountPendingDPC, scraping
<1>4. \A x \in Buffers : /\ buffers'[x].isrs = buffers[x].isrs
                         /\ buffers'[x].pending = buffers[x].pending
                         /\ buffers'[x].counts.latency = buffers[x].counts.latency
    <2> DEFINE n == [buffers[loaded].counts EXCEPT !.executed[d] = @ + 1]
               a == [buffers[loaded] EXCEPT !.counts = n]
    <2>1. buffers[loaded] \in Contents /\ buffers[loaded].counts \in Count
        BY <1>1, BufferFields DEF IndInv
    <2>2. n.latency = buffers[loaded].counts.latency
        BY <2>1 DEF Count
    <2>3. /\ a.counts = n /\ a.pending = buffers[loaded].pending
          /\ a.isrs = buffers[loaded].isrs
        BY <2>1 DEF Contents
    <2>4. buffers' = [buffers EXCEPT ![loaded] = a]
        BY <1>2
    <2> HIDE DEF n, a
    <2>5. QED
        BY <1>1, <2>2, <2>3, <2>4 DEF IndInv, Shapes
<1>5. Matches' = Matches /\ Uncounted' = Uncounted
    <2>1. Uncounted' = Uncounted /\ Uncounted \subseteq Buffers
        BY <1>3 DEF Uncounted
    <2>2. \A p : p \in Matches' <=> p \in Matches
        BY <1>3, <1>4, <2>1 DEF Matches
    <2>3. QED
        BY <2>1, <2>2
<1>6. Isrs' = Isrs /\ Dpcs' = Dpcs
    BY <1>3 DEF Isrs, Dpcs
<1>7. \A e \in Dpcs : Open(e)' => Open(e)
    BY <1>1, <1>2, <1>4 DEF Open, Handling
<1>8. QED
    BY <1>1, <1>2, <1>4, <1>5, <1>6, <1>7, NoNewMatch

\* What came waits in one buffer; what ended is matched with what waited there,
\* and is open no more.
LEMMA HandleMatch ==
    ASSUME IndInv, Matching, Handle
    PROVE  Matching'
<1>1. /\ event # None /\ event \in EventRec /\ loaded \in Buffers
      /\ event' = None
      /\ UNCHANGED <<isrs, dpcs, totals, place, old, merged>>
    BY Handled DEF IndInv, scraping
<1>2. PICK a \in Contents :
            /\ buffers' = [buffers EXCEPT ![loaded] = a]
            /\ event.kind = "isr" => Waits(buffers[loaded], a)
            /\ event.kind # "isr" => Ends(buffers[loaded], a)
    BY Handled DEF IndInv
<1>3. /\ \A x \in Buffers : x # loaded => buffers'[x] = buffers[x]
      /\ buffers'[loaded] = a
    BY <1>1, <1>2 DEF IndInv, Shapes
<1>4. Isrs' = Isrs /\ Dpcs' = Dpcs /\ Uncounted' = Uncounted
      /\ Uncounted \subseteq Buffers
    BY <1>1 DEF Isrs, Dpcs, Uncounted
<1>5. event.cpu \in CPUs /\ buffers[loaded].counts \in Count
      /\ buffers[loaded].pending \in [CPUs -> DpcNumbers \union {0}]
    BY <1>1, BufferFields DEF EventRec, IndInv
<1>6. CASE event.kind = "isr"
    <2>1. /\ a.pending = buffers[loaded].pending
          /\ a.counts.latency = buffers[loaded].counts.latency
          /\ a.isrs \subseteq buffers[loaded].isrs \union {event.id}
        BY <1>2, <1>5, <1>6 DEF Waits, Count
    <2>2. \A p : p \in Matches' <=> p \in Matches
        BY <1>1, <1>3, <1>4, <2>1 DEF Matches
    <2>3. \A d : Open(d)' => Open(d)
        BY <1>1, <1>3, <2>1 DEF Open, Handling
    <2>4. \A x \in Buffers : buffers'[x].isrs \subseteq
            IF x = loaded THEN buffers[x].isrs \union {event.id}
                          ELSE buffers[x].isrs
        BY <1>3, <2>1
    <2>5. \A b \in Buffers : buffers'[b].isrs \subseteq Isrs
        BY <1>1, <1>6, <2>4 DEF Matching
    <2>6. \A x, y \in Buffers :
            x = y \/ buffers'[x].isrs \cap buffers'[y].isrs = {}
        BY <1>1, <1>6, <2>4 DEF Matching
    <2>7. \A p \in Matches, b \in Uncounted : p[1] \notin buffers'[b].isrs
        BY <1>1, <1>4, <1>6, <2>4 DEF Matching
    <2>8. Matches' = Matches
        BY <2>2
    <2>9. \A p \in Matches' : ~Open(p[2])'
        <3>1. ASSUME NEW p \in Matches' PROVE ~Open(p[2])'
            <4>1. ~Open(p[2]) /\ p \in Matches
                BY <2>8, <3>1 DEF Matching
            <4>2. PICK d \in Dpcs : p[2] = d
                BY <4>1 DEF Matching
            <4>3. ~Open(d)'
                BY <4>1, <4>2, <2>3
            <4>4. QED
                BY <4>2, <4>3 DEF Open, Handling
        <3>2. QED
            BY <3>1
    <2>10. QED
        BY <1>1, <1>4, <2>5, <2>6, <2>7, <2>8, <2>9 DEF Matching
<1>7. CASE event.kind # "isr"
    <2>1. /\ a.pending = [buffers[loaded].pending EXCEPT ![event.cpu] =
                            IF event.kind = "dpc" THEN event.id ELSE 0]
          /\ Matched(buffers[loaded], a)
        BY <1>2, <1>7 DEF Ends
    <2>2. \A x \in Buffers : buffers'[x].isrs \subseteq buffers[x].isrs
        BY <1>3, <2>1 DEF Matched
    <2>3. \A d \in DpcNumbers : Open(d)' => Open(d) /\ d # event.ends
        <3>1. ASSUME NEW d \in DpcNumbers, Open(d)'
              PROVE  Open(d) /\ d # event.ends
            <4>1. PICK x \in Buffers, c \in CPUs : buffers'[x].pending[c] = d
                BY <1>1, <3>1 DEF Open, Handling
            <4>2. d # 0
                BY DEF DpcNumbers
            <4>3. CASE x = loaded /\ c = event.cpu
                <5>1. event.kind = "dpc" /\ d = event.id
                    BY <1>3, <1>5, <2>1, <4>1, <4>2, <4>3
                <5>2. QED
                    BY <1>1, <5>1 DEF Open, Handling, IndInv, Pending
            <4>4. CASE ~(x = loaded /\ c = event.cpu)
                <5>1. buffers[x].pending[c] = d
                    BY <1>3, <1>5, <2>1, <4>1, <4>4
                <5>2. event.ends # d
                    BY <1>1, <4>2, <4>4, <5>1 DEF IndInv, Pending
                <5>3. QED
                    BY <5>1, <5>2 DEF Open
            <4>5. QED
                BY <4>3, <4>4
        <3>2. QED
            BY <3>1
    <2>4. Dpcs \subseteq DpcNumbers
        BY DpcRange DEF IndInv
    <2>5. CASE a.counts.latency = buffers[loaded].counts.latency
        <3>1. \A p : p \in Matches' <=> p \in Matches
            BY <1>1, <1>3, <1>4, <2>5 DEF Matches
        <3>2. QED
            BY <1>1, <1>4, <2>2, <2>3, <2>4, <3>1, NoNewMatch
    <2>6. CASE loaded \notin Uncounted
        <3>1. \A p : p \in Matches' <=> p \in Matches
            BY <1>1, <1>3, <1>4, <2>6 DEF Matches
        <3>2. QED
            BY <1>1, <1>4, <2>2, <2>3, <2>4, <3>1, NoNewMatch
    <2>7. ASSUME loaded \in Uncounted, NEW i \in buffers[loaded].isrs,
                 event.ends # 0,
                 a.counts.latency = buffers[loaded].counts.latency \union
                                        {<<i, event.ends>>},
                 a.isrs = buffers[loaded].isrs \ {i}
          PROVE  Matching'
        <3>1. PICK d \in Dpcs : d = event.ends
            BY <1>1, <2>7 DEF IndInv, Pending
        <3> DEFINE m == <<i, d>>
        <3>2. \A p : p \in Matches' <=> p \in Matches \/ p = m
            BY <1>1, <1>3, <1>4, <2>7, <3>1 DEF Matches
        <3>3. i \in Isrs /\ m \in Isrs \X Dpcs /\ m[1] = i /\ m[2] = d
            BY <1>1, <2>7 DEF Matching
        <3> HIDE DEF m
        <3>4. \A p \in Matches : p[1] # i /\ p[2] # d
            BY <1>1, <2>7, <3>1 DEF Matching, Open
        <3>5. Matches' \subseteq Isrs' \X Dpcs'
            BY <1>4, <3>2, <3>3 DEF Matching
        <3>6. \A p, q \in Matches' : p[1] = q[1] \/ p[2] = q[2] => p = q
            BY <3>2, <3>3, <3>4 DEF Matching
        <3>7. \A b \in Uncounted : i \notin buffers'[b].isrs
            BY <1>1, <1>3, <1>4, <2>7 DEF Matching
        <3>8. \A p \in Matches', b \in Uncounted' : p[1] \notin buffers'[b].isrs
            BY <1>4, <2>2, <3>2, <3>3, <3>7 DEF Matching
        <3>9. \A b \in Buffers : buffers'[b].isrs \subseteq Isrs'
            BY <1>4, <2>2 DEF Matching
        <3>10. \A x, y \in Buffers :
                x = y \/ buffers'[x].isrs \cap buffers'[y].isrs = {}
            BY <2>2 DEF Matching
        <3>11. ASSUME NEW p \in Matches' PROVE ~Open(p[2])'
            <4>1. PICK e \in Dpcs : p[2] = e
                BY <1>4, <3>5
            <4>2. e = d \/ ~Open(e)
                BY <3>2, <3>3, <3>11, <4>1 DEF Matching
            <4>3. ~Open(e)'
                BY <2>3, <2>4, <3>1, <4>2
            <4>4. QED
                BY <4>1, <4>3 DEF Open, Handling
        <3>12. QED
            BY <1>1, <3>5, <3>6, <3>8, <3>9, <3>10, <3>11 DEF Matching
    <2>8. QED
        BY <2>1, <2>5, <2>6, <2>7 DEF Matched
<1>8. QED
    BY <1>6, <1>7

\* A buffer is swapped in: it is uncounted already, or it is a new one.
LEMMA SwapMatch ==
    ASSUME IndInv, Matching, NEW s \in Scrapers, NEW b \in Buffers, Swap(s, b)
    PROVE  Matching'
<1>1. UNCHANGED <<isrs, dpcs, event, loaded, buffers, merged, totals>>
    BY DEF Swap, callback
<1>2. \A x \in Uncounted' :
        \/ x \in Uncounted
        \/ buffers[x].isrs = {} /\ buffers[x].counts.latency = {}
    <2>1. ASSUME NEW x \in Uncounted', x # b PROVE x \in Uncounted
        <3>1. x \in Buffers /\ place[x] # "none"
            BY <2>1 DEF Uncounted, Swap, IndInv, Shapes
        <3>2. s \notin merged
            BY DEF Swap, Scraping, IndInv, Shapes, Places
        <3>3. \A r \in merged : old[r] # x
            BY <1>1, <2>1, <3>2 DEF Uncounted, Swap, IndInv, Shapes
        <3>4. QED
            BY <3>1, <3>3 DEF Uncounted
    <2>2. CASE place[b] = "none"
        <3>1. buffers[b].isrs = {} /\ buffers[b].counts.latency = {}
            BY <2>2, NewBuffer DEF IndInv, Places
        <3>2. QED
            BY <2>1, <3>1
    <2>3. CASE place[b] # "none"
        <3>1. \A r \in merged : old[r] # b
            BY DEF Swap, IndInv, Shapes, Places
        <3>2. b \in Uncounted
            BY <2>3, <3>1 DEF Uncounted
        <3>3. QED
            BY <2>1, <3>2
    <2>4. QED
        BY <2>2, <2>3
<1>3. Matches' \subseteq Matches
    BY <1>1, <1>2 DEF Matches
<1>4. /\ Isrs' = Isrs /\ Dpcs' = Dpcs /\ \A d \in Dpcs : Open(d)' = Open(d)
    BY <1>1 DEF Isrs, Dpcs, Open, Handling
<1>5. event' # None /\ event'.kind = "isr" => event.id \in Isrs
    BY <1>1 DEF Matching
<1>6. QED
    BY <1>1, <1>2, <1>3, <1>4, <1>5, NoNewMatch

\* The matches move from the old buffer to the totals.
LEMMA MergeMatch ==
    ASSUME IndInv, Matching, NEW s \in Scrapers, Merge(s)
    PROVE  Matching'
<1>1. /\ old[s] \in Uncounted
      /\ totals'.latency = totals.latency \union buffers[old[s]].counts.latency
      /\ merged' = merged \union {s}
      /\ UNCHANGED <<isrs, dpcs, event, loaded, buffers, place, old>>
    BY ToBeCounted DEF Merge, callback, IndInv, Shapes
<1>2. Uncounted' \subseteq Uncounted
    BY <1>1 DEF Uncounted
<1>3. Matches' \subseteq Matches
    BY <1>1, <1>2 DEF Matches
<1>4. /\ Isrs' = Isrs /\ Dpcs' = Dpcs /\ \A d \in Dpcs : Open(d)' = Open(d)
    BY <1>1 DEF Isrs, Dpcs, Open, Handling
<1>5. event' # None /\ event'.kind = "isr" => event.id \in Isrs
    BY <1>1 DEF Matching
<1>6. QED
    BY <1>1, <1>2, <1>3, <1>4, <1>5, NoNewMatch

\* A buffer is emptied: what waited in it waits no more.
LEMMA EmptiedMatch ==
    ASSUME IndInv, Matching, NEW o \in Buffers,
           buffers' = [buffers EXCEPT ![o] = newMetricsBuffer],
           UNCHANGED <<isrs, dpcs, event, loaded, totals>>,
           \A x \in Uncounted' : x \in Uncounted \/ x = o
    PROVE  Matching'
<1>1. \A x \in Buffers :
        buffers'[x] = IF x = o THEN newMetricsBuffer ELSE buffers[x]
    BY DEF IndInv, Shapes
<1>2. Uncounted' \subseteq Buffers
    BY DEF Uncounted
<1>3. Matches' \subseteq Matches
    BY <1>1, <1>2, NewBuffer DEF Matches
<1>4. \A d \in DpcNumbers : Open(d)' => Open(d)
    <2>1. \A d \in DpcNumbers : d # 0
        BY DEF DpcNumbers
    <2>2. QED
        BY <1>1, <2>1, NewBuffer DEF Open, Handling
<1>5. Isrs' = Isrs /\ Dpcs' = Dpcs /\ Dpcs \subseteq DpcNumbers
    BY DpcRange DEF Isrs, Dpcs, IndInv
<1>6. \A x \in Buffers : buffers'[x].isrs \subseteq buffers[x].isrs
    BY <1>1, NewBuffer
<1>7. \A x \in Uncounted' : x \in Uncounted \/ buffers'[x].isrs = {}
    BY <1>1, NewBuffer
<1>8. event' # None /\ event'.kind = "isr" => event.id \in Isrs
    BY DEF Matching
<1>9. QED
    BY <1>3, <1>4, <1>5, <1>6, <1>7, <1>8, NoNewMatch

\* The other steps of a scrape and of the image table.
LEMMA RestMatch ==
    ASSUME IndInv, Matching,
           \/ \E s \in Scrapers : Reset(s) \/ PostScrapeCleanup(s)
           \/ \E b \in Buffers : PoolDrops(b)
           \/ \E r \in Drivers : UnloadImage(r)
           \/ UNCHANGED vars
    PROVE  Matching'
<1>1. ASSUME NEW s \in Scrapers, Reset(s) PROVE Matching'
    <2>1. /\ old[s] \in Buffers
          /\ buffers' = [buffers EXCEPT ![old[s]] = newMetricsBuffer]
          /\ place' = [place EXCEPT ![old[s]] = "pool"]
          /\ old' = [old EXCEPT ![s] = None] /\ merged' = merged \ {s}
          /\ UNCHANGED <<isrs, dpcs, event, loaded, totals>>
        BY <1>1 DEF Reset, callback, IndInv, Shapes, Places
    <2>2. \A x \in Uncounted' : x \in Uncounted \/ x = old[s]
        BY <2>1 DEF Uncounted, IndInv, Shapes
    <2>3. QED
        BY <2>1, <2>2, EmptiedMatch
<1>2. ASSUME NEW b \in Buffers, PoolDrops(b) PROVE Matching'
    <2>1. /\ buffers' = [buffers EXCEPT ![b] = newMetricsBuffer]
          /\ place' = [place EXCEPT ![b] = "none"]
          /\ UNCHANGED <<isrs, dpcs, event, loaded, totals, old, merged>>
        BY <1>2 DEF PoolDrops, callback
    <2>2. \A x \in Uncounted' : x \in Uncounted \/ x = b
        BY <2>1 DEF Uncounted, IndInv, Shapes
    <2>3. QED
        BY <2>1, <2>2, EmptiedMatch
<1>3. ASSUME \/ \E s \in Scrapers : PostScrapeCleanup(s)
             \/ \E r \in Drivers : UnloadImage(r)
             \/ UNCHANGED vars
      PROVE  Matching'
    <2>1. UNCHANGED <<isrs, dpcs, event, loaded, buffers, totals, place, old,
                      merged>>
        BY <1>3 DEF PostScrapeCleanup, UnloadImage, vars, callback, scraping
    <2>2. /\ Isrs' = Isrs /\ Dpcs' = Dpcs /\ Uncounted' = Uncounted
          /\ Matches' = Matches /\ \A d \in Dpcs : Open(d)' = Open(d)
        BY <2>1 DEF Isrs, Dpcs, Uncounted, Matches, Open, Handling
    <2>3. event' # None /\ event'.kind = "isr" => event.id \in Isrs
        BY <2>1 DEF Matching
    <2>4. QED
        BY <2>1, <2>2, <2>3, NoNewMatch
<1>4. QED
    BY <1>1, <1>2, <1>3

\* No step breaks it.
LEMMA NextMatch == ASSUME IndInv, Matching, [Next]_vars PROVE Matching'
    BY EventMatch, CountPendingMatch, HandleMatch, SwapMatch, MergeMatch,
       RestMatch DEF Next

\* correlateISR and Collect: for any number of CPUs, scrapes and buffers, no ISR
\* is matched with two DPCs and no DPC with two ISRs, and a matched ISR waits in
\* no buffer whose counts will be exported.
THEOREM IsrsMatchedOnce == Spec => []IsrMatchedOnce
<1> DEFINE Inv == IndInv /\ Matching
<1>1. Init => Inv
    BY InitInv, InitMatch
<1>2. Inv /\ [Next]_vars => Inv'
    BY NextInv, NextMatch
<1>3. Inv => IsrMatchedOnce
    <2>1. UNION {n.latency : n \in Counts} = Matches
        <3>1. \A p : p \in UNION {n.latency : n \in Counts} <=> p \in Matches
            BY DEF Counts, Matches
        <3>2. QED
            BY <3>1
    <2>2. QED
        BY <2>1 DEF IsrMatchedOnce, Matching
<1>4. QED
    BY <1>1, <1>2, <1>3, PTL DEF Spec

-----------------------------------------------------------------------------
(* The series of a driver.                                                 *)

\* A buffer holds a duration of a driver or a pending DPC of it, and the
\* callback may have one in hand that it will put there.
Holds(b, r) ==
    \/ \E p \in buffers[b].counts.durations : p[1] = r
    \/ \E c \in CPUs : buffers[b].pending[c] # 0
                       /\ dpcs[buffers[b].pending[c]].driver = r
HasInHand(r) ==
    /\ event # None
    /\ \/ event.ends # 0 /\ dpcs[event.ends].driver = r
       \/ event.kind = "dpc" /\ dpcs[event.id].driver = r
Carrier(b, r) == Holds(b, r) \/ (loaded = b /\ HasInHand(r))

Clean(r) == \A p \in totals.durations : p[1] # r

\* Marked before the scrape that goes on, if one does.
MarkedBefore(r) ==
    terminatedImages[r] # None /\ terminatedImages[r] < scrapeCounter

\* Marks are generations; the driver looked up is that of the DPC.
Marks ==
    /\ terminatedImages \in [Drivers -> Nat \union {None}]
    /\ scrapeCounter \in Nat /\ images \subseteq Drivers
    /\ \A r \in Drivers : terminatedImages[r] # None =>
            r \in images /\ terminatedImages[r] <= scrapeCounter
    /\ event # None /\ event.ends # 0 =>
            event.driver \in {None, dpcs[event.ends].driver}

\* One scrape at a time.  Only the active buffer and the one swapped out carry
\* anything of a driver; of one that was marked before the scrape, the active
\* buffer carries nothing and, once the counts are merged, the totals hold
\* nothing; of one that is gone, nothing is left.
Series ==
    /\ \A s, t \in Scraping : s = t
    /\ \A r \in Drivers \ overtaken, b \in Buffers :
            Carrier(b, r) => b = active \/ \E s \in Scrapers : old[s] = b
    /\ \A r \in Drivers \ overtaken :
            MarkedBefore(r) /\ Scraping # {} => ~Carrier(active, r)
    /\ \A r \in Drivers :
            MarkedBefore(r) /\ merged \union cleaning # {} => Clean(r)
    /\ \A r \in Drivers \ (images \union hasty \union overtaken) :
            Clean(r) /\ \A b \in Buffers : ~Carrier(b, r)

SeriesInv == Marks /\ (bound.atOnce = 1 => Series)

\* Nothing has been recorded.
LEMMA InitSeries == ASSUME Init PROVE SeriesInv
<1>1. /\ \A b \in Buffers : buffers[b] = newMetricsBuffer
      /\ totals = NoCounts /\ event = None /\ merged = {} /\ cleaning = {}
      /\ old = [s \in Scrapers |-> None] /\ scrapeCounter = 0
      /\ terminatedImages = [r \in Drivers |-> None]
      /\ bound \in Workloads /\ images = bound.drivers \ {None}
    BY DEF Init
<1>2. images \subseteq Drivers
    BY <1>1
<1>3. \A b \in Buffers, r \in Drivers : ~Carrier(b, r)
    BY <1>1, NewBuffer DEF Carrier, Holds, HasInHand
<1>4. Scraping = {} /\ \A r \in Drivers : Clean(r)
    BY <1>1, NewBuffer DEF Scraping, Clean
<1>5. QED
    BY <1>1, <1>2, <1>3, <1>4 DEF SeriesInv, Marks, Series

\* A step of the callback: what a buffer carries it carried before, or it is
\* the active one and the driver is loaded.
LEMMA CallbackSeries ==
    ASSUME IndInv, SeriesInv, UNCHANGED <<scraping, imageTable>>,
           event' # None /\ event'.ends # 0 =>
                event'.driver \in {None, dpcs'[event'.ends].driver},
           \A b \in Buffers, r \in Drivers : Carrier(b, r)' =>
                Carrier(b, r)
                \/ (b = active /\ r \in images /\ terminatedImages[r] = None)
    PROVE  SeriesInv'
<1>1. UNCHANGED <<place, active, old, merged, cleaning, totals, overtaken,
                  images, terminatedImages, scrapeCounter, bound, hasty>>
    BY DEF scraping, imageTable
<1>2. Marks'
    BY <1>1 DEF SeriesInv, Marks
<1>3. /\ Scraping' = Scraping
      /\ \A r \in Drivers : /\ Clean(r)' = Clean(r)
                            /\ MarkedBefore(r)' = MarkedBefore(r)
    BY <1>1 DEF Scraping, Clean, MarkedBefore
<1>4. ASSUME bound.atOnce = 1, Series PROVE Series'
    <2>1. \A r \in Drivers \ overtaken, b \in Buffers :
            Carrier(b, r)' => b = active \/ \E s \in Scrapers : old[s] = b
        BY <1>4 DEF Series
    <2>2. \A r \in Drivers \ overtaken :
            MarkedBefore(r) /\ Scraping # {} => ~Carrier(active, r)'
        <3>1. ASSUME NEW r \in Drivers \ overtaken, MarkedBefore(r),
                     Scraping # {}, NEW b \in Buffers, b = active
              PROVE  ~Carrier(b, r)'
            BY <1>4, <3>1 DEF Series, MarkedBefore
        <3>2. \A r \in Drivers : \A b \in Buffers : b = active =>
                Carrier(active, r)' = Carrier(b, r)'
            BY <1>1 DEF Carrier, Holds
        <3>3. active \in Buffers
            BY DEF IndInv, Shapes
        <3>4. QED
            BY <3>1, <3>2, <3>3
    <2>3. \A r \in Drivers \ (images \union hasty \union overtaken) :
            Clean(r) /\ \A b \in Buffers : ~Carrier(b, r)'
        BY <1>4 DEF Series
    <2>4. QED
        BY <1>1, <1>3, <1>4, <2>1, <2>2, <2>3 DEF Series
<1>5. QED
    BY <1>1, <1>2, <1>4 DEF SeriesInv

\* An event is loaded: a DPC's driver is in the image table, and not marked.
LEMMA EventSeries ==
    ASSUME IndInv, SeriesInv, NEW c \in CPUs,
           ISREvent(c) \/ DPCEvent(c) \/ CSwitchEvent(c)
    PROVE  SeriesInv'
<1>1. /\ event = None /\ loaded' = active
      /\ UNCHANGED <<buffers, scraping, imageTable>>
      /\ event'.ends = 0 /\ \A d \in Dpcs : dpcs'[d] = dpcs[d]
    <2>1. CASE DPCEvent(c)
        <3> DEFINE R == [cpu : CPUs, seen : Nat, driver : AnyDriver]
        <3>1. PICK x \in R : dpcs' = Append(dpcs, x)
            <4>1. PICK seen \in 0 .. Len(isrs), r \in bound.drivers :
                    dpcs' = Append(dpcs, [cpu |-> c, seen |-> seen, driver |-> r])
                BY <2>1 DEF DPCEvent
            <4>2. r \in AnyDriver /\ seen \in Nat
                BY DpcRange DEF IndInv, Shapes, AnyDriver
            <4>3. QED
                BY <4>1, <4>2
        <3>2. dpcs \in Seq(R) /\ Dpcs = 1 .. Len(dpcs)
            BY DpcRange DEF IndInv, Shapes
        <3> HIDE DEF R
        <3>3. \A d \in Dpcs : dpcs'[d] = dpcs[d]
            BY <3>1, <3>2
        <3>4. QED
            BY <2>1, <3>3 DEF DPCEvent, Load, Event
    <2>2. QED
        BY <2>1 DEF ISREvent, CSwitchEvent, Load, Event
<1>2. \A b \in Buffers, e \in CPUs : buffers[b].pending[e] # 0 =>
            buffers[b].pending[e] \in Dpcs
    BY DEF IndInv, Pending
<1>3. \A b \in Buffers, r \in Drivers : Holds(b, r)' => Holds(b, r)
    BY <1>1, <1>2 DEF Holds
<1>4. ASSUME NEW r \in Drivers, HasInHand(r)'
      PROVE  r \in images /\ terminatedImages[r] = None
    <2>1. event'.kind = "dpc" /\ dpcs'[event'.id].driver = r
        BY <1>1, <1>4 DEF HasInHand
    <2>2. DPCEvent(c) /\ event' = Event("dpc", c, Len(dpcs) + 1)
        <3>1. ISREvent(c) => event'.kind = "isr"
            BY DEF ISREvent, Load, Event
        <3>2. CSwitchEvent(c) => event'.kind = "cswitch"
            BY DEF CSwitchEvent, Load, Event
        <3>3. DPCEvent(c) => event' = Event("dpc", c, Len(dpcs) + 1)
            BY DEF DPCEvent, Load
        <3>4. QED
            BY <2>1, <3>1, <3>2, <3>3
    <2>3. PICK seen \in 0 .. Len(isrs), q \in bound.drivers :
            /\ q # None => terminatedImages[q] = None /\ q \in images
            /\ dpcs' = Append(dpcs, [cpu |-> c, seen |-> seen, driver |-> q])
        BY <2>2 DEF DPCEvent
    <2>4. dpcs'[Len(dpcs) + 1].driver = q
        <3> DEFINE x == [cpu |-> c, seen |-> seen, driver |-> q]
                   R == [cpu : CPUs, seen : Nat, driver : AnyDriver]
        <3>1. dpcs' = Append(dpcs, x) /\ x.driver = q
            BY <2>3
        <3>2. dpcs \in Seq(R)
            BY DEF IndInv, Shapes
        <3> HIDE DEF x, R
        <3>3. QED
            BY <3>1, <3>2
    <2>5. r = q /\ r # None
        BY <2>1, <2>2, <2>4 DEF Event
    <2>6. QED
        BY <2>3, <2>5
<1>5. \A b \in Buffers, r \in Drivers : Carrier(b, r)' =>
            Carrier(b, r)
            \/ (b = active /\ r \in images /\ terminatedImages[r] = None)
    BY <1>1, <1>3, <1>4 DEF Carrier
<1>6. QED
    BY <1>1, <1>5, CallbackSeries

\* The pending DPC is still carried, and its driver may now be in hand.
LEMMA CountPendingSeries ==
    ASSUME IndInv, SeriesInv, CountPendingDPC
    PROVE  SeriesInv'
<1>1. /\ event \in EventRec /\ loaded \in Buffers /\ event # None
      /\ event.kind # "isr" /\ event.cpu \in CPUs /\ event.ends = 0
    BY DEF CountPendingDPC, IndInv, Shapes, EventRec
<1>2. PICK d \in DpcNumbers :
            /\ d = buffers[loaded].pending[event.cpu] /\ d # 0
            /\ buffers' = [buffers EXCEPT ![loaded].counts.executed[d] = @ + 1]
            /\ event'.ends = d /\ event'.kind = event.kind
            /\ event'.id = event.id
            /\ event'.driver = resolveDriverName(dpcs[d].driver)
    <2>1. Ended(buffers[loaded], event.cpu) \in DpcNumbers
        BY <1>1, DpcRange DEF CountPendingDPC, Ended, IndInv, Pending
    <2>2. QED
        BY <1>1, <2>1 DEF CountPendingDPC, Ended, EventRec
<1>3. UNCHANGED <<dpcs, loaded, scraping, imageTable>>
    BY DEF CountPendingDPC
<1>4. \A x \in Buffers :
        /\ buffers'[x].pending = buffers[x].pending
        /\ buffers'[x].counts.durations = buffers[x].counts.durations
    <2> DEFINE n == [buffers[loaded].counts EXCEPT !.executed[d] = @ + 1]
               a == [buffers[loaded] EXCEPT !.counts = n]
    <2>1. buffers[loaded] \in Contents /\ buffers[loaded].counts \in Count
        BY <1>1, BufferFields DEF IndInv
    <2>2. n.durations = buffers[loaded].counts.durations
        BY <2>1 DEF Count
    <2>3. a.counts = n /\ a.pending = buffers[loaded].pending
        BY <2>1 DEF Contents
    <2>4. buffers' = [buffers EXCEPT ![loaded] = a]
        BY <1>2
    <2> HIDE DEF n, a
    <2>5. QED
        BY <1>1, <2>2, <2>3, <2>4 DEF IndInv, Shapes
<1>5. \A b \in Buffers, r \in Drivers : Holds(b, r)' = Holds(b, r)
    BY <1>3, <1>4 DEF Holds
<1>6. \A r \in Drivers : HasInHand(r)' => HasInHand(r) \/ Holds(loaded, r)
    BY <1>1, <1>2, <1>3 DEF HasInHand, Holds
<1>7. \A b \in Buffers, r \in Drivers : Carrier(b, r)' => Carrier(b, r)
    BY <1>3, <1>5, <1>6 DEF Carrier
<1>8. event'.driver \in {None, dpcs'[event'.ends].driver}
    BY <1>2, <1>3 DEF resolveDriverName
<1>9. QED
    BY <1>3, <1>7, <1>8, CallbackSeries

\* What was in hand is in the buffer.
LEMMA HandleSeries ==
    ASSUME IndInv, SeriesInv, Handle
    PROVE  SeriesInv'
<1>1. /\ event # None /\ event \in EventRec /\ loaded \in Buffers
      /\ event' = None /\ loaded' = None
      /\ UNCHANGED <<isrs, dpcs, scraping, imageTable>>
    BY Handled DEF IndInv
<1>2. PICK a \in Contents :
            /\ buffers' = [buffers EXCEPT ![loaded] = a]
            /\ event.kind = "isr" => Waits(buffers[loaded], a)
            /\ event.kind # "isr" => Ends(buffers[loaded], a)
    BY Handled DEF IndInv
<1>3. /\ \A x \in Buffers : x # loaded => buffers'[x] = buffers[x]
      /\ buffers'[loaded] = a
    BY <1>1, <1>2 DEF IndInv, Shapes
<1>4. event.cpu \in CPUs /\ buffers[loaded].counts \in Count
      /\ buffers[loaded].pending \in [CPUs -> DpcNumbers \union {0}]
    BY <1>1, BufferFields DEF EventRec, IndInv
<1>6. ASSUME NEW b \in Buffers, NEW r \in Drivers, Holds(b, r)'
      PROVE  Holds(b, r) \/ (loaded = b /\ HasInHand(r))
    <2>1. CASE b # loaded
        BY <1>1, <1>3, <1>6, <2>1 DEF Holds
    <2>2. CASE b = loaded /\ event.kind = "isr"
        <3>1. a.pending = buffers[loaded].pending
              /\ a.counts.durations = buffers[loaded].counts.durations
            BY <1>2, <1>4, <2>2 DEF Waits, Count
        <3>2. QED
            BY <1>1, <1>3, <1>6, <2>2, <3>1 DEF Holds
    <2>3. CASE b = loaded /\ event.kind # "isr"
        <3>1. Ends(buffers[loaded], a)
            BY <1>2, <2>3
        <3>2. ASSUME NEW p \in a.counts.durations, p[1] = r
              PROVE  Holds(b, r) \/ HasInHand(r)
            <4>1. \/ p \in buffers[loaded].counts.durations
                  \/ event.ends # 0 /\ event.driver # None /\ event.driver = r
                BY <3>1, <3>2 DEF Ends, Recorded
            <4>2. event.ends # 0 /\ event.driver = r =>
                        dpcs[event.ends].driver = r
                BY <1>1 DEF SeriesInv, Marks
            <4>3. QED
                BY <1>1, <2>3, <3>2, <4>1, <4>2 DEF Holds, HasInHand
        <3>3. ASSUME NEW c \in CPUs, a.pending[c] # 0,
                     dpcs[a.pending[c]].driver = r
              PROVE  Holds(b, r) \/ HasInHand(r)
            <4>1. a.pending = [buffers[loaded].pending EXCEPT ![event.cpu] =
                                IF event.kind = "dpc" THEN event.id ELSE 0]
                BY <3>1 DEF Ends
            <4>2. CASE c = event.cpu
                BY <1>1, <1>4, <3>3, <4>1, <4>2 DEF HasInHand
            <4>3. CASE c # event.cpu
                BY <1>4, <2>3, <3>3, <4>1, <4>3 DEF Holds
            <4>4. QED
                BY <4>2, <4>3
        <3>4. QED
            BY <1>1, <1>3, <1>6, <2>3, <3>2, <3>3 DEF Holds
    <2>4. QED
        BY <2>1, <2>2, <2>3
<1>7. \A b \in Buffers, r \in Drivers : Carrier(b, r)' => Carrier(b, r)
    BY <1>1, <1>6 DEF Carrier, HasInHand
<1>8. QED
    BY <1>1, <1>7, CallbackSeries

\* What a step of a scrape leaves alone.
Callback == UNCHANGED <<isrs, dpcs, event, loaded>>
Images == UNCHANGED <<images, terminatedImages, scrapeCounter, bound, hasty>>

\* A scraper swaps buffers: the one swapped out may carry, the new one does not.
LEMMA SwapSeries ==
    ASSUME IndInv, SeriesInv, NEW s \in Scrapers, NEW b \in Buffers, Swap(s, b)
    PROVE  SeriesInv'
<1>1. /\ Callback /\ Images
      /\ UNCHANGED <<buffers, merged, cleaning, totals, overtaken>>
      /\ old' = [old EXCEPT ![s] = active] /\ active' = b
      /\ place[b] # "out" /\ s \notin Scraping
    BY DEF Swap, callback, imageTable, Callback, Images
<1>2. Marks'
    BY <1>1 DEF Callback, Images, SeriesInv, Marks
<1>3. /\ \A r \in Drivers : /\ Clean(r)' = Clean(r)
                            /\ MarkedBefore(r)' = MarkedBefore(r)
      /\ \A x \in Buffers, r \in Drivers : Carrier(x, r)' = Carrier(x, r)
    BY <1>1 DEF Clean, MarkedBefore, Carrier, Holds, HasInHand, Callback, Images
<1>4. ASSUME bound.atOnce = 1, Series PROVE Series'
    <2>1. Scraping = {}
        <3>1. Cardinality(Scraping) < 1
            BY <1>4 DEF Swap
        <3>2. IsFiniteSet(Scraping)
            <4>1. Scraping \subseteq Scrapers
                BY DEF Scraping
            <4>2. QED
                BY <4>1, FS_Subset
        <3>3. Cardinality(Scraping) \in Nat
            BY <3>2, FS_CardinalityType
        <3>4. Cardinality(Scraping) = 0
            BY <3>1, <3>3
        <3>5. QED
            BY <3>2, <3>4, FS_EmptySet
    <2>2. /\ \A t \in Scrapers : old[t] = None
          /\ merged = {} /\ cleaning = {}
        BY <2>1 DEF Scraping, IndInv, Shapes, Places
    <2>3. \A t \in Scrapers : old'[t] = IF t = s THEN active ELSE None
        BY <1>1, <2>2 DEF IndInv, Shapes
    <2>4. \A t \in Scraping' : t = s
        BY <1>1, <2>2, <2>3 DEF Scraping
    <2>5. \A r \in Drivers \ overtaken, x \in Buffers :
            Carrier(x, r) => x = active
        BY <1>4, <2>2 DEF Series, IndInv, Shapes
    <2>6. b # active
        BY <1>1 DEF IndInv, Places
    <2>7. \A r \in Drivers \ overtaken, x \in Buffers :
            Carrier(x, r)' => \E t \in Scrapers : old'[t] = x
        BY <1>3, <2>3, <2>5
    <2>8. \A r \in Drivers \ overtaken : ~Carrier(active, r)'
        <3>1. ASSUME NEW r \in Drivers \ overtaken PROVE ~Carrier(active, r)'
            <4>1. ~Carrier(b, r)'
                BY <1>3, <2>5, <2>6
            <4>2. Carrier(active, r)' = Carrier(b, r)'
                BY <1>1 DEF Carrier, Holds
            <4>3. QED
                BY <4>1, <4>2
        <3>2. QED
            BY <3>1
    <2>9. \A r \in Drivers \ (images \union hasty \union overtaken) :
            Clean(r)' /\ \A x \in Buffers : ~Carrier(x, r)'
        BY <1>3, <1>4 DEF Series
    <2>10. QED
        BY <1>1, <2>2, <2>4, <2>7, <2>8, <2>9 DEF Series, Images
<1>5. QED
    BY <1>1, <1>2, <1>4 DEF SeriesInv, Images

\* The old buffer's durations join the totals, without those of marked drivers.
LEMMA MergeSeries ==
    ASSUME IndInv, SeriesInv, NEW s \in Scrapers, Merge(s)
    PROVE  SeriesInv'
<1>1. /\ Callback /\ Images
      /\ UNCHANGED <<buffers, active, old, cleaning, overtaken>>
      /\ totals'.durations = Durations(buffers[old[s]].counts)
      /\ merged' = merged \union {s} /\ old[s] \in Buffers
    BY DEF Merge, callback, imageTable, Callback, Images, IndInv, Shapes
<1>2. Marks'
    BY <1>1 DEF Callback, Images, SeriesInv, Marks
<1>3. /\ \A r \in Drivers : MarkedBefore(r)' = MarkedBefore(r)
      /\ \A x \in Buffers, r \in Drivers : Carrier(x, r)' = Carrier(x, r)
      /\ \A r \in Drivers : Carrier(active, r)' = Carrier(active, r)
      /\ Scraping' = Scraping
    BY <1>1 DEF MarkedBefore, Carrier, Holds, HasInHand, Callback, Images, Scraping
<1>4. \A r \in Drivers : Clean(r) /\ ~Carrier(old[s], r) => Clean(r)'
    BY <1>1 DEF Clean, Carrier, Holds, Durations
<1>5. ASSUME NEW r \in Drivers, MarkedBefore(r)
      PROVE  Clean(r)'
    BY <1>1, <1>5
    DEF Clean, Durations, Of, GetCleanedImages, MarkedBefore, SeriesInv, Marks
<1>6. ASSUME bound.atOnce = 1, Series PROVE Series'
    <2>1. \A r \in Drivers \ overtaken, x \in Buffers :
            Carrier(x, r)' => x = active \/ \E t \in Scrapers : old[t] = x
        BY <1>3, <1>6 DEF Series
    <2>2. \A r \in Drivers \ overtaken :
            MarkedBefore(r)' /\ Scraping' # {} => ~Carrier(active, r)'
        BY <1>1, <1>3, <1>6 DEF Series
    <2>3. \A r \in Drivers \ (images \union hasty \union overtaken) :
            Clean(r)' /\ \A x \in Buffers : ~Carrier(x, r)'
        BY <1>1, <1>3, <1>4, <1>6 DEF Series
    <2>4. \A r \in Drivers : MarkedBefore(r)' => Clean(r)'
        BY <1>3, <1>5
    <2>5. \A t, q \in Scraping' : t = q
        BY <1>3, <1>6 DEF Series
    <2>6. QED
        BY <1>1, <2>1, <2>2, <2>3, <2>4, <2>5 DEF Series, Images
<1>7. QED
    BY <1>1, <1>2, <1>6 DEF SeriesInv, Images

\* A buffer is emptied: it carries nothing, but what the callback has in hand.
LEMMA EmptiedCarries ==
    ASSUME IndInv, NEW o \in Buffers, Callback,
           buffers' = [buffers EXCEPT ![o] = newMetricsBuffer]
    PROVE  /\ \A x \in Buffers, r \in Drivers : Carrier(x, r)' => Carrier(x, r)
           /\ \A r \in Drivers : Carrier(o, r)' => loaded = o /\ HasInHand(r)
<1>1. \A x \in Buffers :
        buffers'[x] = IF x = o THEN newMetricsBuffer ELSE buffers[x]
    BY DEF IndInv, Shapes
<1>2. \A x \in Buffers, r \in Drivers : Holds(x, r)' => Holds(x, r) /\ x # o
    BY <1>1, NewBuffer DEF Holds, Callback
<1>3. \A r \in Drivers : HasInHand(r)' = HasInHand(r)
    BY DEF HasInHand, Callback
<1>4. QED
    BY <1>2, <1>3 DEF Carrier, Callback

\* The old buffer is emptied and returned: it carries nothing any more, but for
\* drivers that are overtaken.
LEMMA ResetSeries ==
    ASSUME IndInv, SeriesInv, NEW s \in Scrapers, Reset(s)
    PROVE  SeriesInv'
<1>1. PICK o \in Buffers :
        /\ o = old[s] /\ o # active /\ o # None
        /\ buffers' = [buffers EXCEPT ![o] = newMetricsBuffer]
        /\ loaded = o => overtaken' = overtaken \union
                                {dpcs[d].driver : d \in InHand \ {0}}
    <2> DEFINE o == old[s]
    <2>1. s \in merged
        BY DEF Reset
    <2>2. o \in Buffers /\ o # None /\ o # active
        BY <2>1 DEF IndInv, Shapes, Places
    <2>3. /\ buffers' = [buffers EXCEPT ![o] = newMetricsBuffer]
          /\ loaded = o => overtaken' = overtaken \union
                                {dpcs[d].driver : d \in InHand \ {0}}
        BY DEF Reset
    <2>4. QED
        BY <2>2, <2>3
<1>2. /\ Callback /\ Images /\ UNCHANGED <<active, totals>>
      /\ old' = [old EXCEPT ![s] = None] /\ merged' = merged \ {s}
      /\ cleaning' = cleaning \union {s} /\ s \in merged
      /\ overtaken \subseteq overtaken'
    BY DEF Reset, callback, imageTable, Callback, Images
<1>3. Marks'
    BY <1>2 DEF Callback, Images, SeriesInv, Marks
<1>4. \A r \in Drivers : /\ Clean(r)' = Clean(r)
                         /\ MarkedBefore(r)' = MarkedBefore(r)
    BY <1>2 DEF Clean, MarkedBefore, Images
<1>5. /\ \A x \in Buffers, r \in Drivers : Carrier(x, r)' => Carrier(x, r)
      /\ \A r \in Drivers : Carrier(o, r)' => loaded = o /\ HasInHand(r)
    BY <1>1, <1>2, EmptiedCarries
<1>6. \A r \in Drivers \ overtaken' : ~Carrier(o, r)'
    <2>1. event # None /\ event.kind = "dpc" => event.id \in InHand \ {0}
        BY DpcRange DEF IndInv, Pending, InHand, DpcNumbers
    <2>2. event # None /\ event.ends # 0 => event.ends \in InHand \ {0}
        BY DEF InHand
    <2>3. \A r \in Drivers : loaded = o /\ HasInHand(r) => r \in overtaken'
        BY <1>1, <2>1, <2>2 DEF HasInHand
    <2>4. QED
        BY <1>5, <2>3
<1>7. \A t \in Scrapers : old'[t] = IF t = s THEN None ELSE old[t]
    BY <1>2 DEF IndInv, Shapes
<1>8. Scraping' = Scraping
    <2>1. s \in Scraping /\ s \in Scrapers
        BY <1>1 DEF Scraping
    <2>2. \A t \in Scrapers : t \in Scraping' <=> t \in Scraping
        BY <1>2, <1>7, <2>1 DEF Scraping
    <2>3. QED
        BY <2>2 DEF Scraping
<1>9. ASSUME bound.atOnce = 1, Series PROVE Series'
    <2>1. \A r \in Drivers \ overtaken', x \in Buffers :
            Carrier(x, r)' => x = active \/ \E t \in Scrapers : old'[t] = x
        <3>1. ASSUME NEW r \in Drivers \ overtaken', NEW x \in Buffers,
                     Carrier(x, r)'
              PROVE  x = active \/ \E t \in Scrapers : old[t] = x /\ t # s
            BY <1>1, <1>2, <1>5, <1>6, <1>9, <3>1 DEF Series
        <3>2. QED
            BY <1>7, <3>1
    <2>2. \A r \in Drivers \ overtaken' :
            MarkedBefore(r)' /\ Scraping' # {} => ~Carrier(active, r)'
        <3>1. ASSUME NEW r \in Drivers \ overtaken', MarkedBefore(r)',
                     Scraping' # {}, NEW x \in Buffers, x = active
              PROVE  ~Carrier(x, r)'
            BY <1>2, <1>4, <1>5, <1>8, <1>9, <3>1 DEF Series
        <3>2. \A r \in Drivers : \A x \in Buffers : x = active =>
                Carrier(active, r)' = Carrier(x, r)'
            BY <1>2 DEF Carrier, Holds
        <3>3. active \in Buffers
            BY DEF IndInv, Shapes
        <3>4. QED
            BY <3>1, <3>2, <3>3
    <2>3. \A r \in Drivers : MarkedBefore(r)' => Clean(r)'
        BY <1>2, <1>4, <1>9 DEF Series
    <2>4. \A r \in Drivers \ (images \union hasty \union overtaken') :
            Clean(r)' /\ \A x \in Buffers : ~Carrier(x, r)'
        BY <1>2, <1>4, <1>5, <1>9 DEF Series
    <2>5. \A t, q \in Scraping' : t = q
        BY <1>8, <1>9 DEF Series
    <2>6. QED
        BY <1>2, <2>1, <2>2, <2>3, <2>4, <2>5 DEF Series, Images
<1>10. QED
    BY <1>2, <1>3, <1>9 DEF SeriesInv, Images

\* A pooled buffer is dropped.
LEMMA PoolDropsSeries ==
    ASSUME IndInv, SeriesInv, NEW b \in Buffers, PoolDrops(b)
    PROVE  SeriesInv'
<1>1. /\ Callback /\ Images
      /\ UNCHANGED <<active, old, merged, cleaning, totals, overtaken>>
      /\ buffers' = [buffers EXCEPT ![b] = newMetricsBuffer]
    BY DEF PoolDrops, callback, imageTable, Callback, Images
<1>2. Marks'
    BY <1>1 DEF Callback, Images, SeriesInv, Marks
<1>3. /\ \A r \in Drivers : /\ Clean(r)' = Clean(r)
                            /\ MarkedBefore(r)' = MarkedBefore(r)
      /\ Scraping' = Scraping
    BY <1>1 DEF Clean, MarkedBefore, Images, Scraping
<1>4. \A x \in Buffers, r \in Drivers : Carrier(x, r)' => Carrier(x, r)
    BY <1>1, EmptiedCarries
<1>5. \A r \in Drivers : Carrier(active, r)' => Carrier(active, r)
    <2>1. \A r \in Drivers : \A x \in Buffers : x = active =>
            Carrier(active, r)' = Carrier(x, r)'
        BY <1>1 DEF Carrier, Holds
    <2>2. QED
        BY <1>4, <2>1 DEF IndInv, Shapes
<1>6. Series => Series'
    BY <1>1, <1>3, <1>4, <1>5 DEF Series, Images
<1>7. QED
    BY <1>1, <1>2, <1>6 DEF SeriesInv, Images

\* An image is marked with the generation of the scrape that goes on.
LEMMA UnloadSeries ==
    ASSUME IndInv, SeriesInv, NEW q \in Drivers, UnloadImage(q)
    PROVE  SeriesInv'
<1>1. /\ Callback
      /\ UNCHANGED <<buffers, active, old, merged, cleaning, totals, overtaken,
                     images, scrapeCounter, bound, hasty>>
      /\ terminatedImages' = [terminatedImages EXCEPT ![q] = scrapeCounter]
      /\ q \in images
    BY DEF UnloadImage, callback, scraping, Callback
<1>2. \A r \in Drivers : terminatedImages'[r] =
                IF r = q THEN scrapeCounter ELSE terminatedImages[r]
    BY <1>1 DEF SeriesInv, Marks
<1>3. Marks'
    BY <1>1, <1>2 DEF Callback, SeriesInv, Marks
<1>4. /\ \A r \in Drivers : Clean(r)' = Clean(r)
      /\ \A r \in Drivers : MarkedBefore(r)' => MarkedBefore(r)
      /\ \A x \in Buffers, r \in Drivers : Carrier(x, r)' = Carrier(x, r)
      /\ \A r \in Drivers : Carrier(active, r)' = Carrier(active, r)
      /\ Scraping' = Scraping
    BY <1>1, <1>2 DEF SeriesInv, Marks, Clean, MarkedBefore, Carrier, Holds,
       HasInHand, Callback, Scraping
<1>5. Series => Series'
    BY <1>1, <1>4 DEF Series
<1>6. QED
    BY <1>1, <1>3, <1>5 DEF SeriesInv

\* The scrape is over: nothing is left of a driver that is removed, unless it
\* was marked during the scrape.
LEMMA CleanupSeries ==
    ASSUME IndInv, SeriesInv, NEW s \in Scrapers, PostScrapeCleanup(s)
    PROVE  SeriesInv'
<1>1. /\ Callback /\ s \in cleaning /\ cleaning' = cleaning \ {s}
      /\ UNCHANGED <<buffers, active, old, merged, totals, overtaken, bound>>
      /\ scrapeCounter' = scrapeCounter + 1
    BY DEF PostScrapeCleanup, callback, Callback
<1>2. PICK cleanupThreshold \in 0 .. scrapeCounter + 1 :
        LET gone == {r \in GetCleanedImages :
                        terminatedImages[r] < cleanupThreshold}
        IN  /\ images' = images \ gone
            /\ terminatedImages' = [r \in Drivers |->
                    IF r \in gone THEN None ELSE terminatedImages[r]]
            /\ hasty' = hasty \union
                    {r \in gone : terminatedImages[r] = scrapeCounter}
    BY DEF PostScrapeCleanup
<1>3. PICK gone \in SUBSET GetCleanedImages :
        /\ images' = images \ gone
        /\ terminatedImages' = [r \in Drivers |->
                IF r \in gone THEN None ELSE terminatedImages[r]]
        /\ hasty' = hasty \union
                {r \in gone : terminatedImages[r] = scrapeCounter}
    BY <1>2
<1>4. Marks'
    BY <1>1, <1>3 DEF Callback, SeriesInv, Marks
<1>5. /\ \A r \in Drivers : Clean(r)' = Clean(r)
      /\ \A x \in Buffers, r \in Drivers : Carrier(x, r)' = Carrier(x, r)
    BY <1>1 DEF Clean, Carrier, Holds, HasInHand, Callback
<1>6. ASSUME bound.atOnce = 1, Series PROVE Series'
    <2>1. Scraping = {s}
        BY <1>1, <1>6 DEF Series, Scraping, IndInv, Shapes
    <2>2. /\ merged = {} /\ cleaning = {s}
          /\ \A t \in Scrapers : old[t] = None
        <3>1. old[s] = None
            BY <1>1 DEF IndInv, Places
        <3>2. \A t \in Scrapers : t # s => t \notin cleaning /\ old[t] = None
            BY <2>1 DEF Scraping
        <3>3. QED
            BY <1>1, <3>1, <3>2 DEF IndInv, Shapes, Places
    <2>3. Scraping' = {} /\ merged' \union cleaning' = {}
        BY <1>1, <2>2 DEF Scraping
    <2>4. \A r \in Drivers \ overtaken :
            MarkedBefore(r) => Clean(r) /\ \A x \in Buffers : ~Carrier(x, r)
        BY <1>6, <2>1, <2>2 DEF Series, IndInv, Shapes
    <2>5. ASSUME NEW r \in Drivers \ (images' \union hasty' \union overtaken)
          PROVE  Clean(r)' /\ \A x \in Buffers : ~Carrier(x, r)'
        <3>1. CASE r \in images
            <4>1. MarkedBefore(r)
                BY <1>3, <2>5, <3>1
                DEF SeriesInv, Marks, GetCleanedImages, MarkedBefore
            <4>2. QED
                BY <1>5, <2>4, <4>1
        <3>2. CASE r \notin images
            BY <1>3, <1>5, <1>6, <2>5, <3>2 DEF Series
        <3>3. QED
            BY <3>1, <3>2
    <2>6. \A r \in Drivers \ overtaken, x \in Buffers :
            Carrier(x, r)' => x = active
        BY <1>5, <1>6, <2>2 DEF Series, IndInv, Shapes
    <2>7. QED
        BY <1>1, <2>3, <2>5, <2>6 DEF Series
<1>7. QED
    BY <1>1, <1>4, <1>6 DEF SeriesInv

\* No step breaks it.
LEMMA NextSeries == ASSUME IndInv, SeriesInv, [Next]_vars PROVE SeriesInv'
<1>1. ASSUME UNCHANGED vars PROVE SeriesInv'
    <2>1. Callback /\ Images /\ UNCHANGED <<buffers, scraping, imageTable>>
        BY <1>1 DEF vars, callback, imageTable, Callback, Images
    <2>2. \A x \in Buffers, r \in Drivers : Carrier(x, r)' = Carrier(x, r)
        BY <2>1 DEF Carrier, Holds, HasInHand, Callback
    <2>3. event' # None /\ event'.ends # 0 =>
                event'.driver \in {None, dpcs'[event'.ends].driver}
        BY <2>1 DEF Callback, SeriesInv, Marks
    <2>4. QED
        BY <2>1, <2>2, <2>3, CallbackSeries
<1>2. ASSUME Next PROVE SeriesInv'
    BY <1>2, EventSeries, UnloadSeries, CountPendingSeries, HandleSeries,
       SwapSeries, MergeSeries, ResetSeries, PoolDropsSeries, CleanupSeries
    DEF Next
<1>3. QED
    BY <1>1, <1>2

\* Collect, UnloadImage and PostScrapeCleanup: for any number of CPUs, buffers and
\* drivers, when scrapes do not overlap and the cleanup does not remove an image
\* in the generation of its unload, the mark by which the durations of a driver
\* are pruned outlives the last of them, wherever they are and whatever the
\* callback still writes, unless it had a DPC of the driver in hand while a
\* buffer was merged and emptied under it.
THEOREM SeriesGone == Spec => []SeriesGoWithDriver
<1> DEFINE Inv == IndInv /\ SeriesInv
<1>1. Init => Inv
    BY InitInv, InitSeries
<1>2. Inv /\ [Next]_vars => Inv'
    BY NextInv, NextSeries
<1>3. Inv => SeriesGoWithDriver
    <2>1. ASSUME Inv, bound.atOnce = 1,
                 NEW r \in Drivers \ (images \union hasty \union overtaken),
                 NEW n \in Counts, NEW p \in n.durations, p[1] = r
          PROVE  FALSE
        <3>1. Clean(r) /\ \A b \in Buffers : ~Carrier(b, r)
            BY <2>1 DEF SeriesInv, Series
        <3>2. CASE n = totals
            BY <2>1, <3>1, <3>2 DEF Clean
        <3>3. CASE \E b \in Buffers : n = buffers[b].counts
            BY <2>1, <3>1, <3>3 DEF Carrier, Holds
        <3>4. QED
            BY <3>2, <3>3 DEF Counts, Uncounted
    <2>2. QED
        BY <2>1 DEF SeriesGoWithDriver, Of
<1>4. QED
    BY <1>1, <1>2, <1>3, PTL DEF Spec

-----------------------------------------------------------------------------
(* What scrapes lose.  The buffers that are safe are those whose counts      *)
(* reach the totals: the active one, and those that scrapers have swapped    *)
(* out and are yet to merge.  What is in neither, nor on its way into the    *)
(* active buffer, may be lost, and only a swap makes there be more of it.    *)

Safe == {b \in Buffers : place[b] = "out" /\ \A s \in merged : old[s] # b}
InActive(kind, id) == Handling(kind, id) /\ loaded = active
SpiltDpcs ==
    {d \in Dpcs : /\ totals.executed[d] = 0
                  /\ \A b \in Safe : buffers[b].counts.executed[d] = 0
                  /\ \A c \in CPUs : buffers[active].pending[c] # d
                  /\ ~InActive("dpc", d)}
SpiltIsrs ==
    {i \in Isrs : /\ i \notin totals.queued
                  /\ \A b \in Safe : i \notin buffers[b].counts.queued
                  /\ ~InActive("isr", i)}

\* A DPC that is about to be cleared has been counted in the same buffer.
BeingCounted ==
    event # None /\ event.ends # 0
    /\ buffers[loaded].pending[event.cpu] = event.ends
        => buffers[loaded].counts.executed[event.ends] > 0

LossInv ==
    /\ scrapes \in Nat /\ BeingCounted
    /\ Cardinality(SpiltDpcs) <= scrapes * (Cardinality(CPUs) + 1)
    /\ Cardinality(SpiltIsrs) <= scrapes

\* What may be lost can be counted.
LEMMA SpiltFinite ==
    ASSUME Shapes
    PROVE  /\ IsFiniteSet(SpiltDpcs) /\ Cardinality(SpiltDpcs) \in Nat
           /\ IsFiniteSet(SpiltIsrs) /\ Cardinality(SpiltIsrs) \in Nat
<1>1. IsFiniteSet(Dpcs) /\ IsFiniteSet(Isrs)
    BY DpcRange, FS_Interval
<1>2. SpiltDpcs \in SUBSET Dpcs /\ SpiltIsrs \in SUBSET Isrs
    BY DEF SpiltDpcs, SpiltIsrs
<1>3. IsFiniteSet(SpiltDpcs) /\ IsFiniteSet(SpiltIsrs)
    BY <1>1, <1>2, FS_Subset
<1>4. QED
    BY <1>3, FS_CardinalityType

\* A step that is no swap leaves nothing more to be lost.
LEMMA NothingMoreSpilt ==
    ASSUME IndInv, LossInv, scrapes' = scrapes, BeingCounted',
           SpiltDpcs' \subseteq SpiltDpcs, SpiltIsrs' \subseteq SpiltIsrs
    PROVE  LossInv'
<1>1. /\ IsFiniteSet(SpiltDpcs) /\ Cardinality(SpiltDpcs) \in Nat
      /\ IsFiniteSet(SpiltIsrs) /\ Cardinality(SpiltIsrs) \in Nat
    BY SpiltFinite DEF IndInv
<1>2. SpiltDpcs' \in SUBSET SpiltDpcs /\ SpiltIsrs' \in SUBSET SpiltIsrs
    OBVIOUS
<1>3. IsFiniteSet(SpiltDpcs') /\ Cardinality(SpiltDpcs') <= Cardinality(SpiltDpcs)
    BY <1>1, <1>2, FS_Subset
<1>4. IsFiniteSet(SpiltIsrs') /\ Cardinality(SpiltIsrs') <= Cardinality(SpiltIsrs)
    BY <1>1, <1>2, FS_Subset
<1>5. Cardinality(SpiltDpcs') \in Nat /\ Cardinality(SpiltIsrs') \in Nat
    BY <1>3, <1>4, FS_CardinalityType
<1>6. Cardinality(CPUs) \in Nat
    BY CPUsAssumption, FS_CardinalityType
<1> DEFINE n == scrapes * (Cardinality(CPUs) + 1)
<1>7. n \in Nat /\ Cardinality(SpiltDpcs) <= n /\ Cardinality(SpiltIsrs) <= scrapes
    BY <1>6 DEF LossInv
<1> HIDE DEF n
<1>8. Cardinality(SpiltDpcs') <= n
    BY <1>1, <1>3, <1>5, <1>7
<1>9. Cardinality(SpiltIsrs') <= scrapes
    BY <1>1, <1>4, <1>5, <1>7 DEF LossInv
<1>10. scrapes' \in Nat
    BY DEF LossInv
<1>11. QED
    BY <1>8, <1>9, <1>10 DEF LossInv, n

\* Nothing is lost at first.
LEMMA InitLoss == ASSUME Init PROVE LossInv
<1>1. isrs = <<>> /\ dpcs = <<>> /\ event = None /\ scrapes = 0
    BY DEF Init
<1>2. Dpcs = {} /\ Isrs = {}
    BY <1>1 DEF Dpcs, Isrs
<1>3. SpiltDpcs = {} /\ SpiltIsrs = {}
    BY <1>2 DEF SpiltDpcs, SpiltIsrs
<1>4. Cardinality(SpiltDpcs) = 0 /\ Cardinality(SpiltIsrs) = 0
    BY <1>3, FS_EmptySet
<1>5. Cardinality(CPUs) \in Nat
    BY CPUsAssumption, FS_CardinalityType
<1>6. 0 * (Cardinality(CPUs) + 1) = 0
    BY <1>5
<1>7. BeingCounted
    BY <1>1 DEF BeingCounted
<1>8. QED
    BY <1>1, <1>4, <1>6, <1>7 DEF LossInv

\* An event comes while the callback has none; it is on its way into the active
\* buffer.
LEMMA EventLoss ==
    ASSUME IndInv, LossInv, NEW c \in CPUs,
           ISREvent(c) \/ DPCEvent(c) \/ CSwitchEvent(c)
    PROVE  LossInv'
<1>1. /\ event = None /\ loaded' = active
      /\ UNCHANGED <<buffers, place, active, old, merged, totals, scrapes>>
    BY DEF ISREvent, DPCEvent, CSwitchEvent, Load, scraping
<1>2. /\ Dpcs = 1 .. Len(dpcs) /\ Isrs = 1 .. Len(isrs)
      /\ isrs \in Seq(CPUs) /\ Len(dpcs) \in Nat /\ Len(isrs) \in Nat
      /\ dpcs \in Seq([cpu : CPUs, seen : Nat, driver : AnyDriver])
    BY DpcRange DEF IndInv, Shapes
<1>3. /\ event' # None /\ event'.ends = 0
      /\ \A d \in Dpcs' : d \in Dpcs \/ (event'.kind = "dpc" /\ event'.id = d)
      /\ \A i \in Isrs' : i \in Isrs \/ (event'.kind = "isr" /\ event'.id = i)
    <2>1. ASSUME NEW k \in {"isr", "dpc", "cswitch"}, NEW id \in Nat
          PROVE  /\ Event(k, c, id) \in EventRec
                 /\ Event(k, c, id).ends = 0
                 /\ Event(k, c, id).kind = k /\ Event(k, c, id).id = id
        BY <2>1 DEF Event, EventRec, AnyDriver
    <2>2. CASE ISREvent(c)
        <3>1. /\ isrs' = Append(isrs, c) /\ dpcs' = dpcs
              /\ event' = Event("isr", c, Len(isrs) + 1)
            BY <2>2 DEF ISREvent, Load
        <3>2. Isrs' = 1 .. Len(isrs) + 1 /\ Dpcs' = Dpcs
            BY <1>2, <3>1 DEF Isrs, Dpcs
        <3>3. \A i \in Isrs' : i \in Isrs \/ i = Len(isrs) + 1
            BY <1>2, <3>2
        <3>4. /\ event' \in EventRec /\ event'.ends = 0
              /\ event'.kind = "isr" /\ event'.id = Len(isrs) + 1
            BY <1>2, <3>1, <2>1
        <3>5. event' # None
            BY <3>4, EventsAreRecords
        <3>6. QED
            BY <3>2, <3>3, <3>4, <3>5
    <2>3. CASE DPCEvent(c)
        <3>1. PICK seen \in 0 .. Len(isrs), r \in bound.drivers :
                    dpcs' = Append(dpcs, [cpu |-> c, seen |-> seen, driver |-> r])
            BY <2>3 DEF DPCEvent
        <3>2. isrs' = isrs /\ event' = Event("dpc", c, Len(dpcs) + 1)
            BY <2>3 DEF DPCEvent, Load
        <3>3. Dpcs' = 1 .. Len(dpcs) + 1 /\ Isrs' = Isrs
            BY <1>2, <3>1, <3>2 DEF Isrs, Dpcs
        <3>4. \A d \in Dpcs' : d \in Dpcs \/ d = Len(dpcs) + 1
            BY <1>2, <3>3
        <3>5. /\ event' \in EventRec /\ event'.ends = 0
              /\ event'.kind = "dpc" /\ event'.id = Len(dpcs) + 1
            BY <1>2, <3>2, <2>1
        <3>6. event' # None
            BY <3>5, EventsAreRecords
        <3>7. QED
            BY <3>3, <3>4, <3>5, <3>6
    <2>4. CASE CSwitchEvent(c)
        <3>1. /\ isrs' = isrs /\ dpcs' = dpcs
              /\ event' = Event("cswitch", c, 0)
            BY <2>4 DEF CSwitchEvent, Load
        <3>2. Dpcs' = Dpcs /\ Isrs' = Isrs
            BY <3>1 DEF Isrs, Dpcs
        <3>3. /\ event' \in EventRec /\ event'.ends = 0
              /\ event'.kind = "cswitch" /\ event'.id = 0
            BY <1>2, <3>1, <2>1
        <3>4. event' # None
            BY <3>3, EventsAreRecords
        <3>5. QED
            BY <3>2, <3>3, <3>4
    <2>5. QED
        BY <2>2, <2>3, <2>4
<1>4. Safe' = Safe
    BY <1>1 DEF Safe
<1>5. \A d \in Dpcs' : ~InActive("dpc", d)' => d \in Dpcs
    BY <1>1, <1>3 DEF InActive, Handling
<1>6. \A i \in Isrs' : ~InActive("isr", i)' => i \in Isrs
    BY <1>1, <1>3 DEF InActive, Handling
<1>7. \A k, id : ~InActive(k, id)
    BY <1>1 DEF InActive, Handling
<1>8. SpiltDpcs' \subseteq SpiltDpcs
    BY <1>1, <1>4, <1>5, <1>7 DEF SpiltDpcs
<1>9. SpiltIsrs' \subseteq SpiltIsrs
    BY <1>1, <1>4, <1>6, <1>7 DEF SpiltIsrs
<1>10. BeingCounted'
    BY <1>3 DEF BeingCounted
<1>11. QED
    BY <1>1, <1>8, <1>9, <1>10, NothingMoreSpilt

\* What CountPendingDPC does.
LEMMA PendingCounted ==
    ASSUME IndInv, CountPendingDPC
    PROVE  /\ event # None /\ loaded \in Buffers
           /\ event' \in EventRec
           /\ event'.kind = event.kind /\ event'.id = event.id
           /\ event'.cpu = event.cpu /\ event'.ends \in DpcNumbers
           /\ buffers'[loaded].counts.executed[event'.ends] > 0
           /\ \A x \in Buffers :
                /\ buffers'[x].pending = buffers[x].pending
                /\ buffers'[x].counts.queued = buffers[x].counts.queued
                /\ \A y \in DpcNumbers :
                        buffers'[x].counts.executed[y] = 0 =>
                            buffers[x].counts.executed[y] = 0
<1> DEFINE b == buffers[loaded]
           e == b.counts.executed
<1>1. /\ event \in EventRec /\ loaded \in Buffers /\ event # None
      /\ event.kind # "isr" /\ event.ends = 0 /\ event.cpu \in CPUs
    BY DEF CountPendingDPC, IndInv, Shapes, EventRec
<1>2. PICK d \in Dpcs : d = Ended(b, event.cpu) /\ d # 0
    BY <1>1 DEF CountPendingDPC, Ended, IndInv, Pending
<1>3. d \in DpcNumbers /\ dpcs[d].driver \in AnyDriver
    BY <1>2, DpcRange, EventsAreRecords DEF IndInv
<1> DEFINE more == [e EXCEPT ![d] = @ + 1]
           n == [b.counts EXCEPT !.executed = more]
           a == [b EXCEPT !.counts = n]
<1>4. buffers' = [buffers EXCEPT ![loaded].counts.executed[d] = @ + 1]
    BY <1>2 DEF CountPendingDPC
<1>5. event' = [event EXCEPT !.ends = d,
                             !.driver = resolveDriverName(dpcs[d].driver)]
    BY <1>2 DEF CountPendingDPC
<1>6. resolveDriverName(dpcs[d].driver) \in AnyDriver
    BY <1>3 DEF resolveDriverName, AnyDriver
<1>7. /\ event' \in EventRec /\ event'.ends = d
      /\ event'.kind = event.kind /\ event'.id = event.id
      /\ event'.cpu = event.cpu
    BY <1>1, <1>3, <1>5, <1>6 DEF EventRec
<1>8. /\ b \in Contents /\ b.counts \in Count
      /\ e \in [DpcNumbers -> Nat]
    BY <1>1, BufferFields DEF IndInv, Count
<1>9. buffers' = [buffers EXCEPT ![loaded] = a]
    BY <1>1, <1>4
<1>10. /\ more[d] > 0
       /\ \A y \in DpcNumbers : more[y] = 0 => e[y] = 0
    BY <1>3, <1>8
<1> HIDE DEF more
<1>11. n.executed = more /\ n.queued = b.counts.queued
    BY <1>8 DEF Count
<1> HIDE DEF n
<1>12. a.counts = n /\ a.pending = b.pending
    BY <1>8 DEF Contents
<1> HIDE DEF a
<1>13. buffers'[loaded] = a /\ \A x \in Buffers : x # loaded => buffers'[x] = buffers[x]
    BY <1>1, <1>9 DEF IndInv, Shapes
<1>14. /\ event'.ends \in DpcNumbers
       /\ buffers'[loaded].counts.executed[event'.ends] > 0
    BY <1>3, <1>7, <1>10, <1>11, <1>12, <1>13
<1>15. ASSUME NEW x \in Buffers
       PROVE  /\ buffers'[x].pending = buffers[x].pending
              /\ buffers'[x].counts.queued = buffers[x].counts.queued
              /\ \A y \in DpcNumbers :
                    buffers'[x].counts.executed[y] = 0 =>
                        buffers[x].counts.executed[y] = 0
    <2>1. CASE x = loaded
        BY <1>10, <1>11, <1>12, <1>13, <2>1
    <2>2. CASE x # loaded
        BY <1>13, <2>2
    <2>3. QED
        BY <2>1, <2>2
<1>16. QED
    BY <1>1, <1>7, <1>14, <1>15

\* A DPC is counted where it is pending: in a safe buffer, if it was.
LEMMA CountPendingLoss ==
    ASSUME IndInv, LossInv, CountPendingDPC
    PROVE  LossInv'
<1>1. UNCHANGED <<isrs, dpcs, loaded, place, active, old, merged, totals,
                  scrapes>>
    BY DEF CountPendingDPC, scraping
<1>2. /\ event # None /\ event' # None
      /\ event'.kind = event.kind /\ event'.id = event.id
      /\ buffers'[loaded].counts.executed[event'.ends] > 0
    BY PendingCounted, EventsAreRecords
<1>3. \A x \in Buffers :
        /\ buffers'[x].pending = buffers[x].pending
        /\ buffers'[x].counts.queued = buffers[x].counts.queued
        /\ \A y \in DpcNumbers : buffers'[x].counts.executed[y] = 0 =>
                                    buffers[x].counts.executed[y] = 0
    BY PendingCounted
<1>4. Safe' = Safe /\ Dpcs' = Dpcs /\ Isrs' = Isrs /\ Safe \subseteq Buffers
    BY <1>1 DEF Safe, Dpcs, Isrs
<1>5. \A k, id : InActive(k, id)' = InActive(k, id)
    BY <1>1, <1>2 DEF InActive, Handling
<1>6. active \in Buffers /\ Dpcs \subseteq DpcNumbers
    BY DpcRange DEF IndInv, Shapes
<1>7. SpiltDpcs' \subseteq SpiltDpcs
    BY <1>1, <1>3, <1>4, <1>5, <1>6 DEF SpiltDpcs
<1>8. SpiltIsrs' \subseteq SpiltIsrs
    BY <1>1, <1>3, <1>4, <1>5 DEF SpiltIsrs
<1>9. BeingCounted'
    BY <1>1, <1>2 DEF BeingCounted
<1>10. QED
    BY <1>1, <1>7, <1>8, <1>9, NothingMoreSpilt

\* An event is handled: an ISR or DPC on its way into the active buffer gets
\* there, and what it ends has been counted there.
LEMMA HandleLoss ==
    ASSUME IndInv, LossInv, Handle
    PROVE  LossInv'
<1>1. PICK a \in Contents :
        /\ buffers' = [buffers EXCEPT ![loaded] = a]
        /\ event.kind = "isr" => Waits(buffers[loaded], a)
        /\ event.kind # "isr" => Ends(buffers[loaded], a)
    BY Handled DEF IndInv
<1>2. /\ event # None /\ event \in EventRec /\ loaded \in Buffers
      /\ event' = None /\ event.cpu \in CPUs
      /\ UNCHANGED <<isrs, dpcs, place, active, old, merged, totals, scrapes>>
    BY Handled DEF IndInv, EventRec, scraping
<1> DEFINE b == buffers[loaded]
<1>3. /\ b \in Contents /\ b.counts \in Count
      /\ b.pending \in [CPUs -> DpcNumbers \union {0}]
    BY <1>2, BufferFields DEF IndInv
<1>4. a.counts.executed = b.counts.executed
    BY <1>1, <1>3 DEF Waits, Ends, Count
<1>5. /\ b.counts.queued \subseteq a.counts.queued
      /\ event.kind = "isr" => event.id \in a.counts.queued
    BY <1>1, <1>3 DEF Waits, Ends, Count
<1>6. /\ buffers'[loaded] = a
      /\ \A x \in Buffers : x # loaded => buffers'[x] = buffers[x]
    BY <1>1, <1>2 DEF IndInv, Shapes
<1>7. Safe' = Safe /\ Dpcs' = Dpcs /\ Isrs' = Isrs /\ Safe \subseteq Buffers
    BY <1>2 DEF Safe, Dpcs, Isrs
<1>8. loaded = active => loaded \in Safe
    BY <1>2 DEF Safe, IndInv, Shapes, Places
<1>9. \A x \in Buffers :
        /\ buffers'[x].counts.executed = buffers[x].counts.executed
        /\ buffers[x].counts.queued \subseteq buffers'[x].counts.queued
    BY <1>4, <1>5, <1>6
<1>10. SpiltIsrs' \subseteq SpiltIsrs
    <2>1. ASSUME NEW i \in SpiltIsrs'
          PROVE  ~InActive("isr", i)
        <3>1. SUFFICES ASSUME event.kind = "isr", event.id = i, loaded = active
                       PROVE  FALSE
            BY DEF InActive, Handling
        <3>2. i \in buffers'[loaded].counts.queued
            BY <1>5, <1>6, <3>1
        <3>3. QED
            BY <1>7, <1>8, <2>1, <3>1, <3>2 DEF SpiltIsrs
    <2>2. QED
        BY <1>2, <1>7, <1>9, <2>1 DEF SpiltIsrs
<1>11. ASSUME NEW d \in SpiltDpcs'
       PROVE  d \in SpiltDpcs
    <2>1. /\ d \in Dpcs /\ totals.executed[d] = 0
          /\ \A x \in Safe : buffers[x].counts.executed[d] = 0
          /\ \A c \in CPUs : buffers'[active].pending[c] # d
        BY <1>2, <1>7, <1>9 DEF SpiltDpcs
    <2>2. d # 0
        BY <2>1, DpcRange DEF IndInv, DpcNumbers
    <2>3. CASE loaded # active
        <3>1. buffers'[active] = buffers[active]
            BY <1>6, <2>3 DEF IndInv, Shapes
        <3>2. QED
            BY <2>1, <2>3, <3>1 DEF SpiltDpcs, InActive
    <2>4. CASE loaded = active /\ event.kind = "isr"
        <3>1. buffers'[active].pending = buffers[active].pending
            BY <1>1, <1>6, <2>4 DEF Waits
        <3>2. QED
            BY <2>1, <2>4, <3>1 DEF SpiltDpcs, InActive, Handling
    <2>5. CASE loaded = active /\ event.kind # "isr"
        <3>1. a.pending = [b.pending EXCEPT ![event.cpu] =
                                IF event.kind = "dpc" THEN event.id ELSE 0]
            BY <1>1, <2>5 DEF Ends
        <3>2. a.pending[event.cpu] = IF event.kind = "dpc" THEN event.id ELSE 0
            BY <1>2, <1>3, <3>1
        <3>3. \A c \in CPUs : c # event.cpu => a.pending[c] = b.pending[c]
            BY <1>2, <1>3, <3>1
        <3>4. ~InActive("dpc", d)
            BY <1>2, <1>6, <2>1, <2>5, <3>2 DEF InActive, Handling
        <3>5. b.pending[event.cpu] # d
            <4>1. SUFFICES ASSUME b.pending[event.cpu] = d PROVE FALSE
                OBVIOUS
            <4>2. event.ends # 0
                BY <2>2, <2>5, <4>1 DEF Handle, Ended
            <4>3. event.ends = d
                BY <1>2, <2>2, <4>1, <4>2 DEF IndInv, Pending
            <4>4. buffers[loaded].counts.executed[d] > 0
                BY <1>2, <4>1, <4>2, <4>3 DEF LossInv, BeingCounted
            <4>5. buffers[loaded].counts.executed[d] = 0
                BY <1>8, <2>1, <2>5
            <4>6. QED
                BY <4>4, <4>5
        <3>6. \A c \in CPUs : buffers[active].pending[c] # d
            BY <1>6, <2>1, <2>5, <3>3, <3>5
        <3>7. QED
            BY <2>1, <3>4, <3>6 DEF SpiltDpcs
    <2>6. QED
        BY <2>3, <2>4, <2>5
<1>12. SpiltDpcs' \subseteq SpiltDpcs
    BY <1>11
<1>13. BeingCounted'
    BY <1>2 DEF BeingCounted
<1>14. QED
    BY <1>2, <1>10, <1>12, <1>13, NothingMoreSpilt

\* A swap: what was pending in the buffer that is swapped out, one DPC on each
\* CPU, may be lost, and so may the one event that was on its way into it.
LEMMA SwapLoss ==
    ASSUME IndInv, LossInv, NEW s \in Scrapers, NEW b \in Buffers, Swap(s, b)
    PROVE  LossInv'
<1>1. /\ scrapes' = scrapes + 1 /\ active' = b
      /\ old' = [old EXCEPT ![s] = active]
      /\ place' = [place EXCEPT ![b] = "out"]
      /\ UNCHANGED <<isrs, dpcs, event, loaded, buffers, merged, totals>>
    BY DEF Swap, callback
<1>2. s \notin merged
    BY DEF Swap, Scraping, IndInv, Places, Shapes
<1>3. Safe \subseteq Safe' /\ Dpcs' = Dpcs /\ Isrs' = Isrs
    <2>1. ASSUME NEW x \in Safe PROVE x \in Safe'
        <3>1. place'[x] = "out"
            BY <1>1 DEF Safe, IndInv, Shapes
        <3>2. \A r \in merged : old'[r] = old[r]
            BY <1>1, <1>2 DEF IndInv, Shapes
        <3>3. QED
            BY <1>1, <3>1, <3>2 DEF Safe
    <2>2. QED
        BY <1>1, <2>1 DEF Dpcs, Isrs
<1> DEFINE pending == [c \in CPUs |-> buffers[active].pending[c]]
           cut == {pending[c] : c \in CPUs}
<1>4. IsFiniteSet(cut) /\ Cardinality(cut) <= Cardinality(CPUs)
    <2>1. pending \in Surjection(CPUs, cut)
        BY DEF Surjection
    <2> HIDE DEF pending, cut
    <2>2. QED
        BY <2>1, CPUsAssumption, FS_Surjection
<1>5. SpiltDpcs' \subseteq (SpiltDpcs \union cut) \union {event.id}
    <2>1. ASSUME NEW d \in SpiltDpcs', d \notin cut, d # event.id
          PROVE  d \in SpiltDpcs
        <3>1. /\ d \in Dpcs /\ totals.executed[d] = 0
              /\ \A x \in Safe : buffers[x].counts.executed[d] = 0
            BY <1>1, <1>3 DEF SpiltDpcs
        <3>2. \A c \in CPUs : buffers[active].pending[c] # d
            BY <2>1
        <3>3. ~InActive("dpc", d)
            BY <2>1 DEF InActive, Handling
        <3>4. QED
            BY <3>1, <3>2, <3>3 DEF SpiltDpcs
    <2>2. QED
        BY <2>1
<1>6. SpiltIsrs' \subseteq SpiltIsrs \union {event.id}
    <2>1. ASSUME NEW i \in SpiltIsrs', i # event.id
          PROVE  i \in SpiltIsrs
        <3>1. ~InActive("isr", i)
            BY <2>1 DEF InActive, Handling
        <3>2. QED
            BY <1>1, <1>3, <2>1, <3>1 DEF SpiltIsrs
    <2>2. QED
        BY <2>1
<1> HIDE DEF pending, cut
<1>7. /\ IsFiniteSet(SpiltDpcs) /\ Cardinality(SpiltDpcs) \in Nat
      /\ IsFiniteSet(SpiltIsrs) /\ Cardinality(SpiltIsrs) \in Nat
    BY SpiltFinite DEF IndInv
<1> DEFINE n == Cardinality(CPUs)
<1>8. n \in Nat /\ Cardinality(cut) \in Nat
    BY <1>4, CPUsAssumption, FS_CardinalityType
<1>9. /\ IsFiniteSet(SpiltDpcs')
      /\ Cardinality(SpiltDpcs') <= Cardinality(SpiltDpcs) + n + 1
    <2> DEFINE most == SpiltDpcs \union cut
    <2>1. /\ IsFiniteSet(most)
          /\ Cardinality(most) = Cardinality(SpiltDpcs) + Cardinality(cut)
                                    - Cardinality(SpiltDpcs \intersect cut)
        BY <1>4, <1>7, FS_Union
    <2>2. Cardinality(SpiltDpcs \intersect cut) \in Nat
        BY <1>7, FS_Intersection, FS_CardinalityType
    <2>3. Cardinality(most) \in Nat
        BY <2>1, FS_CardinalityType
    <2> HIDE DEF most
    <2>4. Cardinality(most) <= Cardinality(SpiltDpcs) + n
        BY <1>4, <1>7, <1>8, <2>1, <2>2, <2>3
    <2>5. /\ IsFiniteSet(most \union {event.id})
          /\ Cardinality(most \union {event.id}) <= Cardinality(most) + 1
        <3>1. /\ IsFiniteSet(most \union {event.id})
              /\ Cardinality(most \union {event.id}) =
                    IF event.id \in most THEN Cardinality(most)
                    ELSE Cardinality(most) + 1
            BY <2>1, FS_AddElement
        <3>2. QED
            BY <2>3, <3>1
    <2>6. SpiltDpcs' \in SUBSET (most \union {event.id})
        BY <1>5 DEF most
    <2>7. /\ IsFiniteSet(SpiltDpcs')
          /\ Cardinality(SpiltDpcs') <= Cardinality(most \union {event.id})
        BY <2>5, <2>6, FS_Subset
    <2>8. /\ Cardinality(SpiltDpcs') \in Nat
          /\ Cardinality(most \union {event.id}) \in Nat
        BY <2>5, <2>7, FS_CardinalityType
    <2>9. QED
        BY <1>7, <1>8, <2>3, <2>4, <2>5, <2>7, <2>8
<1>10. /\ IsFiniteSet(SpiltIsrs')
       /\ Cardinality(SpiltIsrs') <= Cardinality(SpiltIsrs) + 1
    <2>1. /\ IsFiniteSet(SpiltIsrs \union {event.id})
          /\ Cardinality(SpiltIsrs \union {event.id}) <= Cardinality(SpiltIsrs) + 1
        <3>1. /\ IsFiniteSet(SpiltIsrs \union {event.id})
              /\ Cardinality(SpiltIsrs \union {event.id}) =
                    IF event.id \in SpiltIsrs THEN Cardinality(SpiltIsrs)
                    ELSE Cardinality(SpiltIsrs) + 1
            BY <1>7, FS_AddElement
        <3>2. QED
            BY <1>7, <3>1
    <2>2. SpiltIsrs' \in SUBSET (SpiltIsrs \union {event.id})
        BY <1>6
    <2>3. /\ IsFiniteSet(SpiltIsrs')
          /\ Cardinality(SpiltIsrs') <= Cardinality(SpiltIsrs \union {event.id})
        BY <2>1, <2>2, FS_Subset
    <2>4. /\ Cardinality(SpiltIsrs') \in Nat
          /\ Cardinality(SpiltIsrs \union {event.id}) \in Nat
        BY <2>1, <2>3, FS_CardinalityType
    <2>5. QED
        BY <1>7, <2>1, <2>3, <2>4
<1>11. Cardinality(SpiltDpcs') \in Nat /\ Cardinality(SpiltIsrs') \in Nat
    BY <1>9, <1>10, FS_CardinalityType
<1>12. BeingCounted'
    BY <1>1 DEF LossInv, BeingCounted
<1> HIDE DEF n
<1>13. (scrapes + 1) * (n + 1) = scrapes * (n + 1) + n + 1
    BY <1>8 DEF LossInv
<1>14. scrapes * (n + 1) \in Nat
    BY <1>8 DEF LossInv
<1>15. Cardinality(SpiltDpcs) <= scrapes * (n + 1)
    BY DEF LossInv, n
<1>16. Cardinality(SpiltDpcs') <= scrapes' * (n + 1)
    BY <1>1, <1>7, <1>8, <1>9, <1>11, <1>13, <1>14, <1>15
<1>17. /\ scrapes' \in Nat
       /\ Cardinality(SpiltIsrs') <= scrapes'
    BY <1>1, <1>7, <1>10, <1>11 DEF LossInv
<1>18. QED
    BY <1>12, <1>16, <1>17 DEF LossInv, n

\* A merge takes the counts of a safe buffer to the totals.
LEMMA MergeLoss ==
    ASSUME IndInv, LossInv, NEW s \in Scrapers, Merge(s)
    PROVE  LossInv'
<1>1. /\ old[s] \in Buffers /\ s \notin merged /\ merged' = merged \union {s}
      /\ UNCHANGED <<isrs, dpcs, event, loaded, buffers, place, active, old,
                     scrapes>>
    BY DEF Merge, callback, IndInv, Shapes
<1> DEFINE c == buffers[old[s]].counts
           sum == [d \in DpcNumbers |-> totals.executed[d] + c.executed[d]]
<1>2. totals'.queued = totals.queued \union c.queued /\ totals'.executed = sum
    BY DEF Merge, DpcNumbers
<1>3. /\ totals.executed \in [DpcNumbers -> Nat]
      /\ c.executed \in [DpcNumbers -> Nat]
    BY <1>1, BufferFields DEF IndInv, Shapes, Count
<1>4. \A d \in DpcNumbers : totals'.executed[d] = 0 =>
            totals.executed[d] = 0 /\ c.executed[d] = 0
    BY <1>2, <1>3
<1> HIDE DEF sum
<1>5. Safe = Safe' \/ Safe = Safe' \union {old[s]}
    BY <1>1 DEF Safe
<1>6. Dpcs' = Dpcs /\ Isrs' = Isrs /\ Dpcs \subseteq DpcNumbers
    BY <1>1, DpcRange DEF Dpcs, Isrs, IndInv
<1>7. \A k, id : InActive(k, id)' = InActive(k, id)
    BY <1>1 DEF InActive, Handling
<1>8. SpiltDpcs' \subseteq SpiltDpcs
    <2>1. ASSUME NEW d \in SpiltDpcs' PROVE d \in SpiltDpcs
        <3>1. d \in Dpcs /\ totals.executed[d] = 0 /\ c.executed[d] = 0
            BY <1>4, <1>6 DEF SpiltDpcs
        <3>2. \A x \in Safe : buffers[x].counts.executed[d] = 0
            BY <1>1, <1>5, <3>1 DEF SpiltDpcs
        <3>3. QED
            BY <1>1, <1>7, <3>1, <3>2 DEF SpiltDpcs
    <2>2. QED
        BY <2>1
<1>9. SpiltIsrs' \subseteq SpiltIsrs
    <2>1. ASSUME NEW i \in SpiltIsrs' PROVE i \in SpiltIsrs
        <3>1. i \in Isrs /\ i \notin totals.queued /\ i \notin c.queued
            BY <1>2, <1>6 DEF SpiltIsrs
        <3>2. \A x \in Safe : i \notin buffers[x].counts.queued
            BY <1>1, <1>5, <3>1 DEF SpiltIsrs
        <3>3. QED
            BY <1>7, <3>1, <3>2 DEF SpiltIsrs
    <2>2. QED
        BY <2>1
<1>10. BeingCounted'
    BY <1>1 DEF LossInv, BeingCounted
<1>11. QED
    BY <1>1, <1>8, <1>9, <1>10, NothingMoreSpilt

\* A buffer is emptied that is not safe: it was merged, or is in the pool.
LEMMA EmptiedLoss ==
    ASSUME IndInv, LossInv, NEW o \in Buffers, o \notin Safe, o # active,
           buffers' = [buffers EXCEPT ![o] = newMetricsBuffer],
           Safe \subseteq Safe',
           UNCHANGED <<isrs, dpcs, event, loaded, active, totals, scrapes>>
    PROVE  LossInv'
<1>1. /\ \A x \in Buffers : x # o => buffers'[x] = buffers[x]
      /\ buffers'[o] = newMetricsBuffer
    BY DEF IndInv, Shapes
<1>2. \A x \in Safe : x \in Safe' /\ buffers'[x] = buffers[x]
    BY <1>1 DEF Safe
<1>3. buffers'[active] = buffers[active]
    BY <1>1 DEF IndInv, Shapes
<1>4. Dpcs' = Dpcs /\ Isrs' = Isrs
    BY DEF Dpcs, Isrs
<1>5. \A k, id : InActive(k, id)' = InActive(k, id)
    BY DEF InActive, Handling
<1>6. SpiltDpcs' \subseteq SpiltDpcs
    BY <1>2, <1>3, <1>4, <1>5 DEF SpiltDpcs
<1>7. SpiltIsrs' \subseteq SpiltIsrs
    BY <1>2, <1>4, <1>5 DEF SpiltIsrs
<1>8. BeingCounted'
    <2>1. event # None => loaded \in Buffers /\ event.cpu \in CPUs
        BY DEF IndInv, Shapes, EventRec
    <2>2. CASE loaded = o
        BY <1>1, <2>1, <2>2, NewBuffer DEF BeingCounted
    <2>3. CASE loaded # o
        BY <1>1, <2>1, <2>3 DEF LossInv, BeingCounted
    <2>4. QED
        BY <2>2, <2>3
<1>9. QED
    BY <1>6, <1>7, <1>8, NothingMoreSpilt

\* The old buffer is returned, or dropped from the pool.
LEMMA ResetLoss ==
    ASSUME IndInv, LossInv, NEW s \in Scrapers, Reset(s)
    PROVE  LossInv'
<1>1. s \in merged /\ old[s] \in Buffers /\ old[s] # active
    BY DEF Reset, IndInv, Shapes, Places
<1>2. /\ buffers' = [buffers EXCEPT ![old[s]] = newMetricsBuffer]
      /\ place' = [place EXCEPT ![old[s]] = "pool"]
      /\ old' = [old EXCEPT ![s] = None] /\ merged' = merged \ {s}
      /\ UNCHANGED <<isrs, dpcs, event, loaded, active, totals, scrapes>>
    BY DEF Reset, callback
<1>3. old[s] \notin Safe
    BY <1>1 DEF Safe
<1>4. Safe \subseteq Safe'
    <2>1. ASSUME NEW x \in Safe PROVE x \in Safe'
        <3>1. x \in Buffers /\ x # old[s] /\ place[x] = "out"
            BY <1>3 DEF Safe
        <3>2. place'[x] = "out"
            BY <1>2, <3>1 DEF IndInv, Shapes
        <3>3. \A r \in merged' : r \in merged /\ old'[r] = old[r]
            BY <1>2 DEF IndInv, Shapes
        <3>4. QED
            BY <3>1, <3>2, <3>3 DEF Safe
    <2>2. QED
        BY <2>1
<1>5. QED
    BY <1>1, <1>2, <1>3, <1>4, EmptiedLoss

LEMMA PoolDropsLoss ==
    ASSUME IndInv, LossInv, NEW b \in Buffers, PoolDrops(b)
    PROVE  LossInv'
<1>1. /\ place[b] = "pool"
      /\ buffers' = [buffers EXCEPT ![b] = newMetricsBuffer]
      /\ place' = [place EXCEPT ![b] = "none"]
      /\ UNCHANGED <<isrs, dpcs, event, loaded, active, old, merged, totals,
                     scrapes>>
    BY DEF PoolDrops, callback
<1>2. b # active /\ b \notin Safe
    BY <1>1 DEF Safe, IndInv, Shapes, Places
<1>3. Safe \subseteq Safe'
    BY <1>1 DEF Safe, IndInv, Shapes
<1>4. QED
    BY <1>1, <1>2, <1>3, EmptiedLoss

\* What happens to images leaves the events alone, and so does a stutter.
LEMMA RestLoss ==
    ASSUME IndInv, LossInv,
           UNCHANGED <<isrs, dpcs, event, loaded, buffers, place, active, old,
                       merged, totals, scrapes>>
    PROVE  LossInv'
<1>1. SpiltDpcs' = SpiltDpcs
    BY DEF SpiltDpcs, Safe, InActive, Handling, Dpcs
<1>2. SpiltIsrs' = SpiltIsrs
    BY DEF SpiltIsrs, Safe, InActive, Handling, Isrs
<1>3. BeingCounted'
    BY DEF LossInv, BeingCounted
<1>4. QED
    BY <1>1, <1>2, <1>3, NothingMoreSpilt

LEMMA NextLoss == ASSUME IndInv, LossInv, [Next]_vars PROVE LossInv'
<1>1. CASE \E c \in CPUs : ISREvent(c) \/ DPCEvent(c) \/ CSwitchEvent(c)
    BY <1>1, EventLoss
<1>2. CASE \E r \in Drivers : UnloadImage(r)
    BY <1>2, RestLoss DEF UnloadImage, callback, scraping
<1>3. CASE CountPendingDPC
    BY <1>3, CountPendingLoss
<1>4. CASE Handle
    BY <1>4, HandleLoss
<1>5. CASE \E s \in Scrapers, b \in Buffers : Swap(s, b)
    BY <1>5, SwapLoss
<1>6. CASE \E s \in Scrapers : Merge(s)
    BY <1>6, MergeLoss
<1>7. CASE \E s \in Scrapers : Reset(s)
    BY <1>7, ResetLoss
<1>8. CASE \E s \in Scrapers : PostScrapeCleanup(s)
    BY <1>8, RestLoss DEF PostScrapeCleanup, callback
<1>9. CASE \E b \in Buffers : PoolDrops(b)
    BY <1>9, PoolDropsLoss
<1>10. CASE UNCHANGED vars
    BY <1>10, RestLoss DEF vars, callback, scraping
<1>11. QED
    BY <1>1, <1>2, <1>3, <1>4, <1>5, <1>6, <1>7, <1>8, <1>9, <1>10 DEF Next

\* What is lost is in no safe place.
LEMMA LostAreSpilt ==
    ASSUME IndInv
    PROVE  LostDpcs \subseteq SpiltDpcs /\ LostIsrs \subseteq SpiltIsrs
<1>1. totals \in Counts /\ \A b \in Safe : buffers[b].counts \in Counts
    BY DEF Counts, Uncounted, Safe
<1>2. \A k, id : InActive(k, id) => Handling(k, id)
    BY DEF InActive
<1>3. \A c \in CPUs, d \in LostDpcs : buffers[active].pending[c] # d
    BY DEF LostDpcs, IndInv, Shapes, Places
<1>4. LostDpcs \subseteq SpiltDpcs
    BY <1>1, <1>3, <1>2 DEF LostDpcs, SpiltDpcs
<1>5. LostIsrs \subseteq SpiltIsrs
    BY <1>1, <1>2 DEF LostIsrs, SpiltIsrs
<1>6. QED
    BY <1>4, <1>5

\* Collect: however many scrapes overlap, and whatever the callback still writes
\* to a buffer that a scrape has swapped out, emptied, returned to the pool or
\* installed again, each scrape costs at most the DPC that was pending on each
\* CPU and the one event that was being handled.
THEOREM LossesBounded == Spec => []LossBounded
<1> DEFINE Inv == IndInv /\ LossInv
<1>1. Init => Inv
    BY InitInv, InitLoss
<1>2. Inv /\ [Next]_vars => Inv'
    BY NextInv, NextLoss
<1>3. Inv => LossBounded
    <2>1. ASSUME Inv PROVE LossBounded
        <3>1. /\ IsFiniteSet(SpiltDpcs) /\ Cardinality(SpiltDpcs) \in Nat
              /\ IsFiniteSet(SpiltIsrs) /\ Cardinality(SpiltIsrs) \in Nat
            BY <2>1, SpiltFinite DEF IndInv
        <3>2. LostDpcs \in SUBSET SpiltDpcs /\ LostIsrs \in SUBSET SpiltIsrs
            BY <2>1, LostAreSpilt
        <3>3. /\ IsFiniteSet(LostDpcs) /\ IsFiniteSet(LostIsrs)
              /\ Cardinality(LostDpcs) <= Cardinality(SpiltDpcs)
              /\ Cardinality(LostIsrs) <= Cardinality(SpiltIsrs)
            BY <3>1, <3>2, FS_Subset
        <3>4. Cardinality(LostDpcs) \in Nat /\ Cardinality(LostIsrs) \in Nat
            BY <3>3, FS_CardinalityType
        <3>5. Cardinality(CPUs) \in Nat
            BY CPUsAssumption, FS_CardinalityType
        <3> DEFINE n == scrapes * (Cardinality(CPUs) + 1)
        <3>6. /\ n \in Nat /\ scrapes \in Nat
              /\ Cardinality(SpiltDpcs) <= n /\ Cardinality(SpiltIsrs) <= scrapes
            BY <2>1, <3>5 DEF LossInv
        <3> HIDE DEF n
        <3>7. Cardinality(LostDpcs) <= n /\ Cardinality(LostIsrs) <= scrapes
            BY <3>1, <3>3, <3>4, <3>6
        <3>8. QED
            BY <3>7 DEF LossBounded, n
    <2>2. QED
        BY <2>1
<1>4. QED
    BY <1>1, <1>2, <1>3, PTL DEF Spec
-----------------------------------------------------------------------------
(* The types.                                                              *)

\* A scrape that has begun is going on or counted, a callback without an event
\* has no buffer, and what is noted of the drivers are drivers, the hasty ones
\* removed.
Tally ==
    /\ scrapes \in 0 .. bound.scrapes /\ scrapeCounter \in Nat
    /\ scrapeCounter + Cardinality(Scraping) = scrapes
    /\ event = None => loaded = None
    /\ hasty \subseteq Drivers \ images /\ overtaken \subseteq AnyDriver

\* The scrapes that go on can be counted.
LEMMA ScrapingFinite ==
    IsFiniteSet(Scraping) /\ Cardinality(Scraping) \in Nat
<1>1. Scraping \in SUBSET Scrapers
    BY DEF Scraping
<1>2. IsFiniteSet(Scraping)
    BY <1>1, FS_Subset
<1>3. QED
    BY <1>2, FS_CardinalityType

LEMMA InitTally == ASSUME Init PROVE Tally
<1>1. Scraping = {}
    BY DEF Init, Scraping
<1>2. Cardinality(Scraping) = 0
    BY <1>1, FS_EmptySet
<1>3. scrapes = 0 /\ scrapeCounter = 0 /\ bound.scrapes \in Nat
    BY DEF Init
<1>4. hasty = {} /\ overtaken = {} /\ loaded = None
    BY DEF Init
<1>5. QED
    BY <1>2, <1>3, <1>4 DEF Tally

\* A swap begins a scrape.
LEMMA SwapTally ==
    ASSUME IndInv, Tally, NEW s \in Scrapers, NEW b \in Buffers, Swap(s, b)
    PROVE  Tally'
<1>1. /\ s \notin Scraping /\ scrapes < bound.scrapes /\ scrapes' = scrapes + 1
      /\ old' = [old EXCEPT ![s] = active]
      /\ UNCHANGED <<cleaning, overtaken, event, loaded, imageTable>>
    BY DEF Swap, callback
<1>2. active # None /\ old \in [Scrapers -> Buffers \union {None}]
    BY DEF IndInv, Shapes
<1>3. Scraping' = Scraping \union {s}
    BY <1>1, <1>2 DEF Scraping
<1>4. Cardinality(Scraping') = Cardinality(Scraping) + 1
    BY <1>1, <1>3, ScrapingFinite, FS_AddElement
<1>5. bound.scrapes \in Nat
    BY DEF IndInv, Shapes
<1>6. QED
    BY <1>1, <1>4, <1>5, ScrapingFinite DEF Tally, imageTable

\* A cleanup counts the scrape that it ends.
LEMMA CleanupTally ==
    ASSUME IndInv, SeriesInv, Tally, NEW s \in Scrapers, PostScrapeCleanup(s)
    PROVE  Tally'
<1>1. /\ s \in cleaning /\ cleaning' = cleaning \ {s}
      /\ scrapeCounter' = scrapeCounter + 1
      /\ UNCHANGED <<event, loaded, old, scrapes, overtaken, bound>>
    BY DEF PostScrapeCleanup, callback
<1>2. s \in Scraping /\ old[s] = None
    BY <1>1 DEF IndInv, Places, Scraping
<1>3. Scraping' = Scraping \ {s}
    BY <1>1, <1>2 DEF Scraping
<1>4. Cardinality(Scraping') = Cardinality(Scraping) - 1
    BY <1>2, <1>3, ScrapingFinite, FS_RemoveElement
<1>5. PICK gone \in SUBSET GetCleanedImages :
        /\ images' = images \ gone
        /\ hasty' = hasty \union
                {r \in gone : terminatedImages[r] = scrapeCounter}
    BY DEF PostScrapeCleanup
<1>6. GetCleanedImages \subseteq images
    BY DEF GetCleanedImages
<1>7. hasty' \subseteq Drivers \ images'
    <2>1. hasty' \subseteq hasty \union gone
        BY <1>5
    <2>2. hasty \subseteq Drivers \ images
        BY DEF Tally
    <2>3. images \subseteq Drivers
        BY DEF SeriesInv, Marks
    <2>4. QED
        BY <1>5, <1>6, <2>1, <2>2, <2>3
<1>8. QED
    BY <1>1, <1>4, <1>7, ScrapingFinite DEF Tally

\* A reset leaves the scrape going on, and overtakes DPCs that are there.
LEMMA ResetTally ==
    ASSUME IndInv, Tally, NEW s \in Scrapers, Reset(s)
    PROVE  Tally'
<1>1. /\ s \in merged /\ cleaning' = cleaning \union {s}
      /\ old' = [old EXCEPT ![s] = None]
      /\ UNCHANGED <<event, loaded, scrapes, imageTable>>
    BY DEF Reset, callback
<1>2. old \in [Scrapers -> Buffers \union {None}] /\ old[s] # None
    BY <1>1 DEF IndInv, Shapes, Places
<1>3. Scraping' = Scraping
    BY <1>1, <1>2 DEF Scraping
<1>4. overtaken' \subseteq AnyDriver
    <2>1. CASE loaded # old[s]
        BY <2>1 DEF Reset, Tally
    <2>2. CASE loaded = old[s]
        <3>1. event # None
            BY <1>2, <2>2 DEF Tally
        <3>2. InHand \ {0} \subseteq Dpcs
            BY <3>1 DEF InHand, IndInv, Pending
        <3>3. \A d \in Dpcs : dpcs[d].driver \in AnyDriver
            BY EventsAreRecords DEF IndInv
        <3>4. overtaken' = overtaken \union {dpcs[d].driver : d \in InHand \ {0}}
            BY <2>2 DEF Reset
        <3>5. QED
            BY <3>2, <3>3, <3>4 DEF Tally
    <2>3. QED
        BY <2>1, <2>2
<1>5. QED
    BY <1>1, <1>3, <1>4 DEF Tally, imageTable

\* Every other step leaves the scrapes alone.
LEMMA RestTally ==
    ASSUME Tally, UNCHANGED <<old, cleaning, scrapes, overtaken, images,
                              scrapeCounter, bound, hasty>>,
           event' = None => loaded' = None
    PROVE  Tally'
BY DEF Tally, Scraping

LEMMA NextTally == ASSUME IndInv, SeriesInv, Tally, [Next]_vars PROVE Tally'
<1> USE DEF scraping, imageTable
<1>1. ASSUME NEW c \in CPUs, ISREvent(c) \/ DPCEvent(c) \/ CSwitchEvent(c)
      PROVE  Tally'
    <2>1. \E kind \in {"isr", "dpc", "cswitch"}, id \in Nat :
                event' = Event(kind, c, id)
        BY <1>1, DpcRange DEF ISREvent, DPCEvent, CSwitchEvent, Load, IndInv
    <2>2. event' \in EventRec
        BY <2>1 DEF Event, EventRec, AnyDriver
    <2>3. event' # None
        BY <2>2, EventsAreRecords
    <2>4. UNCHANGED <<scraping, imageTable>>
        BY <1>1 DEF ISREvent, DPCEvent, CSwitchEvent, Load
    <2>5. QED
        BY <2>3, <2>4, RestTally
<1>2. CASE \E r \in Drivers : UnloadImage(r)
    <2>1. PICK r \in Drivers : UnloadImage(r)
        BY <1>2
    <2>2. UNCHANGED <<event, loaded>> /\ (event = None => loaded = None)
        BY <2>1 DEF UnloadImage, callback, Tally
    <2>3. QED
        BY <2>1, <2>2, RestTally DEF UnloadImage
<1>3. CASE CountPendingDPC
    <2>1. event' # None
        BY <1>3, PendingCounted, EventsAreRecords
    <2>2. QED
        BY <1>3, <2>1, RestTally DEF CountPendingDPC
<1>4. CASE Handle
    BY <1>4, RestTally DEF Handle
<1>5. CASE (\E s \in Scrapers : Merge(s)) \/ (\E b \in Buffers : PoolDrops(b))
    BY <1>5, RestTally DEF Merge, PoolDrops, callback, Tally
<1>6. CASE UNCHANGED vars
    BY <1>6, RestTally DEF vars, callback, Tally
<1>7. QED
    BY <1>1, <1>2, <1>3, <1>4, <1>5, <1>6, SwapTally, ResetTally, CleanupTally
    DEF Next

\* The variables of the collector keep their types: a buffer is out exactly
\* while it is active or a scrape has it, a pending DPC is one of its CPU, the
\* ISRs that wait are some of those that came, and the generations are no more
\* than the scrapes that have begun.
THEOREM TypeCorrect == Spec => []TypeOK
<1> DEFINE All == IndInv /\ Matching /\ SeriesInv /\ Tally
<1>1. Init => All
    BY InitInv, InitMatch, InitSeries, InitTally
<1>2. All /\ [Next]_vars => All'
    BY NextInv, NextMatch, NextSeries, NextTally
<1>3. All => TypeOK
    <2> SUFFICES ASSUME All PROVE TypeOK
        OBVIOUS
    <2>1. /\ isrs \in Seq(CPUs) /\ \A d \in Dpcs : dpcs[d].cpu \in CPUs
          /\ active \in Buffers /\ loaded \in Buffers \union {None}
          /\ old \in [Scrapers -> Buffers \union {None}]
          /\ merged \subseteq Scrapers
        BY EventsAreRecords DEF IndInv, Shapes, Tally
    <2>2. event \in Events \union {None}
        BY EventsAreRecords DEF IndInv, Shapes
    <2>3. scrapes \in 0 .. bound.scrapes /\ scrapeCounter \in 0 .. scrapes
        BY ScrapingFinite DEF Tally
    <2>4. /\ images \subseteq Drivers
          /\ \A r \in Drivers \ images : terminatedImages[r] = None
          /\ hasty \subseteq Drivers \ images
          /\ overtaken \subseteq Drivers \union {None}
        BY DEF SeriesInv, Marks, Tally, AnyDriver
    <2>5. /\ \A s \in merged : old[s] # None
          /\ \A b \in Buffers : (place[b] = "out") <=>
                (b = active \/ \E s \in Scrapers : old[s] = b)
        BY DEF IndInv, Places
    <2>6. \A b \in Buffers, c \in CPUs : buffers[b].pending[c] # 0 =>
            buffers[b].pending[c] \in Dpcs /\ dpcs[buffers[b].pending[c]].cpu = c
        BY DEF IndInv, Pending
    <2>7. \A b \in Buffers : buffers[b].isrs \subseteq Isrs
        BY DEF Matching
    <2>8. QED
        BY <2>1, <2>2, <2>3, <2>4, <2>5, <2>6, <2>7 DEF TypeOK
<1>4. QED
    BY <1>1, <1>2, <1>3, PTL DEF Spec
=============================================================================
