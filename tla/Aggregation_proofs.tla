-------------------------- MODULE Aggregation_proofs --------------------------
(***************************************************************************)
(* Whose counts and whose service a ProcessData object holds, and what a   *)
(* scrape exports of them, for any processes, services, objects, maps and  *)
(* workloads.                                                              *)
(***************************************************************************)
EXTENDS Aggregation, Integers, FiniteSetTheorems, WellFoundedInduction, TLAPS

-----------------------------------------------------------------------------
(* The invariant.                                                          *)

Steps == {"resolve", "system", "process", "publish", "tag", "lookup", "name",
          "total", "hold", "programs", "recycle"}
Task == [todo : Seq(Steps), kind : Kinds \union {None},
         proc : Procs \union {None}, obj : Objs \union {None},
         tag : Tags \union {None}]
InfoRec == [proc : Keys \union {None}, tag : Tags \union {None},
            service : Tags \union {None}]

Shapes ==
    /\ instanceData \in [Keys -> Objs \union {None}]
    /\ pidToCurrentProcessData \in [Procs -> Objs \union {None}]
    /\ info \in [Objs -> InfoRec]
    /\ counts \in [Objs -> [Kinds -> Bags]]
    /\ processDataPool \subseteq Objs
    /\ loc \in [Goroutines -> Task]
    /\ pc \in [Scrapers -> Places]
    /\ DOMAIN scrape = Scrapers
    /\ \A s \in Scrapers : DOMAIN scrape[s] = DOMAIN NoScrape

\* An object is tracked as one process only, found by the pid of that process
\* only, and in the pool neither tracked nor found.
Owned ==
    /\ \A j, k \in Keys :
        instanceData[j] # None /\ instanceData[j] = instanceData[k] => j = k
    /\ \A k \in Keys, p \in Procs :
        pidToCurrentProcessData[p] # None
            /\ pidToCurrentProcessData[p] = instanceData[k] => k = p
    /\ \A p, q \in Procs :
        pidToCurrentProcessData[p] # None
            /\ pidToCurrentProcessData[p] = pidToCurrentProcessData[q] => p = q
    /\ \A k \in Keys : instanceData[k] \notin processDataPool
    /\ \A p \in Procs : pidToCurrentProcessData[p] \notin processDataPool

\* A step that a goroutine has yet to take, and the object that it is for.
Pends(l, step) == \E i \in 1 .. Len(l.todo) : l.todo[i] = step
Naming(l) == Pends(l, "tag") \/ Pends(l, "lookup") \/ Pends(l, "name")
Untracked(o) ==
    o \in Objs \ processDataPool /\ \A k \in Keys : instanceData[k] # o

Publishing == Pends(loc["callback"], "publish")
Recycling(s) == Pends(loc[s], "recycle")

\* An object that is to be published is nobody's and empty; one that events are
\* counted in is tracked as their process, if as any, or as System.
CallbackHand ==
    LET l == loc["callback"]
    IN  /\ Publishing =>
            /\ l.todo = <<"publish">> /\ l.proc \in Procs
            /\ Untracked(l.obj) /\ counts[l.obj] = NoCounts
            /\ \A p \in Procs : pidToCurrentProcessData[p] # l.obj
            /\ \A s \in Scrapers : Recycling(s) => loc[s].obj # l.obj
        /\ Pends(l, "resolve") \/ Pends(l, "process") =>
            l.proc \in Procs /\ l.kind \in Kinds
        /\ Pends(l, "process") /\ l.obj # None =>
            \A k \in Procs \ {SystemProc, l.proc} : instanceData[k] # l.obj
        /\ Naming(l) =>
            l.obj \in Objs /\ l.tag \in Tags /\ ~Pends(l, "resolve")
        /\ ~Pends(l, "recycle")

\* An object that is to be recycled is no longer tracked, and found by the pid
\* of its last owner only.  Only one scrape cleans up at a time, and what it
\* has yet to remove is tracked.
ScraperHand(s) ==
    LET l == loc[s]
    IN  /\ Recycling(s) =>
            /\ l.todo = <<"recycle">> /\ pc[s] = "cleanup" /\ l.proc \in Procs
            /\ Untracked(l.obj)
            /\ \A p \in Procs : pidToCurrentProcessData[p] = l.obj => p = l.proc
        /\ pc[s] = "cleanup" => cleanupMu = s /\ (Free(s) \/ Recycling(s))
        /\ pc[s] = "cleanup" => \A p \in scrape[s].toVisit :
                                    p \in Procs /\ instanceData[p] # None
        /\ ~Pends(l, "publish") /\ ~Pends(l, "process")
        /\ Naming(l) => l.obj \in Objs /\ l.tag \in Tags
        /\ pc[s] \in {"query", "store", "key", "sum"} =>
            Free(s) /\ l.obj \in Objs
        /\ pc[s] \in {"query", "store"} => l.tag \in Tags

IndInv ==
    /\ Shapes /\ Owned /\ CallbackHand
    /\ \A s \in Scrapers : ScraperHand(s)
    /\ NoInheritance

\* The services: a tracked process has an object of its own, with a tag and a
\* service of its own.
OneScraper == \A r, s \in Scrapers : r = s
OwnServices ==
    /\ \A k \in Keys : instanceData[k] # None => info[instanceData[k]].proc = k
    /\ \A k \in Procs : instanceData[k] # None =>
        LET i == info[instanceData[k]]
        IN  {i.tag, i.service} \subseteq TagsOf[k] \union {None}
    /\ Publishing => info[loc["callback"].obj] =
            [proc |-> loc["callback"].proc, tag |-> None, service |-> None]

\* A goroutine that is about to name the service of a process has a tag of that
\* process, if not of System, whose tag is not stored; the object that a scrape
\* has in hand is not given to another process meanwhile.
ToName == <<"tag", "lookup", "name">>
TagFor(l, k) == l.tag \in TagsOf[k] \/ (k = SystemProc /\ l.todo = ToName)
Names(g) ==
    Naming(loc[g]) \/ (g \in Scrapers /\ pc[g] \in {"query", "store"})
HandRight(g) ==
    Names(g) =>
        /\ \A k \in Procs : instanceData[k] = loc[g].obj => TagFor(loc[g], k)
        /\ g \in Scrapers =>
            /\ loc[g].obj \notin processDataPool
            /\ Publishing => loc[g].obj # loc["callback"].obj
ServiceInv == OwnServices /\ \A g \in Goroutines : HandRight(g)

\* What most steps leave alone.
owners == <<instanceData, pidToCurrentProcessData, counts, processDataPool>>
OwnersKept == UNCHANGED owners /\ info' \in [Objs -> InfoRec]

-----------------------------------------------------------------------------
(* Lemmas about the operators.                                             *)

\* What the assumptions say of the constants.
LEMMA Constants ==
    /\ SystemProc \in Procs /\ UnknownProc \notin Procs
    /\ Procs \subseteq Keys /\ UnknownProc \in Keys
    /\ None \notin Objs /\ None \notin Procs /\ None \notin Tags
    /\ None \notin Scrapers /\ "callback" \notin Scrapers
    /\ "callback" \in Goroutines /\ Scrapers \subseteq Goroutines
    /\ \A g \in Goroutines : g = "callback" \/ g \in Scrapers
BY ProcsAssumption DEF Keys, Goroutines

\* What pends after a step pended before it.
LEMMA StepTaken ==
    ASSUME NEW l \in Task, l.todo # <<>>
    PROVE  LET rest == [l EXCEPT !.todo = Tail(@)]
           IN  /\ rest \in Task
               /\ \A x : Pends(rest, x) => Pends(l, x)
               /\ rest.proc = l.proc /\ rest.kind = l.kind
               /\ rest.obj = l.obj /\ rest.tag = l.tag
               /\ Pends(l, Head(l.todo))
<1> DEFINE rest == [l EXCEPT !.todo = Tail(@)]
<1>1. l.todo \in Seq(Steps) /\ Len(l.todo) \in Nat \ {0}
    BY DEF Task
<1>2. /\ Tail(l.todo) \in Seq(Steps) /\ Len(Tail(l.todo)) = Len(l.todo) - 1
      /\ \A i \in 1 .. Len(Tail(l.todo)) : Tail(l.todo)[i] = l.todo[i + 1]
    BY <1>1
<1>3. rest \in Task /\ rest.todo = Tail(l.todo)
    BY <1>2 DEF Task
<1>4. ASSUME NEW x, Pends(rest, x)
      PROVE  Pends(l, x)
    <2>1. PICK i \in 1 .. Len(Tail(l.todo)) : Tail(l.todo)[i] = x
        BY <1>3, <1>4 DEF Pends
    <2>2. i + 1 \in 1 .. Len(l.todo) /\ l.todo[i + 1] = x
        BY <1>1, <1>2, <2>1
    <2>3. QED
        BY <2>2 DEF Pends
<1>5. Pends(l, Head(l.todo))
    BY <1>1 DEF Pends
<1>6. QED
    BY <1>3, <1>4, <1>5 DEF Task

\* Nothing pends for a goroutine that is free.
LEMMA NothingPends ==
    /\ Idle \in Task /\ Idle.todo = <<>>
    /\ \A l, x : l.todo = <<>> => ~Pends(l, x)
BY DEF Idle, Task, Pends

\* The lists of steps.
LEMMA Plans ==
    /\ \A l, x : l.todo = <<"recycle">> => (Pends(l, x) <=> x = "recycle")
    /\ \A l, x : l.todo = <<"publish">> => (Pends(l, x) <=> x = "publish")
    /\ \A l, x : l.todo = <<"tag", "lookup", "name">> =>
            (Pends(l, x) <=> x \in {"tag", "lookup", "name"})
    /\ \A l, x, kind : l.todo = StepsOf(kind) =>
            (Pends(l, x) <=> x \in {"resolve", "system", "process"})
    /\ \A l, x, kind : l.todo = CollectOrder(kind) =>
            (Pends(l, x) <=> x \in {"total", "hold", "programs"})
    /\ \A kind : /\ StepsOf(kind) \in Seq(Steps)
                 /\ CollectOrder(kind) \in Seq(Steps)
    /\ <<"recycle">> \in Seq(Steps) /\ <<"publish">> \in Seq(Steps)
    /\ <<"tag", "lookup", "name">> \in Seq(Steps)
<1>1. ASSUME NEW l, NEW x, NEW a, l.todo = <<a>>
      PROVE  Pends(l, x) <=> x = a
    BY <1>1 DEF Pends
<1>2. ASSUME NEW l, NEW x, NEW a, NEW b, NEW c, l.todo = <<a, b, c>>
      PROVE  Pends(l, x) <=> x \in {a, b, c}
    <2>1. Len(l.todo) = 3 /\ 1 .. 3 = {1, 2, 3}
        BY <1>2
    <2>2. l.todo[1] = a /\ l.todo[2] = b /\ l.todo[3] = c
        BY <1>2
    <2>3. QED
        BY <2>1, <2>2 DEF Pends
<1>3. \A kind : \/ StepsOf(kind) = <<"resolve", "system", "process">>
                 \/ StepsOf(kind) = <<"system", "resolve", "process">>
                 \/ StepsOf(kind) = <<"resolve", "process", "system">>
    BY DEF StepsOf
<1>4. \A kind : \/ CollectOrder(kind) = <<"hold", "programs", "total">>
                 \/ CollectOrder(kind) = <<"total", "hold", "programs">>
    BY DEF CollectOrder
<1>5. \A a, b, c \in Steps : <<a, b, c>> \in Seq(Steps) /\ <<a>> \in Seq(Steps)
    OBVIOUS
<1>6. ASSUME NEW l, NEW x, NEW kind, l.todo = StepsOf(kind)
      PROVE  Pends(l, x) <=> x \in {"resolve", "system", "process"}
    BY <1>2, <1>3, <1>6
<1>7. ASSUME NEW l, NEW x, NEW kind, l.todo = CollectOrder(kind)
      PROVE  Pends(l, x) <=> x \in {"total", "hold", "programs"}
    BY <1>2, <1>4, <1>7
<1>8. \A kind : /\ StepsOf(kind) \in Seq(Steps)
                /\ CollectOrder(kind) \in Seq(Steps)
    <2>1. /\ "resolve" \in Steps /\ "system" \in Steps /\ "process" \in Steps
          /\ "hold" \in Steps /\ "programs" \in Steps /\ "total" \in Steps
        BY DEF Steps
    <2>2. ASSUME NEW kind PROVE StepsOf(kind) \in Seq(Steps)
        BY <1>3, <1>5, <2>1
    <2>3. ASSUME NEW kind PROVE CollectOrder(kind) \in Seq(Steps)
        BY <1>4, <1>5, <2>1
    <2>4. QED
        BY <2>2, <2>3
<1>9. QED
    BY <1>1, <1>2, <1>5, <1>6, <1>7, <1>8 DEF Steps

\* The System process and the unknown process are tracked, nobody works.
LEMMA InitInv == ASSUME Init PROVE IndInv
<1>1. PICK u, o \in Objs :
        /\ u # o
        /\ instanceData = [k \in Keys |-> CASE k = UnknownProc -> u
                                            [] k = SystemProc -> o
                                            [] OTHER -> None]
        /\ pidToCurrentProcessData =
                [p \in Procs |-> IF p = SystemProc THEN o ELSE None]
        /\ info = [x \in Objs |->
                [proc |-> CASE x = u -> UnknownProc
                            [] x = o -> SystemProc
                            [] OTHER -> None,
                 tag |-> None, service |-> None]]
        /\ processDataPool = Objs \ {u, o}
        /\ counts = [x \in Objs |-> NoCounts]
        /\ loc = [g \in Goroutines |-> Idle]
        /\ pc = [s \in Scrapers |-> "idle"]
        /\ scrape = [s \in Scrapers |-> NoScrape]
    BY DEF Init
<1>2. NoCounts \in [Kinds -> Bags]
    BY DEF NoCounts, NoBag, Bags
<1>3. Shapes
    BY <1>1, <1>2, Constants, NothingPends DEF Shapes, InfoRec, Places, Keys
<1>4. Owned
    BY <1>1, Constants DEF Owned
<1>5. CallbackHand
    BY <1>1, Constants, NothingPends
       DEF CallbackHand, Publishing, Naming
<1>6. \A s \in Scrapers : ScraperHand(s)
    BY <1>1, Constants, NothingPends DEF ScraperHand, Recycling, Naming
<1>7. NoInheritance
    BY <1>1, Constants DEF NoInheritance, NoCounts, NoBag
<1>8. QED
    BY <1>3, <1>4, <1>5, <1>6, <1>7 DEF IndInv

-----------------------------------------------------------------------------
(* Steps that leave the owners of objects alone.                           *)

LEMMA TablesKept == IndInv /\ UNCHANGED tables => OwnersKept
BY DEF IndInv, Shapes, OwnersKept, owners, tables

\* The callback takes a step of its own.
LEMMA CallbackFrame ==
    ASSUME IndInv, OwnersKept, UNCHANGED <<pc, scrape, cleanupMu>>,
           NEW l \in Task, loc' = [loc EXCEPT !["callback"] = l],
           CallbackHand'
    PROVE  IndInv'
<1>1. \A s \in Scrapers : loc'[s] = loc[s]
    BY Constants DEF IndInv, Shapes
<1>2. Shapes'
    BY Constants DEF IndInv, Shapes, OwnersKept, owners
<1>3. Owned' /\ NoInheritance'
    BY DEF IndInv, Owned, NoInheritance, OwnersKept, owners
<1>4. ASSUME NEW s \in Scrapers PROVE ScraperHand(s)'
    <2>1. ScraperHand(s)
        BY DEF IndInv
    <2>2. QED
        BY <1>1, <2>1 DEF ScraperHand, Recycling, Naming, Untracked, Pends,
                          Free, OwnersKept, owners
<1>5. QED
    BY <1>2, <1>3, <1>4 DEF IndInv

\* A scrape takes a step of its own, and does not recycle.
LEMMA ScraperFrame ==
    ASSUME IndInv, OwnersKept,
           NEW s \in Scrapers, NEW l \in Task, NEW x \in Places,
           loc' = [loc EXCEPT ![s] = l],
           pc' = [pc EXCEPT ![s] = x],
           DOMAIN scrape' = Scrapers, DOMAIN scrape'[s] = DOMAIN NoScrape,
           \A r \in Scrapers \ {s} : scrape'[r] = scrape[r],
           \A r \in Scrapers \ {s} : pc[r] = "cleanup" => cleanupMu' = r,
           ScraperHand(s)', ~Pends(l, "recycle")
    PROVE  IndInv'
<1>1. /\ loc'["callback"] = loc["callback"] /\ loc'[s] = l
      /\ \A r \in Scrapers \ {s} : loc'[r] = loc[r] /\ pc'[r] = pc[r]
    BY Constants DEF IndInv, Shapes
<1>2. Shapes'
    BY Constants DEF IndInv, Shapes, OwnersKept, owners
<1>3. Owned' /\ NoInheritance'
    BY DEF IndInv, Owned, NoInheritance, OwnersKept, owners
<1>4. ASSUME NEW r \in Scrapers PROVE ScraperHand(r)'
    <2>1. CASE r = s
        BY <2>1
    <2>2. CASE r # s
        <3>1. ScraperHand(r)
            BY DEF IndInv
        <3>2. QED
            BY <1>1, <2>2, <3>1 DEF ScraperHand, Recycling, Naming, Untracked,
                                    Pends, Free, OwnersKept, owners
    <2>3. QED
        BY <2>1, <2>2
<1>5. CallbackHand'
    <2>1. \A r \in Scrapers : Recycling(r)' => Recycling(r) /\ loc'[r] = loc[r]
        BY <1>1 DEF Recycling, Pends
    <2>2. CallbackHand
        BY DEF IndInv
    <2>3. QED
        BY <1>1, <2>1, <2>2 DEF CallbackHand, Publishing, Naming, Untracked,
                                Pends, OwnersKept, owners
<1>6. QED
    BY <1>2, <1>3, <1>4, <1>5 DEF IndInv

-----------------------------------------------------------------------------
(* The callback.                                                           *)

LEMMA EventInv ==
    ASSUME IndInv, NEW kind \in Kinds, NEW p \in Procs, Event(kind, p)
    PROVE  IndInv'
<1> DEFINE l == [Idle EXCEPT !.todo = StepsOf(kind), !.kind = kind, !.proc = p]
<1>1. /\ l \in Task /\ l.todo = StepsOf(kind)
      /\ l.kind = kind /\ l.proc = p /\ l.obj = None
    BY Plans DEF Task, Idle
<1>2. /\ loc' = [loc EXCEPT !["callback"] = l]
      /\ UNCHANGED <<tables, pc, scrape, cleanupMu>>
    BY DEF Event
<1> HIDE DEF l
<1>3. loc'["callback"] = l
    BY <1>2, Constants DEF IndInv, Shapes
<1>4. \A x : Pends(l, x) <=> x \in {"resolve", "system", "process"}
    BY <1>1, Plans
<1>5. CallbackHand'
    BY <1>1, <1>3, <1>4 DEF CallbackHand, Publishing, Naming
<1>6. QED
    BY <1>1, <1>2, <1>5, CallbackFrame, TablesKept

LEMMA StopCallbackInv ==
    ASSUME IndInv, OwnersKept, UNCHANGED <<pc, scrape, cleanupMu>>,
           loc' = Stop("callback")
    PROVE  IndInv'
<1>1. loc'["callback"] = Idle
    BY Constants DEF IndInv, Shapes, Stop
<1>2. CallbackHand'
    BY <1>1, NothingPends DEF CallbackHand, Publishing, Naming
<1>3. QED
    BY <1>2, CallbackFrame, NothingPends DEF Stop

\* The object that was resolved is of the process of the event, or of System or
\* the unknown process.
LEMMA ResolveProcessInv ==
    ASSUME IndInv, ResolveProcess
    PROVE  IndInv'
<1> DEFINE l == loc["callback"]
           rest == [l EXCEPT !.todo = Tail(@)]
<1>1. l \in Task /\ l.todo # <<>> /\ Head(l.todo) = "resolve"
    BY Constants DEF IndInv, Shapes, ResolveProcess, At, Free
<1>2. PICK o \in Resolutions(l.kind, l.proc) :
        loc' = IF o = None /\ l.kind \in {"registry", "network"}
               THEN Stop("callback")
               ELSE [Rest("callback") EXCEPT !["callback"].obj = o]
    BY DEF ResolveProcess
<1>3. UNCHANGED <<tables, pc, scrape, cleanupMu>>
    BY DEF ResolveProcess
<1>4. CASE loc' = Stop("callback")
    BY <1>3, <1>4, StopCallbackInv, TablesKept
<1>5. CASE loc' = [Rest("callback") EXCEPT !["callback"].obj = o]
    <2>1. /\ rest \in Task /\ Pends(l, "resolve")
          /\ \A x : Pends(rest, x) => Pends(l, x)
          /\ rest.proc = l.proc /\ rest.kind = l.kind
          /\ rest.obj = l.obj /\ rest.tag = l.tag
        BY <1>1, StepTaken
    <2>2. l.proc \in Procs /\ ~Publishing /\ ~Pends(l, "recycle")
        <3>1. CallbackHand
            BY DEF IndInv
        <3>2. l.proc \in Procs /\ ~Pends(l, "recycle")
            BY <2>1, <3>1 DEF CallbackHand
        <3>3. Publishing => Pends(l, "resolve") /\ l.todo = <<"publish">>
            BY <2>1, <3>1 DEF CallbackHand
        <3>4. QED
            BY <3>2, <3>3, Plans
    <2>3. o \in {None, pidToCurrentProcessData[l.proc],
                  pidToCurrentProcessData[SystemProc],
                  instanceData[UnknownProc]}
        BY DEF Resolutions, IssuingProcesses, FaultingProcesses, ByThread,
               ByPid, Or
    <2>4. o \in Objs \union {None}
        BY <2>2, <2>3, Constants DEF IndInv, Shapes
    <2>5. o # None =>
            \A k \in Procs \ {SystemProc, l.proc} : instanceData[k] # o
        BY <2>2, <2>3, Constants DEF IndInv, Shapes, Owned
    <2> DEFINE n == [rest EXCEPT !.obj = o]
    <2>6. /\ n \in Task /\ n.todo = rest.todo /\ n.proc = l.proc
          /\ n.kind = l.kind /\ n.tag = l.tag /\ n.obj = o
        BY <2>1, <2>4 DEF Task
    <2>7. loc' = [loc EXCEPT !["callback"] = n]
        BY <1>1, <1>5, Constants DEF Rest, IndInv, Shapes
    <2> HIDE DEF n, rest
    <2>8. loc'["callback"] = n /\ \A x : Pends(n, x) => Pends(l, x)
        BY <2>1, <2>6, <2>7, Constants DEF IndInv, Shapes, Pends
    <2>9. ~Naming(n)
        BY <2>1, <2>8 DEF IndInv, CallbackHand, Naming
    <2>10. CallbackHand'
        BY <2>2, <2>5, <2>6, <2>8, <2>9, <1>3
           DEF IndInv, CallbackHand, Publishing, tables
    <2>11. QED
        BY <1>3, <2>6, <2>7, <2>10, CallbackFrame, TablesKept
<1>6. QED
    BY <1>2, <1>4, <1>5

\* What pends for the callback after a step is what pended before it.
LEMMA RestOfCallback ==
    ASSUME IndInv, OwnersKept, UNCHANGED <<pc, scrape, cleanupMu>>,
           ~Free("callback"), ~Publishing, loc' = Rest("callback")
    PROVE  IndInv'
<1> DEFINE l == loc["callback"]
           rest == [l EXCEPT !.todo = Tail(@)]
<1>1. l \in Task /\ l.todo # <<>>
    BY Constants DEF IndInv, Shapes, Free
<1>2. /\ rest \in Task
      /\ \A x : Pends(rest, x) => Pends(l, x)
      /\ rest.proc = l.proc /\ rest.kind = l.kind
      /\ rest.obj = l.obj /\ rest.tag = l.tag
    BY <1>1, StepTaken
<1>3. loc' = [loc EXCEPT !["callback"] = rest]
    BY <1>1, Constants DEF Rest, IndInv, Shapes
<1> HIDE DEF rest
<1>4. loc'["callback"] = rest
    BY <1>3, Constants DEF IndInv, Shapes
<1>5. CallbackHand'
    BY <1>2, <1>4 DEF IndInv, CallbackHand, Publishing, Naming, OwnersKept,
       owners
<1>6. QED
    BY <1>2, <1>3, <1>5, CallbackFrame

\* A step that is not "publish" is one of an event or of a thread.
LEMMA NotPublishing ==
    ASSUME IndInv, NEW step, At("callback", step), step # "publish"
    PROVE  ~Free("callback") /\ ~Publishing /\ Pends(loc["callback"], step)
<1>1. loc["callback"] \in Task /\ loc["callback"].todo # <<>>
      /\ Head(loc["callback"].todo) = step
    BY Constants DEF IndInv, Shapes, At, Free
<1>2. Pends(loc["callback"], step)
    BY <1>1, StepTaken
<1>3. Publishing => loc["callback"].todo = <<"publish">>
    BY DEF IndInv, CallbackHand
<1>4. QED
    BY <1>2, <1>3, Plans DEF At

LEMMA CountSystemWideInv ==
    ASSUME IndInv, CountSystemWide
    PROVE  IndInv'
<1>1. At("callback", "system") /\ loc' = Rest("callback")
      /\ UNCHANGED <<tables, pc, scrape, cleanupMu>>
    BY DEF CountSystemWide
<1>2. QED
    BY <1>1, NotPublishing, RestOfCallback, TablesKept

\* An event is counted for its process, or for System or the unknown process.
LEMMA CountForProcessInv ==
    ASSUME IndInv, CountForProcess
    PROVE  IndInv'
<1> DEFINE l == loc["callback"]
           rest == [l EXCEPT !.todo = Tail(@)]
<1>1. At("callback", "process") /\ loc' = Rest("callback")
      /\ UNCHANGED <<instanceData, pidToCurrentProcessData, info,
                     processDataPool, pc, scrape, cleanupMu>>
    BY DEF CountForProcess
<1>2. ~Free("callback") /\ ~Publishing /\ Pends(l, "process")
    BY <1>1, NotPublishing
<1>3. CASE l.obj = None \/ l.kind \notin EnablePerProcess
    <2>1. UNCHANGED tables
        BY <1>1, <1>3 DEF CountForProcess, tables
    <2>2. QED
        BY <1>1, <1>2, <2>1, RestOfCallback, TablesKept
<1>4. CASE l.obj # None /\ l.kind \in EnablePerProcess
    <2>1. l \in Task /\ l.todo # <<>> /\ l.obj \in Objs
        BY <1>2, <1>4, Constants DEF IndInv, Shapes, Free, Task
    <2>2. /\ l.proc \in Procs /\ l.proc \in Keys /\ l.kind \in Kinds
          /\ \A k \in Procs \ {SystemProc, l.proc} : instanceData[k] # l.obj
        BY <1>2, <1>4, Constants DEF IndInv, CallbackHand
    <2>3. counts' = [counts EXCEPT ![l.obj][l.kind][l.proc] = @ + 1]
        BY <1>4 DEF CountForProcess
    <2>4. /\ rest \in Task
          /\ \A x : Pends(rest, x) => Pends(l, x)
          /\ rest.proc = l.proc /\ rest.kind = l.kind
          /\ rest.obj = l.obj /\ rest.tag = l.tag
        BY <2>1, StepTaken
    <2>5. loc' = [loc EXCEPT !["callback"] = rest]
        BY <1>1, <2>1, Constants DEF Rest, IndInv, Shapes
    <2> HIDE DEF rest
    <2>6. loc'["callback"] = rest /\ \A s \in Scrapers : loc'[s] = loc[s]
        BY <2>5, Constants DEF IndInv, Shapes
    <2>7. /\ counts' \in [Objs -> [Kinds -> Bags]]
          /\ \A o \in Objs, i \in Kinds, q \in Keys :
                (o # l.obj \/ q # l.proc) => counts'[o][i][q] = counts[o][i][q]
        <3> DEFINE bag == counts[l.obj][l.kind]
                   new == [bag EXCEPT ![l.proc] = @ + 1]
                   row == [counts[l.obj] EXCEPT ![l.kind] = new]
        <3>1. counts \in [Objs -> [Kinds -> [Keys -> Nat]]]
            BY DEF IndInv, Shapes, Bags
        <3>2. bag \in [Keys -> Nat]
            BY <2>1, <2>2, <3>1
        <3>3. /\ new \in [Keys -> Nat]
              /\ \A q \in Keys : q # l.proc => new[q] = bag[q]
            BY <2>2, <3>2
        <3>4. counts' = [counts EXCEPT ![l.obj] = row]
            BY <2>3
        <3> HIDE DEF new
        <3>5. /\ row \in [Kinds -> [Keys -> Nat]]
              /\ \A i \in Kinds :
                    row[i] = IF i = l.kind THEN new ELSE counts[l.obj][i]
            BY <2>1, <2>2, <3>1, <3>3
        <3> HIDE DEF row
        <3>6. /\ counts' \in [Objs -> [Kinds -> [Keys -> Nat]]]
              /\ \A o \in Objs :
                    counts'[o] = IF o = l.obj THEN row ELSE counts[o]
            BY <2>1, <3>1, <3>4, <3>5
        <3>7. QED
            BY <3>3, <3>5, <3>6 DEF Bags
    <2>8. Shapes'
        BY <1>1, <2>4, <2>5, <2>7, Constants DEF IndInv, Shapes
    <2>9. Owned'
        BY <1>1 DEF IndInv, Owned
    <2>10. CallbackHand'
        BY <1>1, <1>2, <2>4, <2>6
           DEF IndInv, CallbackHand, Publishing, Naming
    <2>11. ASSUME NEW s \in Scrapers PROVE ScraperHand(s)'
        <3>1. ScraperHand(s)
            BY DEF IndInv
        <3>2. QED
            BY <1>1, <2>6, <3>1 DEF ScraperHand, Recycling, Naming, Untracked,
                                    Pends, Free
    <2>12. NoInheritance'
        <3> SUFFICES ASSUME NEW k \in Procs \ {SystemProc},
                            instanceData[k] # None,
                            NEW i \in Kinds, NEW q \in Procs, q # k
                     PROVE  counts'[instanceData[k]][i][q] = 0
            BY <1>1 DEF NoInheritance
        <3>1. counts[instanceData[k]][i][q] = 0
            BY DEF IndInv, NoInheritance
        <3>2. instanceData[k] \in Objs /\ q \in Keys /\ k \in Keys
            BY Constants DEF IndInv, Shapes
        <3>3. instanceData[k] # l.obj \/ q # l.proc
            BY <2>2
        <3>4. QED
            BY <2>7, <3>1, <3>2, <3>3
    <2>13. QED
        BY <2>8, <2>9, <2>10, <2>11, <2>12 DEF IndInv
<1>5. QED
    BY <1>3, <1>4

\* An object of the pool is emptied and filled for a process.
LEMMA AddProcessInv ==
    ASSUME IndInv, NEW p \in Procs, AddProcess(p)
    PROVE  IndInv'
<1>1. PICK o \in processDataPool :
        /\ processDataPool' = processDataPool \ {o}
        /\ counts' = Reset(o)
        /\ info' = [info EXCEPT ![o] =
                [proc |-> p, tag |-> None, service |-> None]]
        /\ loc' = [loc EXCEPT !["callback"] = [Idle EXCEPT
                !.todo = <<"publish">>, !.proc = p, !.obj = o]]
    BY DEF AddProcess
<1>2. UNCHANGED <<instanceData, pidToCurrentProcessData, pc, scrape, cleanupMu>>
    BY DEF AddProcess
<1> DEFINE l == [Idle EXCEPT !.todo = <<"publish">>, !.proc = p, !.obj = o]
<1>3. o \in Objs /\ p \in Keys
    BY Constants DEF IndInv, Shapes
<1>4. /\ l \in Task /\ l.todo = <<"publish">> /\ l.proc = p /\ l.obj = o
      /\ \A x : Pends(l, x) <=> x = "publish"
    BY <1>3, Plans DEF Task, Idle
<1> HIDE DEF l
<1>5. loc'["callback"] = l /\ \A s \in Scrapers : loc'[s] = loc[s]
    BY <1>1, Constants DEF IndInv, Shapes, l
<1>6. /\ counts' \in [Objs -> [Kinds -> Bags]] /\ counts'[o] = NoCounts
      /\ \A x \in Objs \ {o} : counts'[x] = counts[x]
    <2>1. NoCounts \in [Kinds -> Bags]
        BY DEF NoCounts, NoBag, Bags
    <2>2. QED
        BY <1>1, <1>3, <2>1 DEF Reset, IndInv, Shapes
<1>7. Shapes'
    <2>1. info' \in [Objs -> InfoRec]
        BY <1>1, <1>3 DEF IndInv, Shapes, InfoRec
    <2>2. loc' \in [Goroutines -> Task]
        BY <1>1, <1>4 DEF IndInv, Shapes, l
    <2>3. QED
        BY <1>1, <1>2, <1>6, <2>1, <2>2 DEF IndInv, Shapes
<1>8. Owned'
    BY <1>1, <1>2 DEF IndInv, Owned
<1>9. CallbackHand'
    <2>1. /\ \A k \in Keys : instanceData[k] # o
          /\ \A q \in Procs : pidToCurrentProcessData[q] # o
          /\ \A s \in Scrapers : Recycling(s) => loc[s].obj # o
        BY <1>1 DEF IndInv, Owned, ScraperHand, Untracked
    <2>2. QED
        BY <1>1, <1>2, <1>3, <1>4, <1>5, <1>6, <2>1
           DEF CallbackHand, Publishing, Naming, Untracked, Recycling, Pends
<1>10. ASSUME NEW s \in Scrapers PROVE ScraperHand(s)'
    <2>1. ScraperHand(s)
        BY DEF IndInv
    <2>2. Untracked(loc[s].obj) => Untracked(loc[s].obj)'
        <3>1. processDataPool' \subseteq processDataPool
            BY <1>1
        <3>2. QED
            BY <1>2, <1>5, <3>1 DEF Untracked
    <2>3. QED
        BY <1>2, <1>5, <2>1, <2>2 DEF ScraperHand, Recycling, Naming, Pends,
                                      Free
<1>11. NoInheritance'
    <2>1. \A k \in Procs : instanceData[k] # None =>
            instanceData[k] \in Objs \ {o}
        BY <1>1, Constants DEF IndInv, Shapes, Owned
    <2>2. QED
        BY <1>2, <1>6, <2>1 DEF IndInv, NoInheritance
<1>12. QED
    BY <1>7, <1>8, <1>9, <1>10, <1>11 DEF IndInv

\* The object is entered in both tables: it is nobody else's, and empty.
LEMMA PublishProcessInv ==
    ASSUME IndInv, PublishProcess
    PROVE  IndInv'
<1> DEFINE c == loc["callback"]
<1>1. /\ At("callback", "publish")
      /\ instanceData' = [instanceData EXCEPT ![c.proc] = c.obj]
      /\ pidToCurrentProcessData' =
            [pidToCurrentProcessData EXCEPT ![c.proc] = c.obj]
      /\ loc' = Stop("callback")
      /\ UNCHANGED <<info, counts, processDataPool, pc, scrape, cleanupMu>>
    BY DEF PublishProcess
<1>2. Publishing
    <2>1. c \in Task /\ c.todo # <<>> /\ Head(c.todo) = "publish"
        BY <1>1, Constants DEF IndInv, Shapes, At, Free
    <2>2. QED
        BY <2>1, StepTaken DEF Publishing
<1>3. /\ c.proc \in Procs /\ Untracked(c.obj) /\ counts[c.obj] = NoCounts
      /\ \A p \in Procs : pidToCurrentProcessData[p] # c.obj
      /\ \A s \in Scrapers : Recycling(s) => loc[s].obj # c.obj
    BY <1>2 DEF IndInv, CallbackHand
<1>4. /\ c.obj \in Objs /\ c.obj # None /\ c.proc \in Keys
      /\ c.obj \notin processDataPool /\ \A k \in Keys : instanceData[k] # c.obj
    BY <1>3, Constants DEF Untracked
<1> DEFINE p == c.proc
           o == c.obj
<1>5. /\ instanceData'[p] = o /\ pidToCurrentProcessData'[p] = o
      /\ \A k \in Keys \ {p} : instanceData'[k] = instanceData[k]
      /\ \A q \in Procs \ {p} :
            pidToCurrentProcessData'[q] = pidToCurrentProcessData[q]
    BY <1>1, <1>3, <1>4 DEF IndInv, Shapes
<1>6. loc'["callback"] = Idle /\ \A s \in Scrapers : loc'[s] = loc[s]
    BY <1>1, Constants DEF IndInv, Shapes, Stop
<1>7. Shapes'
    BY <1>1, <1>3, <1>4, NothingPends DEF IndInv, Shapes, Stop
<1> HIDE DEF p, o, c
<1>8. Owned'
    BY <1>1, <1>3, <1>4, <1>5 DEF IndInv, Owned, p, o
<1>9. CallbackHand'
    BY <1>6, NothingPends DEF CallbackHand, Publishing, Naming
<1>10. ASSUME NEW s \in Scrapers PROVE ScraperHand(s)'
    <2>1. ScraperHand(s)
        BY DEF IndInv
    <2>2. Recycling(s) => loc[s].obj # o
        BY <1>3 DEF o
    <2>3. \A q \in Procs : instanceData[q] # None => instanceData'[q] # None
        BY <1>4, <1>5, Constants DEF o
    <2>4. Recycling(s) => /\ Untracked(loc[s].obj)'
                          /\ \A q \in Procs : pidToCurrentProcessData'[q] =
                                loc[s].obj => q = loc[s].proc
        BY <1>1, <1>5, <1>6, <2>1, <2>2 DEF ScraperHand, Untracked
    <2>5. QED
        BY <1>1, <1>6, <2>1, <2>3, <2>4 DEF ScraperHand, Recycling, Naming, Free
<1>11. NoInheritance'
    <2> SUFFICES ASSUME NEW k \in Procs \ {SystemProc}, instanceData'[k] # None,
                        NEW i \in Kinds, NEW q \in Procs, q # k
                 PROVE  counts[instanceData'[k]][i][q] = 0
        BY <1>1 DEF NoInheritance
    <2>1. CASE k = p
        BY <1>3, <1>5, <2>1, Constants DEF NoCounts, NoBag, o
    <2>2. CASE k # p
        BY <1>5, <2>2, Constants DEF IndInv, NoInheritance
    <2>3. QED
        BY <2>1, <2>2
<1>12. QED
    BY <1>7, <1>8, <1>9, <1>10, <1>11 DEF IndInv

\* A thread carries a tag to the process that its pid leads to.
LEMMA AddThreadInv ==
    ASSUME IndInv, NEW p \in Procs, NEW t \in Tags, AddThread(p, t)
    PROVE  IndInv'
<1> DEFINE o == pidToCurrentProcessData[p]
           l == Resolving(o, t)
<1>1. /\ o # None /\ loc' = [loc EXCEPT !["callback"] = l]
      /\ UNCHANGED <<tables, pc, scrape, cleanupMu>>
    BY DEF AddThread
<1>2. o \in Objs
    BY <1>1 DEF IndInv, Shapes
<1>3. /\ l \in Task /\ l.obj = o /\ l.tag = t
      /\ \A x : Pends(l, x) <=> x \in {"tag", "lookup", "name"}
    BY <1>2, Plans DEF Task, Idle, Resolving
<1> HIDE DEF l, o
<1>4. loc'["callback"] = l
    BY <1>1, Constants DEF IndInv, Shapes
<1>5. CallbackHand'
    BY <1>2, <1>3, <1>4 DEF CallbackHand, Publishing, Naming
<1>6. QED
    BY <1>1, <1>3, <1>5, CallbackFrame, TablesKept

-----------------------------------------------------------------------------
(* A scrape.                                                               *)

\* What a scrape may have in hand at a place other than the cleanup.
HandFits(l, x) ==
    /\ l \in Task /\ x \in Places \ {"cleanup"}
    /\ \A step \in {"publish", "process", "recycle"} : ~Pends(l, step)
    /\ Naming(l) => l.obj \in Objs /\ l.tag \in Tags
    /\ x \in {"query", "store", "key", "sum"} => l.todo = <<>> /\ l.obj \in Objs
    /\ x \in {"query", "store"} => l.tag \in Tags

\* The locals of one scrape change.
ScrapeOf(s) ==
    /\ DOMAIN scrape' = Scrapers /\ DOMAIN scrape'[s] = DOMAIN NoScrape
    /\ \A r \in Scrapers \ {s} : scrape'[r] = scrape[r]

LEMMA ScraperStep ==
    ASSUME IndInv, OwnersKept, NEW s \in Scrapers, NEW l, NEW x, HandFits(l, x),
           loc' = [loc EXCEPT ![s] = l], pc' = [pc EXCEPT ![s] = x],
           ScrapeOf(s),
           \A r \in Scrapers \ {s} : pc[r] = "cleanup" => cleanupMu' = r
    PROVE  IndInv'
<1>1. loc'[s] = l /\ pc'[s] = x
    BY Constants DEF IndInv, Shapes
<1>2. ScraperHand(s)'
    BY <1>1 DEF HandFits, ScraperHand, Recycling, Naming, Free, Pends
<1>3. l \in Task /\ x \in Places /\ ~Pends(l, "recycle")
    BY DEF HandFits
<1>4. QED
    BY <1>2, <1>3, ScraperFrame DEF ScrapeOf

\* A scrape that is at work outside the cleanup, or free, has what fits.
LEMMA HandsFit ==
    ASSUME IndInv, NEW s \in Scrapers, pc[s] # "cleanup"
    PROVE  HandFits(loc[s], pc[s])
<1>1. ScraperHand(s) /\ loc[s] \in Task /\ pc[s] \in Places
    BY Constants DEF IndInv, Shapes
<1>2. QED
    BY <1>1 DEF ScraperHand, HandFits, Recycling, Free

\* A scrape that recycles has nothing else to do; any other is not in the
\* cleanup when it has something to do.
LEMMA AtWork ==
    ASSUME IndInv, NEW s \in Scrapers, NEW step, At(s, step)
    PROVE  /\ loc[s] \in Task /\ ~Free(s) /\ Pends(loc[s], step)
           /\ step # "recycle" => pc[s] # "cleanup" /\ HandFits(loc[s], pc[s])
<1>1. loc[s] \in Task /\ loc[s].todo # <<>> /\ Head(loc[s].todo) = step
    BY Constants DEF IndInv, Shapes, At, Free
<1>2. Pends(loc[s], step)
    BY <1>1, StepTaken
<1>3. ScraperHand(s)
    BY DEF IndInv
<1>4. ASSUME step # "recycle" PROVE pc[s] # "cleanup"
    <2>1. ~Recycling(s)
        BY <1>2, <1>3, <1>4, Plans DEF ScraperHand
    <2>2. QED
        BY <1>1, <1>3, <2>1 DEF ScraperHand, Free
<1>5. QED
    BY <1>1, <1>2, <1>4, HandsFit DEF Free

\* A scrape goes on with the rest of a list of steps, ...
LEMMA RestOfScraper ==
    ASSUME IndInv, OwnersKept, NEW s \in Scrapers, NEW step, At(s, step),
           step # "recycle", loc' = Rest(s), UNCHANGED <<pc, cleanupMu>>,
           ScrapeOf(s)
    PROVE  IndInv'
<1> DEFINE l == loc[s]
           rest == [l EXCEPT !.todo = Tail(@)]
<1>1. /\ l \in Task /\ ~Free(s) /\ pc[s] # "cleanup" /\ HandFits(l, pc[s])
    BY AtWork
<1>2. l.todo # <<>>
    BY <1>1 DEF Free
<1>3. /\ rest \in Task
      /\ \A x : Pends(rest, x) => Pends(l, x)
      /\ rest.obj = l.obj /\ rest.tag = l.tag
    BY <1>1, <1>2, StepTaken
<1>4. loc' = [loc EXCEPT ![s] = rest] /\ pc' = [pc EXCEPT ![s] = pc[s]]
    BY <1>1, Constants DEF Rest, IndInv, Shapes
<1> HIDE DEF rest
<1>5. HandFits(rest, pc[s])
    BY <1>1, <1>2, <1>3 DEF HandFits, Naming
<1>6. \A r \in Scrapers \ {s} : pc[r] = "cleanup" => cleanupMu' = r
    BY DEF IndInv, ScraperHand
<1>7. QED
    BY <1>4, <1>5, <1>6, ScraperStep

\* ... or gives it up.
LEMMA StopScraper ==
    ASSUME IndInv, OwnersKept, NEW s \in Scrapers, NEW step, At(s, step),
           step # "recycle", loc' = Stop(s), UNCHANGED <<pc, scrape, cleanupMu>>
    PROVE  IndInv'
<1>1. ~Free(s) /\ pc[s] # "cleanup" /\ HandFits(loc[s], pc[s])
    BY AtWork
<1>2. pc[s] \notin {"query", "store", "key", "sum"} /\ pc[s] \in Places
    BY <1>1 DEF HandFits, Free
<1>3. HandFits(Idle, pc[s])
    BY <1>1, <1>2, NothingPends DEF HandFits, Naming
<1>4. /\ loc' = [loc EXCEPT ![s] = Idle] /\ pc' = [pc EXCEPT ![s] = pc[s]]
      /\ ScrapeOf(s)
    BY DEF Stop, IndInv, Shapes, ScrapeOf
<1>5. \A r \in Scrapers \ {s} : pc[r] = "cleanup" => cleanupMu' = r
    BY DEF IndInv, ScraperHand
<1>6. QED
    BY <1>3, <1>4, <1>5, ScraperStep

\* Either of them takes a step of resolveAndApplyServiceName.
LEMMA NamingInv ==
    ASSUME IndInv, NEW g \in Goroutines,
           StoreTag(g) \/ LookUpService(g) \/ StoreService(g)
    PROVE  IndInv'
<1>1. /\ UNCHANGED owners /\ UNCHANGED <<pc, scrape, cleanupMu>>
      /\ \E step \in {"tag", "lookup", "name"} : At(g, step)
      /\ loc' = Rest(g) \/ loc' = Stop(g)
    BY DEF StoreTag, LookUpService, StoreService, owners, tables
<1>2. PICK step \in {"tag", "lookup", "name"} : At(g, step)
    BY <1>1
<1>3. loc[g].obj \in Objs /\ loc[g].tag \in Tags
    <2>1. loc[g] \in Task /\ loc[g].todo # <<>> /\ Head(loc[g].todo) = step
        BY <1>2 DEF IndInv, Shapes, At, Free
    <2>2. Naming(loc[g])
        BY <1>2, <2>1, StepTaken DEF Naming
    <2>3. QED
        BY <2>2, Constants DEF IndInv, CallbackHand, ScraperHand
<1>4. OwnersKept
    <2>1. info[loc[g].obj] \in InfoRec
        BY <1>3 DEF IndInv, Shapes
    <2>2. /\ [info[loc[g].obj] EXCEPT !.tag = loc[g].tag] \in InfoRec
          /\ [info[loc[g].obj] EXCEPT !.service = loc[g].tag] \in InfoRec
        BY <1>3, <2>1 DEF InfoRec
    <2>3. \/ info' = info
          \/ info' = [info EXCEPT ![loc[g].obj] =
                        [info[loc[g].obj] EXCEPT !.tag = loc[g].tag]]
          \/ info' = [info EXCEPT ![loc[g].obj] =
                        [info[loc[g].obj] EXCEPT !.service = loc[g].tag]]
        BY DEF StoreTag, LookUpService, StoreService, Named, tables
    <2>4. info \in [Objs -> InfoRec]
        BY DEF IndInv, Shapes
    <2>5. info' \in [Objs -> InfoRec]
        BY <2>2, <2>3, <2>4
    <2>6. QED
        BY <1>1, <2>5 DEF OwnersKept
<1>5. CASE g = "callback"
    BY <1>1, <1>2, <1>4, <1>5, NotPublishing, RestOfCallback, StopCallbackInv
<1>6. CASE g \in Scrapers
    <2>1. ScrapeOf(g)
        BY <1>1, <1>6 DEF IndInv, Shapes, ScrapeOf
    <2>2. QED
        BY <1>1, <1>2, <1>4, <1>6, <2>1, RestOfScraper, StopScraper
<1>7. QED
    BY <1>5, <1>6, Constants

\* A scrape goes to another place with what it has in hand.
LEMMA ScraperGoes ==
    ASSUME IndInv, OwnersKept, NEW s \in Scrapers, NEW x, HandFits(loc[s], x),
           UNCHANGED loc, pc' = Go(s, x), ScrapeOf(s),
           \A r \in Scrapers \ {s} : pc[r] = "cleanup" => cleanupMu' = r
    PROVE  IndInv'
<1>1. loc' = [loc EXCEPT ![s] = loc[s]] /\ pc' = [pc EXCEPT ![s] = x]
    BY DEF IndInv, Shapes, Go
<1>2. QED
    BY <1>1, ScraperStep

\* The cleanup is somebody else's affair.
LEMMA OneCleans ==
    ASSUME IndInv, UNCHANGED cleanupMu
    PROVE  \A r \in Scrapers : pc[r] = "cleanup" => cleanupMu' = r
BY DEF IndInv, ScraperHand

\* A free hand fits where nothing is asked of it.
FreePlaces == Places \ {"cleanup", "query", "store", "key", "sum"}
LEMMA FreeHand ==
    ASSUME IndInv, NEW s \in Scrapers, Free(s), NEW x \in FreePlaces
    PROVE  HandFits(loc[s], x) /\ HandFits(Idle, x)
<1>1. loc[s] \in Task /\ loc[s].todo = <<>>
    BY Constants DEF IndInv, Shapes, Free
<1>2. QED
    BY <1>1, NothingPends DEF HandFits, Naming, FreePlaces

\* AggregateMetrics up to the first process, and its end.
LEMMA GoingInv ==
    ASSUME IndInv, NEW s \in Scrapers,
           \/ BeginScrape(s) \/ SnapshotServices(s) \/ ServicesApplied(s)
           \/ GetMap(s) \/ Swap(s) \/ ClearOld(s)
    PROVE  IndInv'
<1>1. Free(s) /\ UNCHANGED <<tables, loc, cleanupMu>>
    BY DEF BeginScrape, SnapshotServices, ServicesApplied, GetMap, Swap,
           ClearOld, InScrape, aggregation
<1>2. PICK x \in FreePlaces : pc' = Go(s, x)
    BY DEF BeginScrape, SnapshotServices, ServicesApplied, GetMap, Swap,
           ClearOld, FreePlaces, Places
<1>3. ScrapeOf(s)
    <2>1. CASE BeginScrape(s) \/ SnapshotServices(s) \/ ServicesApplied(s)
        BY <2>1 DEF BeginScrape, SnapshotServices, ServicesApplied, ScrapeOf,
            IndInv, Shapes
    <2>2. CASE GetMap(s)
        BY <2>2 DEF GetMap, ScrapeOf, IndInv, Shapes
    <2>3. CASE Swap(s) \/ ClearOld(s)
        BY <2>3 DEF Swap, ClearOld, ScrapeOf, Installed, IndInv, Shapes
    <2>4. QED
        BY <2>1, <2>2, <2>3
<1>4. QED
    BY <1>1, <1>2, <1>3, FreeHand, OneCleans, TablesKept, ScraperGoes

\* What a scrape has yet to visit are processes, or keys of the tables.
Visited(x) == IF x = "apply" THEN Procs ELSE Keys
Visits == \A s \in Scrapers :
    pc[s] \in {"apply", "range", "query", "store", "key", "sum"} =>
        scrape[s].toVisit \subseteq Visited(pc[s])

LEMMA ApplyServiceInv ==
    ASSUME IndInv, Visits, NEW s \in Scrapers, ApplyService(s)
    PROVE  IndInv'
<1>1. PICK p \in scrape[s].toVisit, t \in Tags :
        /\ t \in TagsOf[p]
        /\ scrape' = [scrape EXCEPT ![s].toVisit = @ \ {p}]
        /\ LET o == pidToCurrentProcessData[p]
           IN  loc' = IF t \in serviceTags /\ o # None
                      THEN [loc EXCEPT ![s] = Resolving(o, t)] ELSE loc
    BY DEF ApplyService
<1>2. Free(s) /\ pc[s] = "apply" /\ UNCHANGED <<tables, pc, cleanupMu>>
    BY DEF ApplyService, InScrape
<1>3. ScrapeOf(s) /\ pc' = Go(s, "apply")
    BY <1>1, <1>2 DEF ScrapeOf, IndInv, Shapes, Go
<1>4. "apply" \in FreePlaces
    BY DEF FreePlaces, Places
<1>5. CASE UNCHANGED loc
    BY <1>2, <1>3, <1>4, <1>5, FreeHand, OneCleans, TablesKept, ScraperGoes
<1>6. CASE /\ loc' =
              [loc EXCEPT ![s] = Resolving(pidToCurrentProcessData[p], t)]
           /\ pidToCurrentProcessData[p] # None
    <2> DEFINE o == pidToCurrentProcessData[p]
               l == Resolving(o, t)
    <2>1. p \in Procs
        BY <1>2 DEF Visits, Visited
    <2>2. o \in Objs
        BY <1>6, <2>1 DEF IndInv, Shapes
    <2>3. /\ l \in Task /\ l.obj = o /\ l.tag = t
          /\ \A x : Pends(l, x) <=> x \in {"tag", "lookup", "name"}
        BY <2>2, Plans DEF Task, Idle, Resolving
    <2> HIDE DEF l, o
    <2>4. HandFits(l, "apply")
        BY <1>4, <2>2, <2>3 DEF HandFits, FreePlaces
    <2>5. loc' = [loc EXCEPT ![s] = l] /\ pc' = [pc EXCEPT ![s] = "apply"]
        BY <1>3, <1>6 DEF l, o, Go
    <2>6. QED
        BY <1>2, <1>3, <2>4, <2>5, OneCleans, TablesKept, ScraperStep
<1>7. QED
    BY <1>1, <1>5, <1>6

\* The object that is visited goes to a query when its service has no name.
LEMMA VisitProcessInv ==
    ASSUME IndInv, Visits, NEW s \in Scrapers, VisitProcess(s)
    PROVE  IndInv'
<1>1. PICK k \in scrape[s].toVisit :
        LET o == instanceData[k]
            t == info[o].tag
            unnamed == /\ o # None /\ t # None /\ info[o].service = None
                       /\ t \notin scrape[s].attempted
        IN  /\ loc' = IF o = None THEN loc
                      ELSE [loc EXCEPT ![s].obj = o,
                                ![s].tag = IF unnamed THEN t ELSE None]
            /\ scrape' = [scrape EXCEPT ![s].toVisit = @ \ {k},
                    ![s].attempted = IF unnamed THEN @ \union {t} ELSE @]
            /\ pc' = IF o = None THEN pc
                     ELSE Go(s, IF unnamed THEN "query" ELSE "key")
    BY DEF VisitProcess
<1>2. Free(s) /\ pc[s] = "range" /\ UNCHANGED <<tables, cleanupMu>>
    BY DEF VisitProcess, InScrape
<1>3. ScrapeOf(s)
    BY <1>1 DEF ScrapeOf, IndInv, Shapes
<1> DEFINE o == instanceData[k]
<1>4. CASE o = None
    <2>1. "range" \in FreePlaces /\ pc' = Go(s, "range") /\ UNCHANGED loc
        BY <1>1, <1>2, <1>4 DEF FreePlaces, Places, Go, IndInv, Shapes
    <2>2. QED
        BY <1>2, <1>3, <2>1, FreeHand, OneCleans, TablesKept, ScraperGoes
<1>5. CASE o # None
    <2>1. o \in Objs
        BY <1>2, <1>5 DEF Visits, Visited, IndInv, Shapes
    <2>2. info[o].tag \in Tags \union {None}
        BY <2>1 DEF IndInv, Shapes, InfoRec
    <2>3. PICK x \in {"query", "key"}, t \in Tags \union {None} :
            /\ loc' = [loc EXCEPT ![s].obj = o, ![s].tag = t]
            /\ pc' = Go(s, x)
            /\ x = "query" => t # None
        <3>1. CASE /\ info[o].tag # None /\ info[o].service = None
                   /\ info[o].tag \notin scrape[s].attempted
            BY <1>1, <1>5, <2>2, <3>1
        <3>2. CASE ~(/\ info[o].tag # None /\ info[o].service = None
                     /\ info[o].tag \notin scrape[s].attempted)
            BY <1>1, <1>5, <3>2
        <3>3. QED
            BY <3>1, <3>2
    <2> DEFINE l == [loc[s] EXCEPT !.obj = o, !.tag = t]
    <2>4. loc[s] \in Task /\ loc[s].todo = <<>>
        BY <1>2, Constants DEF IndInv, Shapes, Free
    <2>5. l \in Task /\ l.todo = <<>> /\ l.obj = o /\ l.tag = t
        BY <2>1, <2>4 DEF Task
    <2>6. loc' = [loc EXCEPT ![s] = l] /\ pc' = [pc EXCEPT ![s] = x]
        BY <2>3, Constants DEF IndInv, Shapes, Go
    <2> HIDE DEF l, o
    <2>7. HandFits(l, x)
        BY <2>1, <2>3, <2>5, NothingPends DEF HandFits, Naming, Places
    <2>8. QED
        BY <1>2, <1>3, <2>6, <2>7, OneCleans, TablesKept, ScraperStep
<1>6. QED
    BY <1>4, <1>5

\* The query and what comes of it.
LEMMA QueryInv ==
    ASSUME IndInv, NEW s \in Scrapers,
           QueryServiceName(s) \/ StoreQueried(s) \/ ReadKey(s)
    PROVE  IndInv'
<1>1. /\ Free(s) /\ pc[s] \in {"query", "store", "key"}
      /\ UNCHANGED owners /\ UNCHANGED <<loc, cleanupMu>>
    BY DEF QueryServiceName, StoreQueried, ReadKey, InScrape, owners, tables
<1>2. HandFits(loc[s], pc[s])
    BY <1>1, HandsFit
<1>3. PICK x \in {"key", "store", "sum"} :
        pc' = Go(s, x) /\ (x = "store" => pc[s] = "query")
    BY DEF QueryServiceName, StoreQueried, ReadKey, InScrape
<1>4. HandFits(loc[s], x)
    BY <1>1, <1>2, <1>3 DEF HandFits, Places
<1>5. ScrapeOf(s)
    BY DEF QueryServiceName, StoreQueried, ReadKey, ScrapeOf, IndInv, Shapes
<1>6. OwnersKept
    <2>1. CASE UNCHANGED tables
        BY <2>1, TablesKept
    <2>2. CASE StoreQueried(s)
        <3>1. loc[s].obj \in Objs /\ loc[s].tag \in Tags
            BY <1>2, <2>2 DEF HandFits, StoreQueried, InScrape
        <3>2. info \in [Objs -> InfoRec] /\ info[loc[s].obj] \in InfoRec
            BY <3>1 DEF IndInv, Shapes
        <3>3. [info[loc[s].obj] EXCEPT !.service = loc[s].tag] \in InfoRec
            BY <3>1, <3>2 DEF InfoRec
        <3>4. \/ info' = info
              \/ info' = [info EXCEPT ![loc[s].obj] =
                            [info[loc[s].obj] EXCEPT !.service = loc[s].tag]]
            BY <2>2 DEF StoreQueried, Named
        <3>5. info' \in [Objs -> InfoRec]
            BY <3>2, <3>3, <3>4
        <3>6. QED
            BY <1>1, <3>5 DEF OwnersKept
    <2>3. QED
        BY <2>1, <2>2 DEF QueryServiceName, ReadKey
<1>7. QED
    BY <1>1, <1>3, <1>4, <1>5, <1>6, OneCleans, ScraperGoes
\* The object is let go of, and the next one is visited.
LEMMA SumCountersInv ==
    ASSUME IndInv, NEW s \in Scrapers, SumCounters(s)
    PROVE  IndInv'
<1>1. /\ Free(s) /\ UNCHANGED <<tables, scrape, cleanupMu>>
      /\ loc' = [loc EXCEPT ![s] = Idle] /\ pc' = [pc EXCEPT ![s] = "range"]
    BY DEF SumCounters, InScrape, Stop, Go
<1>2. ScrapeOf(s)
    BY <1>1 DEF ScrapeOf, IndInv, Shapes
<1>3. HandFits(Idle, "range")
    BY <1>1, FreeHand DEF FreePlaces, Places
<1>4. QED
    BY <1>1, <1>2, <1>3, OneCleans, TablesKept, ScraperStep

\* The collectors.
LEMMA CollectInv ==
    ASSUME IndInv, NEW s \in Scrapers,
           \/ \E kind \in Kinds : Collect(s, kind)
           \/ CollectTotal(s) \/ HoldMap(s) \/ CollectPrograms(s)
    PROVE  IndInv'
<1>1. CASE CollectTotal(s) \/ HoldMap(s) \/ CollectPrograms(s)
    <2>1. /\ \E step \in {"total", "hold", "programs"} : At(s, step)
          /\ UNCHANGED <<tables, pc, cleanupMu>> /\ loc' = Rest(s)
        BY <1>1 DEF CollectTotal, HoldMap, CollectPrograms
    <2>2. ScrapeOf(s)
        BY <1>1 DEF CollectTotal, HoldMap, CollectPrograms, ScrapeOf, IndInv,
                    Shapes
    <2>3. QED
        BY <2>1, <2>2, RestOfScraper, TablesKept
<1>2. CASE \E kind \in Kinds : Collect(s, kind)
    <2>1. PICK kind \in Kinds : Collect(s, kind)
        BY <1>2
    <2> DEFINE l == [Idle EXCEPT !.todo = CollectOrder(kind), !.kind = kind]
    <2>2. /\ pc[s] = "collect" /\ UNCHANGED <<tables, pc, cleanupMu>>
          /\ loc' = [loc EXCEPT ![s] = l]
        BY <2>1 DEF Collect, InScrape
    <2>3. ScrapeOf(s) /\ pc' = [pc EXCEPT ![s] = "collect"]
        BY <2>1, <2>2 DEF Collect, ScrapeOf, IndInv, Shapes
    <2>4. /\ l \in Task
          /\ \A x : Pends(l, x) <=> x \in {"total", "hold", "programs"}
        BY Plans DEF Task, Idle
    <2> HIDE DEF l
    <2>5. HandFits(l, "collect")
        BY <2>4 DEF HandFits, Naming, Places
    <2>6. QED
        BY <2>2, <2>3, <2>5, OneCleans, TablesKept, ScraperStep
<1>3. QED
    BY <1>1, <1>2

-----------------------------------------------------------------------------
(* The cleanup.                                                            *)

\* One scrape at a time begins it, and ends it when nothing is left to remove.
LEMMA BeginCleanupInv ==
    ASSUME IndInv, NEW s \in Scrapers, BeginCleanup(s)
    PROVE  IndInv'
<1>1. PICK expired \in SUBSET {p \in Procs : /\ phase[p] = "ended"
                                             /\ instanceData[p] # None} :
        scrape' = [scrape EXCEPT ![s].toVisit = expired]
    BY DEF BeginCleanup
<1>2. /\ Free(s) /\ UNCHANGED <<tables, loc>>
      /\ pc' = [pc EXCEPT ![s] = "cleanup"]
      /\ cleanupMu = None /\ cleanupMu' = s
    BY DEF BeginCleanup, InScrape, Go
<1>3. loc[s] \in Task /\ loc[s].todo = <<>> /\ loc' = [loc EXCEPT ![s] = loc[s]]
    BY <1>2, Constants DEF IndInv, Shapes, Free
<1>4. \A x : ~Pends(loc[s], x)
    BY <1>3, NothingPends
<1>5. ScrapeOf(s) /\ scrape'[s].toVisit = expired
    BY <1>1 DEF ScrapeOf, IndInv, Shapes, NoScrape
<1>6. \A r \in Scrapers : pc[r] # "cleanup"
    BY <1>2, Constants DEF IndInv, ScraperHand
<1>7. pc'[s] = "cleanup" /\ UNCHANGED instanceData
    BY <1>2 DEF IndInv, Shapes, tables
<1>8. ScraperHand(s)'
    BY <1>2, <1>3, <1>4, <1>5, <1>7
       DEF ScraperHand, Recycling, Naming, Free
<1>9. "cleanup" \in Places
    BY DEF Places
<1>10. QED
    BY <1>2, <1>3, <1>4, <1>5, <1>6, <1>8, <1>9, TablesKept, ScraperFrame
       DEF ScrapeOf

LEMMA EndScrapeInv ==
    ASSUME IndInv, NEW s \in Scrapers, EndScrape(s)
    PROVE  IndInv'
<1>1. /\ Free(s) /\ pc[s] = "cleanup" /\ UNCHANGED <<tables, loc>>
      /\ pc' = Go(s, "idle") /\ scrape' = [scrape EXCEPT ![s] = NoScrape]
    BY DEF EndScrape, InScrape
<1>2. \A r \in Scrapers \ {s} : pc[r] # "cleanup"
    BY <1>1 DEF IndInv, ScraperHand
<1>3. ScrapeOf(s)
    BY <1>1 DEF ScrapeOf, IndInv, Shapes
<1>4. "idle" \in FreePlaces
    BY DEF FreePlaces, Places
<1>5. QED
    BY <1>1, <1>2, <1>3, <1>4, FreeHand, TablesKept, ScraperGoes

\* The only scrape that cleans up is the one that does.
LEMMA OthersElsewhere ==
    ASSUME IndInv, NEW s \in Scrapers, pc[s] = "cleanup"
    PROVE  \A r \in Scrapers \ {s} : pc[r] # "cleanup" /\ ~Recycling(r)
BY DEF IndInv, ScraperHand

\* A process leaves the table by start key; its object is in hand.
LEMMA UntrackInv ==
    ASSUME IndInv, NEW s \in Scrapers, Untrack(s)
    PROVE  IndInv'
<1>1. PICK p \in scrape[s].toVisit :
        /\ loc' = [loc EXCEPT ![s] = [Idle EXCEPT
                !.todo = <<"recycle">>, !.proc = p, !.obj = instanceData[p]]]
        /\ instanceData' = [instanceData EXCEPT ![p] = None]
        /\ scrape' = [scrape EXCEPT ![s].toVisit = @ \ {p}]
    BY DEF Untrack
<1>2. /\ pc[s] = "cleanup" /\ Free(s)
      /\ UNCHANGED <<pidToCurrentProcessData, info, counts, processDataPool, pc,
                     cleanupMu>>
    BY DEF Untrack, InScrape
<1> DEFINE o == instanceData[p]
           l == [Idle EXCEPT !.todo = <<"recycle">>, !.proc = p, !.obj = o]
<1>3. /\ p \in Procs /\ p \in Keys /\ o # None
      /\ \A q \in scrape[s].toVisit : q \in Procs /\ q \in Keys
                                      /\ instanceData[q] # None
    BY <1>2, Constants DEF IndInv, ScraperHand
<1>4. /\ o \in Objs /\ o \notin processDataPool
      /\ \A k \in Keys \ {p} : instanceData[k] # o
      /\ \A q \in Procs : pidToCurrentProcessData[q] = o => q = p
    BY <1>3 DEF IndInv, Shapes, Owned
<1>5. /\ l \in Task /\ l.todo = <<"recycle">> /\ l.proc = p /\ l.obj = o
      /\ \A x : Pends(l, x) <=> x = "recycle"
    BY <1>3, <1>4, Plans DEF Task, Idle
<1>6. /\ instanceData'[p] = None
      /\ \A k \in Keys \ {p} : instanceData'[k] = instanceData[k]
    BY <1>1, <1>3 DEF IndInv, Shapes
<1>7. loc' = [loc EXCEPT ![s] = l]
    BY <1>1
<1> HIDE DEF l
<1>8. /\ loc'[s] = l /\ loc'["callback"] = loc["callback"]
      /\ \A r \in Scrapers \ {s} : loc'[r] = loc[r]
    BY <1>7, Constants DEF IndInv, Shapes
<1>9. /\ scrape'[s].toVisit = scrape[s].toVisit \ {p} /\ ScrapeOf(s)
    BY <1>1 DEF ScrapeOf, IndInv, Shapes, NoScrape
<1>10. Shapes'
    <2>1. instanceData' \in [Keys -> Objs \union {None}]
        BY <1>1 DEF IndInv, Shapes
    <2>2. loc' \in [Goroutines -> Task]
        BY <1>5, <1>7 DEF IndInv, Shapes
    <2>3. QED
        BY <1>2, <1>9, <2>1, <2>2 DEF IndInv, Shapes, ScrapeOf
<1> HIDE DEF o
<1>11. Owned'
    BY <1>2, <1>6, Constants DEF IndInv, Owned, Shapes
<1>12. CallbackHand'
    <2>1. CallbackHand
        BY DEF IndInv
    <2>2. Publishing => loc["callback"].obj # o
        BY <1>3, <2>1 DEF CallbackHand, Untracked, o
    <2>3. \A x : Untracked(x) => Untracked(x)'
        BY <1>2, <1>6, Constants DEF Untracked
    <2>4. \A x : \A k \in Keys :
            x # None /\ instanceData[k] # x => instanceData'[k] # x
        BY <1>6
    <2>5. \A r \in Scrapers : Recycling(r)' =>
            loc'[r].obj = o \/ (Recycling(r) /\ loc'[r].obj = loc[r].obj)
        BY <1>5, <1>8 DEF Recycling
    <2>6. Publishing' => Publishing
        BY <1>8 DEF Publishing
    <2>7. ASSUME Publishing'
          PROVE  /\ loc["callback"].todo = <<"publish">>
                 /\ loc["callback"].proc \in Procs
                 /\ Untracked(loc["callback"].obj)'
                 /\ counts'[loc["callback"].obj] = NoCounts
                 /\ \A q \in Procs :
                        pidToCurrentProcessData'[q] # loc["callback"].obj
                 /\ \A r \in Scrapers : Recycling(r)' =>
                        loc'[r].obj # loc["callback"].obj
        BY <1>2, <1>8, <2>1, <2>2, <2>3, <2>5, <2>6, <2>7
           DEF CallbackHand, Untracked
    <2>8. QED
        BY <1>2, <1>8, <2>1, <2>4, <2>7, Constants DEF CallbackHand, Naming
<1>13. ASSUME NEW r \in Scrapers PROVE ScraperHand(r)'
    <2>1. CASE r = s
        <3>1. ~Naming(l) /\ ~Pends(l, "publish") /\ ~Pends(l, "process")
            BY <1>5 DEF Naming
        <3>2. Untracked(loc[s].obj)'
            BY <1>2, <1>3, <1>4, <1>5, <1>6, <1>8, Constants DEF Untracked
        <3>3. \A q \in scrape'[s].toVisit :
                q \in Procs /\ instanceData'[q] # None
            BY <1>3, <1>6, <1>9
        <3>4. cleanupMu = s
            BY <1>2 DEF IndInv, ScraperHand
        <3>5. QED
            BY <1>2, <1>3, <1>4, <1>5, <1>8, <2>1, <3>1, <3>2, <3>3, <3>4
               DEF ScraperHand, Recycling
    <2>2. CASE r # s
        <3>1. ScraperHand(r) /\ pc[r] # "cleanup" /\ ~Recycling(r)
            BY <1>2, <2>2, OthersElsewhere DEF IndInv
        <3>2. QED
            BY <1>2, <1>8, <2>2, <3>1 DEF ScraperHand, Recycling, Naming, Free
    <2>3. QED
        BY <2>1, <2>2
<1>14. NoInheritance'
    BY <1>2, <1>6, Constants DEF IndInv, NoInheritance
<1>15. QED
    BY <1>10, <1>11, <1>12, <1>13, <1>14 DEF IndInv

\* Then the table by pid, and its object is back in the pool.
LEMMA RecycleInv ==
    ASSUME IndInv, NEW s \in Scrapers, Recycle(s)
    PROVE  IndInv'
<1> DEFINE l == loc[s]
           o == loc[s].obj
<1>1. /\ At(s, "recycle") /\ loc' = [loc EXCEPT ![s] = Idle]
      /\ pidToCurrentProcessData' =
            [pidToCurrentProcessData EXCEPT ![l.proc] = None]
      /\ processDataPool' = processDataPool \union {o}
      /\ UNCHANGED <<instanceData, info, counts, pc, scrape, cleanupMu>>
    BY DEF Recycle, Stop
<1>2. Recycling(s)
    BY <1>1, AtWork DEF Recycling
<1>3. /\ pc[s] = "cleanup" /\ l.proc \in Procs /\ Untracked(o) /\ cleanupMu = s
      /\ \A p \in Procs : pidToCurrentProcessData[p] = o => p = l.proc
    BY <1>2 DEF IndInv, ScraperHand
<1>4. /\ o \in Objs /\ o # None /\ o \notin processDataPool
      /\ \A k \in Keys : instanceData[k] # o
    BY <1>3, Constants DEF Untracked
<1>5. /\ pidToCurrentProcessData'[l.proc] = None
      /\ \A q \in Procs \ {l.proc} :
            pidToCurrentProcessData'[q] = pidToCurrentProcessData[q]
      /\ \A q \in Procs : pidToCurrentProcessData'[q] # o
    BY <1>1, <1>3, <1>4 DEF IndInv, Shapes
<1>6. /\ loc'[s] = Idle /\ loc'["callback"] = loc["callback"]
      /\ \A r \in Scrapers \ {s} : loc'[r] = loc[r]
    BY <1>1, Constants DEF IndInv, Shapes
<1>7. Shapes'
    BY <1>1, <1>4, NothingPends DEF IndInv, Shapes
<1> HIDE DEF o, l
<1>8. Owned'
    BY <1>1, <1>4, <1>5, Constants DEF IndInv, Owned, Shapes
<1>9. CallbackHand'
    <2>1. CallbackHand
        BY DEF IndInv
    <2>2. \A x : x # o /\ Untracked(x) => Untracked(x)'
        BY <1>1 DEF Untracked
    <2>3. Publishing' => Publishing /\ loc["callback"].obj # o
        BY <1>2, <1>6, <2>1 DEF CallbackHand, Publishing, o
    <2>4. \A x : \A q \in Procs :
            x # None /\ pidToCurrentProcessData[q] # x
                => pidToCurrentProcessData'[q] # x
        BY <1>5
    <2>5. \A r \in Scrapers : Recycling(r)' => Recycling(r) /\ loc'[r] = loc[r]
        BY <1>6, NothingPends DEF Recycling
    <2>6. ASSUME Publishing'
          PROVE  /\ loc["callback"].todo = <<"publish">>
                 /\ loc["callback"].proc \in Procs
                 /\ Untracked(loc["callback"].obj)'
                 /\ counts'[loc["callback"].obj] = NoCounts
                 /\ \A q \in Procs :
                        pidToCurrentProcessData'[q] # loc["callback"].obj
                 /\ \A r \in Scrapers : Recycling(r)' =>
                        loc'[r].obj # loc["callback"].obj
        BY <1>1, <1>6, <2>1, <2>2, <2>3, <2>4, <2>5, <2>6, Constants
           DEF CallbackHand, Untracked
    <2>7. QED
        BY <1>1, <1>6, <2>1, <2>6 DEF CallbackHand, Naming
<1>10. ASSUME NEW r \in Scrapers PROVE ScraperHand(r)'
    <2>1. CASE r = s
        <3>1. \A x : ~Pends(Idle, x)
            BY NothingPends
        <3>2. \A p \in scrape[s].toVisit : p \in Procs /\ instanceData[p] # None
            BY <1>3 DEF IndInv, ScraperHand
        <3>3. QED
            BY <1>1, <1>3, <1>6, <2>1, <3>1, <3>2, NothingPends
               DEF ScraperHand, Recycling, Naming, Free
    <2>2. CASE r # s
        <3>1. ScraperHand(r) /\ pc[r] # "cleanup" /\ ~Recycling(r)
            BY <1>3, <2>2, OthersElsewhere DEF IndInv
        <3>2. QED
            BY <1>1, <1>6, <2>2, <3>1 DEF ScraperHand, Recycling, Naming, Free
    <2>3. QED
        BY <2>1, <2>2
<1>11. NoInheritance'
    BY <1>1 DEF IndInv, NoInheritance
<1>12. QED
    BY <1>7, <1>8, <1>9, <1>10, <1>11 DEF IndInv

-----------------------------------------------------------------------------
(* Any step.                                                               *)

\* A step that touches neither the objects nor what anybody is doing.
LEMMA NothingDone ==
    IndInv /\ UNCHANGED <<tables, loc, pc, scrape, cleanupMu>> => IndInv'
BY DEF IndInv, Shapes, Owned, CallbackHand, ScraperHand, NoInheritance, tables,
       Publishing, Recycling, Naming, Untracked, Pends, Free

LEMMA NextInv == IndInv /\ Visits /\ [Next]_vars => IndInv'
<1> SUFFICES ASSUME IndInv, Visits, [Next]_vars
             PROVE  IndInv'
    OBVIOUS
<1>1. CASE UNCHANGED vars
    BY <1>1, NothingDone DEF vars
<1>2. CASE Waiting
    BY <1>2, NothingDone DEF Waiting, vars
<1>3. CASE CallbackStarts
    BY <1>3, EventInv, AddProcessInv, AddThreadInv, NothingDone
       DEF CallbackStarts, MarkProcessForDeletion, RegisterServiceTag
<1>4. CASE CallbackWorks
    BY <1>4, ResolveProcessInv, CountSystemWideInv, CountForProcessInv,
       PublishProcessInv DEF CallbackWorks
<1>5. CASE \E g \in Goroutines :
            StoreTag(g) \/ LookUpService(g) \/ StoreService(g)
    BY <1>5, NamingInv
<1>6. CASE \E s \in Scrapers : AggregateMetrics(s)
    <2>1. PICK s \in Scrapers : AggregateMetrics(s)
        BY <1>6
    <2>2. CASE \/ BeginScrape(s) \/ SnapshotServices(s) \/ ServicesApplied(s)
               \/ GetMap(s) \/ Swap(s) \/ ClearOld(s)
        BY <2>2, GoingInv
    <2>3. CASE ApplyService(s) \/ VisitProcess(s)
        BY <2>3, ApplyServiceInv, VisitProcessInv
    <2>4. CASE QueryServiceName(s) \/ StoreQueried(s) \/ ReadKey(s)
        BY <2>4, QueryInv
    <2>5. CASE SumCounters(s)
        BY <2>5, SumCountersInv
    <2>6. QED
        BY <2>1, <2>2, <2>3, <2>4, <2>5 DEF AggregateMetrics
<1>7. CASE \E s \in Scrapers : CollectAndClean(s)
    <2>1. PICK s \in Scrapers : CollectAndClean(s)
        BY <1>7
    <2>2. CASE \/ \E kind \in Kinds : Collect(s, kind)
               \/ CollectTotal(s) \/ HoldMap(s) \/ CollectPrograms(s)
        BY <2>2, CollectInv
    <2>3. CASE BeginCleanup(s) \/ Untrack(s) \/ Recycle(s) \/ EndScrape(s)
        BY <2>3, BeginCleanupInv, UntrackInv, RecycleInv, EndScrapeInv
    <2>4. QED
        BY <2>1, <2>2, <2>3 DEF CollectAndClean
<1>8. QED
    BY <1>1, <1>2, <1>3, <1>4, <1>5, <1>6, <1>7 DEF Next

\* Only the steps that fill a list of what to visit, or read it, concern it.
LEMMA VisitsInv == IndInv /\ Visits /\ [Next]_vars => Visits'
<1> SUFFICES ASSUME IndInv, Visits, [Next]_vars
             PROVE  Visits'
    OBVIOUS
<1>1. ASSUME UNCHANGED <<pc, scrape>> PROVE Visits'
    BY <1>1 DEF Visits
<1>2. ASSUME NEW s \in Scrapers, NEW x, pc' = Go(s, x), ScrapeOf(s),
             x \in {"apply", "range", "query", "store", "key", "sum"} =>
                scrape'[s].toVisit \subseteq Visited(x)
      PROVE  Visits'
    BY <1>2 DEF Visits, Visited, ScrapeOf, Go, IndInv, Shapes
<1>3. CASE \/ UNCHANGED vars \/ Waiting \/ CallbackStarts \/ CallbackWorks
           \/ \E g \in Goroutines :
                StoreTag(g) \/ LookUpService(g) \/ StoreService(g)
    <2>1. UNCHANGED <<pc, scrape>>
        BY <1>3 DEF vars, Waiting, CallbackStarts, Event, AddProcess,
            MarkProcessForDeletion, RegisterServiceTag, AddThread,
            CallbackWorks, ResolveProcess, CountSystemWide, CountForProcess,
            PublishProcess, StoreTag, LookUpService, StoreService
    <2>2. QED
        BY <1>1, <2>1
<1>4. ASSUME NEW s \in Scrapers, AggregateMetrics(s)
      PROVE  Visits'
    <2>1. ScrapeOf(s)
        <3>1. CASE \/ BeginScrape(s) \/ SnapshotServices(s) \/ ApplyService(s)
                   \/ ServicesApplied(s)
            BY <3>1 DEF ScrapeOf, IndInv, Shapes, BeginScrape,
                SnapshotServices, ApplyService, ServicesApplied
        <3>2. CASE GetMap(s) \/ VisitProcess(s) \/ QueryServiceName(s)
            BY <3>2 DEF ScrapeOf, IndInv, Shapes, GetMap, VisitProcess,
                QueryServiceName
        <3>3. CASE StoreQueried(s) \/ ReadKey(s) \/ SumCounters(s)
            BY <3>3 DEF ScrapeOf, IndInv, Shapes, StoreQueried, ReadKey,
                SumCounters
        <3>4. CASE Swap(s) \/ ClearOld(s)
            BY <3>4 DEF ScrapeOf, IndInv, Shapes, Swap, ClearOld, Installed
        <3>5. QED
            BY <1>4, <3>1, <3>2, <3>3, <3>4 DEF AggregateMetrics
    <2>2. CASE BeginScrape(s) \/ ServicesApplied(s) \/ Swap(s) \/ ClearOld(s)
        <3>1. \E x \in {"services", "get", "clear", "collect"} : pc' = Go(s, x)
            BY <2>2 DEF BeginScrape, ServicesApplied, Swap, ClearOld
        <3>2. QED
            BY <1>2, <2>1, <3>1
    <2>3. CASE SnapshotServices(s)
        <3>1. scrape'[s].toVisit \subseteq Procs
            BY <2>3 DEF SnapshotServices, IndInv, Shapes, NoScrape
        <3>2. QED
            BY <1>2, <2>1, <2>3, <3>1 DEF SnapshotServices, Visited
    <2>4. CASE ApplyService(s)
        <3>1. pc[s] = "apply" /\ UNCHANGED pc
            BY <2>4 DEF ApplyService, InScrape
        <3>2. scrape'[s].toVisit \subseteq scrape[s].toVisit
            BY <2>4 DEF ApplyService, IndInv, Shapes, NoScrape
        <3>3. pc' = Go(s, "apply")
            BY <3>1 DEF Go, IndInv, Shapes
        <3>4. QED
            BY <1>2, <2>1, <3>1, <3>2, <3>3 DEF Visits, Visited
    <2>5. CASE GetMap(s)
        <3>1. scrape'[s].toVisit \subseteq Keys
            BY <2>5 DEF GetMap, IndInv, Shapes, NoScrape
        <3>2. QED
            BY <1>2, <2>1, <2>5, <3>1 DEF GetMap, Visited
    <2>6. CASE \/ VisitProcess(s) \/ QueryServiceName(s) \/ StoreQueried(s)
               \/ ReadKey(s) \/ SumCounters(s)
        <3>1. pc[s] \in {"range", "query", "store", "key", "sum"}
            BY <2>6 DEF VisitProcess, QueryServiceName, StoreQueried, ReadKey,
                        SumCounters, InScrape
        <3>2. scrape'[s].toVisit \subseteq scrape[s].toVisit
            <4>1. CASE VisitProcess(s)
                BY <4>1 DEF VisitProcess, IndInv, Shapes, NoScrape
            <4>2. CASE ReadKey(s)
                BY <4>2 DEF ReadKey, IndInv, Shapes, NoScrape
            <4>3. CASE QueryServiceName(s) \/ StoreQueried(s) \/ SumCounters(s)
                BY <4>3 DEF QueryServiceName, StoreQueried, SumCounters
            <4>4. QED
                BY <2>6, <4>1, <4>2, <4>3
        <3>3. \E x \in {"range", "query", "store", "key", "sum"} :
                pc' = Go(s, x)
            <4>1. pc = Go(s, pc[s])
                BY DEF Go, IndInv, Shapes
            <4>2. QED
                BY <2>6, <3>1, <4>1 DEF VisitProcess, QueryServiceName,
                    StoreQueried, ReadKey, SumCounters
        <3>4. QED
            BY <1>2, <2>1, <3>1, <3>2, <3>3 DEF Visits, Visited
    <2>7. QED
        BY <1>4, <2>2, <2>3, <2>4, <2>5, <2>6 DEF AggregateMetrics
<1>5. ASSUME NEW s \in Scrapers, CollectAndClean(s)
      PROVE  Visits'
    <2>1. ScrapeOf(s)
        BY <1>5 DEF ScrapeOf, IndInv, Shapes, CollectAndClean, Collect,
            CollectTotal, HoldMap, CollectPrograms, BeginCleanup, Untrack,
            Recycle, EndScrape
    <2>2. CASE BeginCleanup(s) \/ EndScrape(s)
        BY <1>2, <2>1, <2>2 DEF BeginCleanup, EndScrape
    <2>3. CASE ~(BeginCleanup(s) \/ EndScrape(s))
        <3>1. UNCHANGED pc
            BY <1>5, <2>3 DEF CollectAndClean, Collect, CollectTotal, HoldMap,
                CollectPrograms, Untrack, Recycle
        <3>2. scrape'[s].toVisit \subseteq scrape[s].toVisit
            <4>1. CASE \E kind \in Kinds : Collect(s, kind)
                BY <4>1 DEF Collect, IndInv, Shapes, NoScrape
            <4>2. CASE CollectTotal(s) \/ HoldMap(s)
                BY <4>2 DEF CollectTotal, HoldMap, IndInv, Shapes, NoScrape
            <4>3. CASE CollectPrograms(s)
                BY <4>3 DEF CollectPrograms, IndInv, Shapes, NoScrape
            <4>4. CASE Untrack(s)
                BY <4>4 DEF Untrack, IndInv, Shapes, NoScrape
            <4>5. CASE Recycle(s)
                BY <4>5 DEF Recycle
            <4>6. QED
                BY <1>5, <2>3, <4>1, <4>2, <4>3, <4>4, <4>5
                   DEF CollectAndClean
        <3>3. QED
            BY <2>1, <3>1, <3>2 DEF Visits, ScrapeOf
    <2>4. QED
        BY <2>2, <2>3
<1>6. QED
    BY <1>3, <1>4, <1>5 DEF Next

-----------------------------------------------------------------------------
(* The theorems that hold for any number of scrapes at a time.             *)

LEMMA Invariant == Spec => [](IndInv /\ Visits)
<1>1. Init => IndInv /\ Visits
    <2>1. ASSUME Init PROVE Visits
        BY <2>1 DEF Init, Visits
    <2>2. QED
        BY <2>1, InitInv
<1>2. IndInv /\ Visits /\ [Next]_vars => (IndInv /\ Visits)'
    BY NextInv, VisitsInv
<1>3. QED
    BY <1>1, <1>2, PTL DEF Spec

\* The counters of a tracked process hold events of that process only, although
\* an event may still be counted in an object that has been given back:
\* AddProcess empties what it takes, and nothing is counted in it before it is
\* published.
THEOREM CountsNotInherited == Spec => []NoInheritance
<1>1. IndInv => NoInheritance
    BY DEF IndInv
<1>2. QED
    BY <1>1, Invariant, PTL

\* A process that has got its service keeps it: the service of an object is set
\* when it has none, or when the object is taken from the pool for a process
\* that is not tracked yet.
THEOREM ServicesKept == Spec => ServiceStable
<1>1. ASSUME IndInv, [Next]_vars, NEW k \in Procs, instanceData[k] # None,
             info[instanceData[k]].service # None
      PROVE  info'[instanceData[k]].service = info[instanceData[k]].service
    <2> DEFINE o == instanceData[k]
    <2>1. o \in Objs /\ o \notin processDataPool /\ info \in [Objs -> InfoRec]
        BY <1>1, Constants DEF IndInv, Shapes, Owned
    <2> HIDE DEF o
    <2>2. info[o].service # None
        BY <1>1 DEF o
    <2>3. CASE UNCHANGED info
        BY <2>3 DEF o
    <2>4. CASE \E p \in Procs : AddProcess(p)
        <3>1. \E x \in processDataPool : \E r :
                info' = [info EXCEPT ![x] = r]
            BY <2>4 DEF AddProcess
        <3>2. info'[o] = info[o]
            BY <2>1, <3>1
        <3>3. QED
            BY <3>2 DEF o
    <2>5. CASE \E g \in Goroutines : StoreTag(g)
        <3>1. info' = info \/ \E x, t : info' = [info EXCEPT ![x].tag = t]
            BY <2>5 DEF StoreTag
        <3>2. info'[o].service = info[o].service
            BY <2>1, <3>1 DEF InfoRec
        <3>3. QED
            BY <3>2 DEF o
    <2>6. CASE \/ \E g \in Goroutines : StoreService(g)
               \/ \E s \in Scrapers : StoreQueried(s)
        <3>1. PICK x, t : info' = Named(x, t)
            BY <2>6 DEF StoreService, StoreQueried
        <3>2. info'[o].service = info[o].service
            BY <2>1, <2>2, <3>1 DEF Named
        <3>3. QED
            BY <3>2 DEF o
    <2>7. CASE UNCHANGED vars \/ Waiting
        BY <2>3, <2>7 DEF vars, tables, Waiting
    <2>8. CASE CallbackStarts \/ CallbackWorks
        BY <2>3, <2>4, <2>8 DEF CallbackStarts, Event, tables,
            MarkProcessForDeletion, RegisterServiceTag, AddThread,
            CallbackWorks, ResolveProcess, CountSystemWide, CountForProcess,
            PublishProcess
    <2>9. CASE \E g \in Goroutines :
                StoreTag(g) \/ LookUpService(g) \/ StoreService(g)
        BY <2>3, <2>5, <2>6, <2>9 DEF LookUpService, tables
    <2>10. CASE \E s \in Scrapers : AggregateMetrics(s)
        <3>1. PICK s \in Scrapers : AggregateMetrics(s)
            BY <2>10
        <3>2. CASE \/ BeginScrape(s) \/ SnapshotServices(s) \/ ApplyService(s)
                   \/ ServicesApplied(s) \/ GetMap(s)
            BY <2>3, <3>2 DEF BeginScrape, SnapshotServices, ApplyService,
                ServicesApplied, GetMap, tables
        <3>3. CASE \/ VisitProcess(s) \/ QueryServiceName(s) \/ ReadKey(s)
                   \/ SumCounters(s) \/ Swap(s) \/ ClearOld(s)
            BY <2>3, <3>3 DEF VisitProcess, QueryServiceName, ReadKey,
                SumCounters, Swap, ClearOld, tables
        <3>4. QED
            BY <2>6, <3>1, <3>2, <3>3 DEF AggregateMetrics
    <2>11. CASE \E s \in Scrapers : CollectAndClean(s)
        BY <2>3, <2>11 DEF CollectAndClean, Collect, CollectTotal, HoldMap,
            CollectPrograms, BeginCleanup, Untrack, Recycle, EndScrape, tables
    <2>12. QED
        BY <1>1, <2>7, <2>8, <2>9, <2>10, <2>11 DEF Next
<1>2. IndInv /\ [Next]_vars =>
        [\A k \in Procs :
            LET o == instanceData[k]
            IN  o # None /\ instanceData'[k] = o /\ info[o].service # None
                    => info'[o].service = info[o].service]_vars
    BY <1>1
<1>3. QED
    BY <1>2, Invariant, PTL DEF Spec, ServiceStable

-----------------------------------------------------------------------------
(* Whose service a process has, one scrape at a time.                      *)

\* At the start no service has a name.
LEMMA InitServices == ASSUME Init PROVE ServiceInv
<1>1. PICK u, o \in Objs :
        /\ u # o
        /\ instanceData = [k \in Keys |-> CASE k = UnknownProc -> u
                                            [] k = SystemProc -> o
                                            [] OTHER -> None]
        /\ info = [x \in Objs |->
                [proc |-> CASE x = u -> UnknownProc
                            [] x = o -> SystemProc
                            [] OTHER -> None,
                 tag |-> None, service |-> None]]
        /\ loc = [g \in Goroutines |-> Idle]
        /\ pc = [s \in Scrapers |-> "idle"]
    BY DEF Init
<1>2. \A x : \A g \in Goroutines : ~Pends(loc[g], x)
    BY <1>1, NothingPends
<1>3. OwnServices
    BY <1>1, <1>2, Constants DEF OwnServices, Publishing
<1>4. ASSUME NEW g \in Goroutines PROVE HandRight(g)
    BY <1>1, <1>2 DEF HandRight, Names, Naming
<1>5. QED
    BY <1>3, <1>4 DEF ServiceInv

\* A goroutine works for itself: what the others have in hand stays right.
LEMMA OthersRight ==
    ASSUME ServiceInv, IndInv, UNCHANGED <<instanceData, processDataPool>>,
           NEW g \in Goroutines,
           \A h \in Goroutines \ {g} : loc'[h] = loc[h],
           \A h \in Scrapers \ {g} : pc'[h] = pc[h],
           ~Publishing \/ g # "callback", g = "callback" => ~Publishing',
           OwnServices', HandRight(g)'
    PROVE  ServiceInv'
<1>1. Publishing' => Publishing /\ loc'["callback"] = loc["callback"]
    BY Constants DEF Publishing
<1>2. ASSUME NEW h \in Goroutines \ {g} PROVE HandRight(h)'
    <2>1. HandRight(h) /\ loc'[h] = loc[h] /\ (h \in Scrapers => pc'[h] = pc[h])
        BY DEF ServiceInv
    <2>2. QED
        BY <1>1, <2>1 DEF HandRight, Names, Naming, Pends, TagFor
<1>3. QED
    BY <1>2 DEF ServiceInv

\* The services stay right when none is written.
LEMMA ServicesUnwritten ==
    ASSUME OwnServices, UNCHANGED <<instanceData, info>>,
           Publishing' => Publishing /\ loc'["callback"] = loc["callback"]
    PROVE  OwnServices'
BY DEF OwnServices

\* A tag or a service is written that is right for whoever has the object.
LEMMA ServiceWritten ==
    ASSUME OwnServices, IndInv, UNCHANGED instanceData,
           NEW o \in Objs, NEW t \in Tags,
           \/ info' = [info EXCEPT ![o].tag = t]
           \/ info' = [info EXCEPT ![o].service = t],
           \A k \in Procs : instanceData[k] = o => t \in TagsOf[k],
           Publishing' => /\ Publishing /\ loc'["callback"] = loc["callback"]
                          /\ loc["callback"].obj # o
    PROVE  OwnServices'
<1>1. info \in [Objs -> InfoRec]
    BY DEF IndInv, Shapes
<1>2. /\ info'[o].proc = info[o].proc
      /\ info'[o].tag \in {info[o].tag, t}
      /\ info'[o].service \in {info[o].service, t}
      /\ \A x \in Objs \ {o} : info'[x] = info[x]
    BY <1>1 DEF InfoRec
<1>3. \A k \in Keys : instanceData[k] # None => instanceData[k] \in Objs
    BY DEF IndInv, Shapes
<1>4. \A k \in Keys : instanceData'[k] # None =>
        info'[instanceData'[k]].proc = k
    BY <1>2, <1>3 DEF OwnServices
<1>5. ASSUME NEW k \in Procs, instanceData'[k] # None
      PROVE  LET i == info'[instanceData'[k]]
             IN  {i.tag, i.service} \subseteq TagsOf[k] \union {None}
    <2>1. /\ instanceData[k] \in Objs
          /\ info[instanceData[k]].tag \in TagsOf[k] \union {None}
          /\ info[instanceData[k]].service \in TagsOf[k] \union {None}
        BY <1>3, <1>5, Constants DEF OwnServices
    <2>2. QED
        BY <1>2, <2>1
<1>6. Publishing' => info'[loc'["callback"].obj] = info[loc["callback"].obj]
    <2>1. Publishing => loc["callback"].obj \in Objs
        BY DEF IndInv, CallbackHand, Untracked
    <2>2. QED
        BY <1>2, <2>1
<1>7. QED
    BY <1>4, <1>5, <1>6 DEF OwnServices

\* What is right for the tag of a goroutine that names a service: past the
\* first of its steps it is a tag of the process.
LEMMA TagRight ==
    ASSUME ServiceInv, IndInv, NEW g \in Goroutines,
           NEW step \in {"tag", "lookup", "name"}, At(g, step)
    PROVE  /\ Naming(loc[g]) /\ Names(g)
           /\ loc[g].obj \in Objs /\ loc[g].tag \in Tags
           /\ \A k \in Procs : instanceData[k] = loc[g].obj =>
                \/ loc[g].tag \in TagsOf[k]
                \/ k = SystemProc /\ step = "tag"
           /\ Publishing => g # "callback" /\ loc["callback"].obj # loc[g].obj
<1>1. loc[g] \in Task /\ loc[g].todo # <<>> /\ Head(loc[g].todo) = step
    BY DEF IndInv, Shapes, At, Free
<1>2. Naming(loc[g]) /\ Names(g)
    BY <1>1, StepTaken DEF Naming, Names
<1>3. loc[g].obj \in Objs /\ loc[g].tag \in Tags
    BY <1>2, Constants DEF IndInv, CallbackHand, ScraperHand
<1>4. loc[g].todo = ToName => step = "tag"
    BY <1>1 DEF ToName
<1>5. Publishing => g # "callback"
    BY NotPublishing
<1>6. QED
    BY <1>2, <1>3, <1>4, <1>5, Constants DEF ServiceInv, HandRight, TagFor

LEMMA NamingServices ==
    ASSUME IndInv, ServiceInv, NEW g \in Goroutines,
           StoreTag(g) \/ LookUpService(g) \/ StoreService(g)
    PROVE  ServiceInv'
<1>1. /\ UNCHANGED <<instanceData, processDataPool, pc>>
      /\ loc' = Rest(g) \/ loc' = Stop(g)
    BY DEF StoreTag, LookUpService, StoreService, tables
<1>2. PICK step \in {"tag", "lookup", "name"} :
        /\ At(g, step)
        /\ StoreTag(g) => step = "tag"
        /\ StoreService(g) => step = "name"
        /\ LookUpService(g) => step = "lookup"
    BY DEF StoreTag, LookUpService, StoreService, At
<1> DEFINE l == loc[g]
           o == loc[g].obj
           rest == [l EXCEPT !.todo = Tail(@)]
<1>3. /\ l \in Task /\ l.todo # <<>> /\ l.obj \in Objs /\ l.tag \in Tags
      /\ Names(g) /\ HandRight(g)
      /\ \A k \in Procs : instanceData[k] = o =>
            l.tag \in TagsOf[k] \/ (k = SystemProc /\ step = "tag")
      /\ Publishing => g # "callback" /\ loc["callback"].obj # o
    BY <1>2, TagRight DEF IndInv, Shapes, At, Free, ServiceInv
<1>4. /\ rest \in Task /\ rest.obj = o /\ rest.tag = l.tag
      /\ \A x : Pends(rest, x) => Pends(l, x)
    BY <1>3, StepTaken
<1>5. loc' = [loc EXCEPT ![g] = rest] \/ loc' = [loc EXCEPT ![g] = Idle]
    BY <1>1, <1>3 DEF Rest, Stop, IndInv, Shapes
<1> HIDE DEF rest
<1>6. /\ loc'[g] = rest \/ loc'[g] = Idle
      /\ \A h \in Goroutines \ {g} : loc'[h] = loc[h]
    BY <1>5 DEF IndInv, Shapes
<1>7. Publishing' => /\ Publishing /\ g # "callback"
                     /\ loc'["callback"] = loc["callback"]
    BY <1>3, <1>4, <1>6, NothingPends, Constants DEF Publishing
<1>8. ASSUME \A k \in Procs : instanceData[k] = o => l.tag \in TagsOf[k]
      PROVE  HandRight(g)'
    <2>1. g \in Scrapers => o \notin processDataPool
        BY <1>3 DEF HandRight
    <2>2. CASE loc'[g] = Idle
        <3>1. ~Naming(loc'[g])
            BY <2>2, NothingPends DEF Naming
        <3>2. g \in Scrapers => pc[g] \notin {"query", "store"}
            BY <1>3 DEF IndInv, ScraperHand, Free
        <3>3. QED
            BY <1>1, <3>1, <3>2 DEF HandRight, Names
    <2>3. CASE loc'[g] = rest
        BY <1>1, <1>3, <1>4, <1>7, <1>8, <2>1, <2>3, Constants
           DEF HandRight, TagFor
    <2>4. QED
        BY <1>6, <2>2, <2>3
<1>9. CASE loc' = Stop(g) /\ UNCHANGED info
    <2>1. loc'[g] = Idle
        BY <1>9 DEF Stop, IndInv, Shapes
    <2>2. ~Naming(loc'[g])
        BY <2>1, NothingPends DEF Naming
    <2>3. g \in Scrapers => pc[g] \notin {"query", "store"}
        BY <1>3 DEF IndInv, ScraperHand, Free
    <2>4. HandRight(g)'
        BY <1>1, <2>2, <2>3 DEF HandRight, Names
    <2>5. QED
        BY <1>1, <1>3, <1>6, <1>7, <1>9, <2>4, ServicesUnwritten, OthersRight
           DEF ServiceInv
<1>10. CASE ~(loc' = Stop(g) /\ UNCHANGED info)
    <2>1. \A k \in Procs : instanceData[k] = o => l.tag \in TagsOf[k]
        <3>1. CASE StoreTag(g)
            <4>1. ~IsSystem(o)
                BY <1>10, <3>1 DEF StoreTag
            <4>2. instanceData[SystemProc] # o
                BY <1>3, <4>1, Constants DEF ServiceInv, OwnServices, IsSystem
            <4>3. QED
                BY <1>3, <4>2
        <3>2. CASE LookUpService(g) \/ StoreService(g)
            BY <1>2, <1>3, <3>2 DEF At
        <3>3. QED
            BY <3>1, <3>2
    <2>2. \/ UNCHANGED info
          \/ info' = [info EXCEPT ![o].tag = l.tag]
          \/ info' = [info EXCEPT ![o].service = l.tag]
        BY DEF StoreTag, LookUpService, StoreService, Named, tables
    <2>3. OwnServices'
        BY <1>1, <1>3, <1>7, <2>1, <2>2, ServicesUnwritten, ServiceWritten
           DEF ServiceInv
    <2>4. HandRight(g)'
        BY <1>8, <2>1
    <2>5. QED
        BY <1>1, <1>3, <1>6, <1>7, <2>3, <2>4, OthersRight
<1>11. QED
    BY <1>9, <1>10

\* A step of the callback that writes no service, and begins or goes on with
\* what is not one either.
LEMMA CallbackServices ==
    ASSUME IndInv, ServiceInv,
           UNCHANGED <<instanceData, info, processDataPool, pc>>,
           NEW l, loc' = [loc EXCEPT !["callback"] = l], ~Publishing,
           ~Pends(l, "publish"),
           Naming(l) => /\ Naming(loc["callback"])
                        /\ l.obj = loc["callback"].obj
                        /\ l.tag = loc["callback"].tag
                        /\ loc["callback"].todo # ToName
    PROVE  ServiceInv'
<1>1. /\ loc'["callback"] = l
      /\ \A h \in Goroutines \ {"callback"} : loc'[h] = loc[h]
    BY Constants DEF IndInv, Shapes
<1>2. ~Publishing'
    BY <1>1 DEF Publishing
<1>3. HandRight("callback")'
    BY <1>1, Constants DEF HandRight, Names, TagFor, ServiceInv
<1>4. QED
    BY <1>1, <1>2, <1>3, ServicesUnwritten, OthersRight, Constants
       DEF ServiceInv

\* Events do not concern the services.
LEMMA EventServices ==
    ASSUME IndInv, ServiceInv,
           \/ \E kind \in Kinds, p \in Procs : Event(kind, p)
           \/ ResolveProcess \/ CountSystemWide \/ CountForProcess
    PROVE  ServiceInv'
<1> DEFINE c == loc["callback"]
<1>1. UNCHANGED <<instanceData, info, processDataPool, pc>>
    BY DEF Event, ResolveProcess, CountSystemWide, CountForProcess, tables
<1>2. CASE \E kind \in Kinds, p \in Procs : Event(kind, p)
    <2>1. PICK kind \in Kinds, p \in Procs : Event(kind, p)
        BY <1>2
    <2> DEFINE l == [Idle EXCEPT !.todo = StepsOf(kind), !.kind = kind,
                                 !.proc = p]
    <2>2. l.todo = StepsOf(kind)
        BY DEF Idle
    <2>3. loc' = [loc EXCEPT !["callback"] = l] /\ c.todo = <<>>
        BY <2>1 DEF Event, Free
    <2> HIDE DEF l
    <2>4. ~Naming(l) /\ ~Pends(l, "publish") /\ ~Publishing
        BY <2>2, <2>3, Plans, NothingPends DEF Naming, Publishing
    <2>5. QED
        BY <1>1, <2>3, <2>4, CallbackServices
<1>3. CASE ResolveProcess \/ CountSystemWide \/ CountForProcess
    <2>1. PICK step \in {"resolve", "system", "process"} : At("callback", step)
        BY <1>3 DEF ResolveProcess, CountSystemWide, CountForProcess
    <2>2. ~Publishing /\ Pends(c, step)
        BY <2>1, NotPublishing
    <2>3. c \in Task /\ c.todo # <<>> /\ Head(c.todo) = step /\ c.todo # ToName
        BY <2>1, Constants DEF IndInv, Shapes, At, Free, ToName
    <2> DEFINE rest == [c EXCEPT !.todo = Tail(@)]
    <2>4. /\ rest.obj = c.obj /\ rest.tag = c.tag /\ rest \in Task
          /\ \A x : Pends(rest, x) => Pends(c, x)
        BY <2>3, StepTaken
    <2>5. CASE loc' = Stop("callback")
        <3>1. ~Naming(Idle) /\ ~Pends(Idle, "publish")
            BY NothingPends DEF Naming
        <3>2. QED
            BY <1>1, <2>2, <2>5, <3>1, CallbackServices DEF Stop
    <2>6. CASE loc' = Rest("callback")
        <3>1. loc' = [loc EXCEPT !["callback"] = rest]
            BY <2>6, Constants DEF Rest, IndInv, Shapes
        <3> HIDE DEF rest
        <3>2. ~Pends(rest, "publish") /\ (Naming(rest) => Naming(c))
            BY <2>2, <2>4 DEF Naming, Publishing
        <3>3. QED
            BY <1>1, <2>2, <2>3, <2>4, <3>1, <3>2, CallbackServices
    <2>7. CASE ResolveProcess /\ ~(loc' = Stop("callback"))
        <3>1. PICK o : loc' = [Rest("callback") EXCEPT !["callback"].obj = o]
            BY <2>7 DEF ResolveProcess
        <3> DEFINE n == [rest EXCEPT !.obj = o]
        <3>2. loc' = [loc EXCEPT !["callback"] = n]
            BY <3>1, <2>3, Constants DEF Rest, IndInv, Shapes
        <3>3. n.todo = rest.todo
            BY <2>3 DEF Task
        <3> HIDE DEF n, rest
        <3>4. \A x : Pends(n, x) => Pends(c, x)
            BY <2>4, <3>3 DEF Pends
        <3>5. ~Naming(c)
            <4>1. Pends(c, "resolve")
                BY <2>1, <2>3, <2>7, StepTaken DEF ResolveProcess, At
            <4>2. QED
                BY <4>1 DEF IndInv, CallbackHand
        <3>6. ~Naming(n) /\ ~Pends(n, "publish")
            BY <2>2, <3>4, <3>5 DEF Naming, Publishing
        <3>7. QED
            BY <1>1, <2>2, <3>2, <3>6, CallbackServices
    <2>8. QED
        BY <1>3, <2>5, <2>6, <2>7 DEF CountSystemWide, CountForProcess
<1>4. QED
    BY <1>2, <1>3

\* A new object has no service, and nobody names one for it.
LEMMA AddProcessServices ==
    ASSUME IndInv, ServiceInv, NEW p \in Procs, AddProcess(p)
    PROVE  ServiceInv'
<1>1. PICK o \in processDataPool :
        /\ processDataPool' = processDataPool \ {o}
        /\ info' = [info EXCEPT ![o] =
                [proc |-> p, tag |-> None, service |-> None]]
        /\ loc' = [loc EXCEPT !["callback"] = [Idle EXCEPT
                !.todo = <<"publish">>, !.proc = p, !.obj = o]]
    BY DEF AddProcess
<1>2. UNCHANGED <<instanceData, pc>> /\ loc["callback"].todo = <<>>
    BY DEF AddProcess, Free
<1> DEFINE l == [Idle EXCEPT !.todo = <<"publish">>, !.proc = p, !.obj = o]
<1>3. l.todo = <<"publish">> /\ l.proc = p /\ l.obj = o
    BY DEF Idle
<1> HIDE DEF l
<1>4. loc'["callback"] = l /\ \A h \in Scrapers : loc'[h] = loc[h]
    BY <1>1, Constants DEF IndInv, Shapes, l
<1>5. /\ o \in Objs /\ \A k \in Keys : instanceData[k] # o
      /\ \A k \in Keys : instanceData[k] # None => instanceData[k] \in Objs
    BY Constants DEF IndInv, Shapes, Owned
<1>6. /\ info'[o] = [proc |-> p, tag |-> None, service |-> None]
      /\ \A x \in Objs \ {o} : info'[x] = info[x]
    BY <1>1, <1>5 DEF IndInv, Shapes
<1>7. OwnServices'
    BY <1>2, <1>3, <1>4, <1>5, <1>6, Constants DEF ServiceInv, OwnServices
<1>8. ASSUME NEW g \in Goroutines PROVE HandRight(g)'
    <2>1. CASE g = "callback"
        <3>1. ~Naming(l)
            BY <1>3, Plans DEF Naming
        <3>2. QED
            BY <1>4, <2>1, <3>1, Constants DEF HandRight, Names
    <2>2. CASE g \in Scrapers
        <3>1. HandRight(g) /\ loc'[g] = loc[g]
            BY <1>4, <2>2 DEF ServiceInv
        <3>2. QED
            BY <1>1, <1>2, <1>3, <1>4, <2>2, <3>1
               DEF HandRight, Names, Naming, Pends, TagFor
    <2>3. QED
        BY <2>1, <2>2, Constants
<1>9. QED
    BY <1>7, <1>8 DEF ServiceInv

\* An object that is published was in nobody's hand but the callback's.
LEMMA PublishServices ==
    ASSUME IndInv, ServiceInv, PublishProcess
    PROVE  ServiceInv'
<1> DEFINE c == loc["callback"]
<1>1. /\ At("callback", "publish")
      /\ instanceData' = [instanceData EXCEPT ![c.proc] = c.obj]
      /\ loc' = Stop("callback")
      /\ UNCHANGED <<info, processDataPool, pc>>
    BY DEF PublishProcess
<1>2. Publishing
    <2>1. c \in Task /\ c.todo # <<>> /\ Head(c.todo) = "publish"
        BY <1>1, Constants DEF IndInv, Shapes, At, Free
    <2>2. QED
        BY <2>1, StepTaken DEF Publishing
<1>3. c.proc \in Procs /\ c.proc \in Keys /\ c.obj \in Objs
    BY <1>2, Constants DEF IndInv, CallbackHand, Untracked
<1>4. /\ instanceData'[c.proc] = c.obj
      /\ \A k \in Keys \ {c.proc} : instanceData'[k] = instanceData[k]
    BY <1>1, <1>3 DEF IndInv, Shapes
<1>5. loc'["callback"] = Idle /\ \A s \in Scrapers : loc'[s] = loc[s]
    BY <1>1, Constants DEF IndInv, Shapes, Stop
<1>6. \A x : ~Pends(Idle, x)
    BY NothingPends
<1>7. info[c.obj] = [proc |-> c.proc, tag |-> None, service |-> None]
    BY <1>2 DEF ServiceInv, OwnServices
<1>8. OwnServices'
    BY <1>1, <1>3, <1>4, <1>5, <1>6, <1>7, Constants
       DEF ServiceInv, OwnServices, Publishing
<1>9. ASSUME NEW g \in Goroutines PROVE HandRight(g)'
    <2>1. CASE g = "callback"
        BY <1>5, <1>6, <2>1, Constants DEF HandRight, Names, Naming
    <2>2. CASE g \in Scrapers
        <3>1. HandRight(g) /\ loc'[g] = loc[g]
            BY <1>5, <2>2 DEF ServiceInv
        <3>2. Names(g)' => Names(g) /\ loc[g].obj # c.obj
            BY <1>1, <1>2, <2>2, <3>1 DEF HandRight, Names, Naming, Pends
        <3>3. ~Publishing'
            BY <1>5, <1>6 DEF Publishing
        <3>4. QED
            BY <1>1, <1>4, <2>2, <3>1, <3>2, <3>3, Constants
               DEF HandRight, TagFor
    <2>3. QED
        BY <2>1, <2>2, Constants
<1>10. QED
    BY <1>8, <1>9 DEF ServiceInv

\* A tag of its own is brought to a process, or any tag to System.
LEMMA AddThreadServices ==
    ASSUME IndInv, ServiceInv, NEW p \in Procs, NEW t \in Tags, AddThread(p, t)
    PROVE  ServiceInv'
<1> DEFINE o == pidToCurrentProcessData[p]
           l == Resolving(o, t)
<1>1. /\ o # None /\ loc' = [loc EXCEPT !["callback"] = l]
      /\ t \in IF p = SystemProc THEN Tags ELSE TagsOf[p]
      /\ loc["callback"].todo = <<>>
      /\ UNCHANGED <<instanceData, info, processDataPool, pc>>
    BY DEF AddThread, Free, tables
<1>2. l.obj = o /\ l.tag = t /\ l.todo = ToName
    BY DEF Resolving, Idle, ToName
<1>3. \A k \in Procs : instanceData[k] = o => k = p
    BY <1>1, Constants DEF IndInv, Owned
<1> HIDE DEF l, o
<1>4. /\ loc'["callback"] = l
      /\ \A h \in Goroutines \ {"callback"} : loc'[h] = loc[h]
    BY <1>1, Constants DEF IndInv, Shapes
<1>5. ~Publishing /\ ~Publishing'
    <2>1. ~Pends(l, "publish")
        BY <1>2, Plans DEF ToName
    <2>2. QED
        BY <1>1, <1>4, <2>1, NothingPends DEF Publishing
<1>6. HandRight("callback")'
    BY <1>1, <1>2, <1>3, <1>4, Constants DEF HandRight, TagFor
<1>7. QED
    BY <1>1, <1>4, <1>5, <1>6, ServicesUnwritten, OthersRight, Constants
       DEF ServiceInv

\* A step of a scrape that writes no service, and gives no object back.
LEMMA ScraperServices ==
    ASSUME IndInv, ServiceInv,
           UNCHANGED <<instanceData, info, processDataPool>>,
           NEW s \in Scrapers,
           \A h \in Goroutines \ {s} : loc'[h] = loc[h],
           \A h \in Scrapers \ {s} : pc'[h] = pc[h], HandRight(s)'
    PROVE  ServiceInv'
<1>1. s # "callback" /\ s \in Goroutines /\ loc'["callback"] = loc["callback"]
    BY Constants
<1>2. Publishing' => Publishing
    BY <1>1 DEF Publishing
<1>3. OwnServices'
    BY <1>1, <1>2, ServicesUnwritten DEF ServiceInv
<1>4. QED
    BY <1>1, <1>3, OthersRight

\* A scrape that has nothing to do, away from the query, names no service.
LEMMA NothingToName ==
    ASSUME IndInv, ServiceInv,
           UNCHANGED <<instanceData, info, processDataPool>>,
           NEW s \in Scrapers, NEW l, NEW x,
           loc' = [loc EXCEPT ![s] = l], pc' = [pc EXCEPT ![s] = x],
           ~Naming(l), x \notin {"query", "store"}
    PROVE  ServiceInv'
<1>1. /\ loc'[s] = l /\ pc'[s] = x
      /\ \A h \in Goroutines \ {s} : loc'[h] = loc[h]
      /\ \A h \in Scrapers \ {s} : pc'[h] = pc[h]
    BY Constants DEF IndInv, Shapes
<1>2. HandRight(s)'
    BY <1>1 DEF HandRight, Names
<1>3. QED
    BY <1>1, <1>2, ScraperServices

\* Most of AggregateMetrics, and the ends of the cleanup.
LEMMA GoingServices ==
    ASSUME IndInv, ServiceInv, NEW s \in Scrapers,
           \/ BeginScrape(s) \/ SnapshotServices(s) \/ ServicesApplied(s)
           \/ GetMap(s) \/ ReadKey(s) \/ SumCounters(s) \/ Swap(s)
           \/ ClearOld(s) \/ BeginCleanup(s) \/ EndScrape(s)
           \/ \E kind \in Kinds : Collect(s, kind)
    PROVE  ServiceInv'
<1>1. loc[s].todo = <<>> /\ UNCHANGED <<instanceData, info, processDataPool>>
    BY DEF BeginScrape, SnapshotServices, ServicesApplied, GetMap, ReadKey,
           SumCounters, Swap, ClearOld, BeginCleanup, EndScrape, Collect,
           InScrape, Free, tables
<1>2. PICK l : loc' = [loc EXCEPT ![s] = l] /\ ~Naming(l)
    <2>1. CASE UNCHANGED loc
        <3>1. loc' = [loc EXCEPT ![s] = loc[s]]
            BY <2>1 DEF IndInv, Shapes
        <3>2. QED
            BY <1>1, <3>1, NothingPends DEF Naming
    <2>2. CASE SumCounters(s)
        BY <2>2, NothingPends DEF SumCounters, Stop, Naming
    <2>3. CASE \E kind \in Kinds : Collect(s, kind)
        <3>1. PICK kind \in Kinds : Collect(s, kind)
            BY <2>3
        <3> DEFINE l == [Idle EXCEPT !.todo = CollectOrder(kind), !.kind = kind]
        <3>2. l.todo = CollectOrder(kind) /\ loc' = [loc EXCEPT ![s] = l]
            BY <3>1 DEF Idle, Collect
        <3> HIDE DEF l
        <3>3. ~Naming(l)
            BY <3>2, Plans DEF Naming
        <3>4. QED
            BY <3>2, <3>3
    <2>4. QED
        BY <2>1, <2>2, <2>3 DEF BeginScrape, SnapshotServices, ServicesApplied,
            GetMap, ReadKey, Swap, ClearOld, BeginCleanup, EndScrape
<1>3. PICK x \in Places \ {"query", "store"} : pc' = [pc EXCEPT ![s] = x]
    <2>1. CASE \E kind \in Kinds : Collect(s, kind)
        <3>1. pc' = [pc EXCEPT ![s] = "collect"]
            BY <2>1 DEF Collect, InScrape, IndInv, Shapes
        <3>2. QED
            BY <3>1 DEF Places
    <2>2. CASE ~\E kind \in Kinds : Collect(s, kind)
        BY <2>2 DEF BeginScrape, SnapshotServices, ServicesApplied, GetMap,
            ReadKey, SumCounters, Swap, ClearOld, BeginCleanup, EndScrape, Go,
            Places
    <2>3. QED
        BY <2>1, <2>2
<1>4. QED
    BY <1>1, <1>2, <1>3, NothingToName

LEMMA CollectServices ==
    ASSUME IndInv, ServiceInv, NEW s \in Scrapers,
           CollectTotal(s) \/ HoldMap(s) \/ CollectPrograms(s)
    PROVE  ServiceInv'
<1> DEFINE l == loc[s]
           rest == [l EXCEPT !.todo = Tail(@)]
<1>1. PICK step \in {"total", "hold", "programs"} : At(s, step)
    BY DEF CollectTotal, HoldMap, CollectPrograms
<1>2. /\ loc' = Rest(s)
      /\ UNCHANGED <<instanceData, info, processDataPool, pc>>
    BY DEF CollectTotal, HoldMap, CollectPrograms, tables
<1>3. l \in Task /\ l.todo # <<>> /\ Head(l.todo) = step /\ l.todo # ToName
    BY <1>1, Constants DEF IndInv, Shapes, At, Free, ToName
<1>4. /\ rest.obj = l.obj /\ rest.tag = l.tag
      /\ \A x : Pends(rest, x) => Pends(l, x)
    BY <1>3, StepTaken
<1>5. loc' = [loc EXCEPT ![s] = rest]
    BY <1>2, Constants DEF Rest, IndInv, Shapes
<1> HIDE DEF rest
<1>6. loc'[s] = rest /\ \A h \in Goroutines \ {s} : loc'[h] = loc[h]
    BY <1>5, Constants DEF IndInv, Shapes
<1>7. HandRight(s) /\ pc[s] \notin {"query", "store"}
    BY <1>3, Constants DEF ServiceInv, IndInv, ScraperHand, Free
<1>8. loc'["callback"] = loc["callback"]
    BY <1>6, Constants
<1>9. HandRight(s)'
    <2>1. Names(s)' => Names(s)
        BY <1>2, <1>4, <1>6, <1>7 DEF Names, Naming
    <2>2. QED
        BY <1>2, <1>3, <1>4, <1>6, <1>7, <1>8, <2>1
           DEF HandRight, TagFor, Publishing
<1>10. QED
    BY <1>2, <1>6, <1>9, ScraperServices

\* The list of running services brings a process a tag of its own.
LEMMA ApplyServices ==
    ASSUME IndInv, ServiceInv, Visits, NEW s \in Scrapers, ApplyService(s)
    PROVE  ServiceInv'
<1>1. PICK p \in scrape[s].toVisit, t \in Tags :
        /\ t \in TagsOf[p]
        /\ LET o == pidToCurrentProcessData[p]
           IN  loc' = IF t \in serviceTags /\ o # None
                      THEN [loc EXCEPT ![s] = Resolving(o, t)] ELSE loc
    BY DEF ApplyService
<1>2. /\ loc[s].todo = <<>> /\ pc[s] = "apply"
      /\ UNCHANGED <<instanceData, info, processDataPool, pc>>
    BY DEF ApplyService, InScrape, Free, tables
<1>3. pc' = [pc EXCEPT ![s] = "apply"]
    BY <1>2 DEF IndInv, Shapes
<1>4. CASE UNCHANGED loc
    <2>1. loc' = [loc EXCEPT ![s] = loc[s]] /\ ~Naming(loc[s])
        BY <1>2, <1>4, NothingPends DEF IndInv, Shapes, Naming
    <2>2. QED
        BY <1>2, <1>3, <2>1, NothingToName
<1>5. CASE /\ loc' =
              [loc EXCEPT ![s] = Resolving(pidToCurrentProcessData[p], t)]
           /\ pidToCurrentProcessData[p] # None
    <2> DEFINE o == pidToCurrentProcessData[p]
               l == Resolving(o, t)
    <2>1. p \in Procs
        BY <1>2 DEF Visits, Visited
    <2>2. /\ \A k \in Procs : instanceData[k] = o => k = p
          /\ o \notin processDataPool
          /\ Publishing => o # loc["callback"].obj
        BY <1>5, <2>1, Constants DEF IndInv, Owned, CallbackHand
    <2>3. l.obj = o /\ l.tag = t
        BY DEF Resolving, Idle
    <2>4. /\ loc'[s] = l /\ loc'["callback"] = loc["callback"]
          /\ \A h \in Goroutines \ {s} : loc'[h] = loc[h]
        BY <1>5, Constants DEF IndInv, Shapes
    <2> HIDE DEF l, o
    <2>5. HandRight(s)'
        BY <1>1, <1>2, <2>2, <2>3, <2>4 DEF HandRight, TagFor, Publishing
    <2>6. QED
        BY <1>2, <2>4, <2>5, ScraperServices
<1>6. QED
    BY <1>1, <1>4, <1>5

\* The tag that is queried is that of the process that is visited.
LEMMA VisitServices ==
    ASSUME IndInv, ServiceInv, Visits, NEW s \in Scrapers, VisitProcess(s)
    PROVE  ServiceInv'
<1>1. PICK k \in scrape[s].toVisit :
        LET o == instanceData[k]
            t == info[o].tag
            unnamed == /\ o # None /\ t # None /\ info[o].service = None
                       /\ t \notin scrape[s].attempted
        IN  /\ loc' = IF o = None THEN loc
                      ELSE [loc EXCEPT ![s].obj = o,
                                ![s].tag = IF unnamed THEN t ELSE None]
            /\ pc' = IF o = None THEN pc
                     ELSE Go(s, IF unnamed THEN "query" ELSE "key")
    BY DEF VisitProcess
<1>2. /\ loc[s].todo = <<>> /\ pc[s] = "range" /\ loc[s] \in Task
      /\ UNCHANGED <<instanceData, info, processDataPool>>
    BY Constants DEF VisitProcess, InScrape, Free, tables, IndInv, Shapes
<1> DEFINE o == instanceData[k]
           unnamed == /\ info[o].tag # None /\ info[o].service = None
                      /\ info[o].tag \notin scrape[s].attempted
<1>3. CASE o = None
    <2>1. /\ loc' = [loc EXCEPT ![s] = loc[s]] /\ ~Naming(loc[s])
          /\ pc' = [pc EXCEPT ![s] = "range"]
        BY <1>1, <1>2, <1>3, NothingPends DEF IndInv, Shapes, Naming
    <2>2. QED
        BY <1>2, <2>1, NothingToName
<1>4. CASE o # None /\ ~unnamed
    <2>1. /\ loc' = [loc EXCEPT ![s].obj = o, ![s].tag = None]
          /\ pc' = [pc EXCEPT ![s] = "key"]
        BY <1>1, <1>4 DEF Go
    <2> DEFINE l == [loc[s] EXCEPT !.obj = o, !.tag = None]
    <2>2. loc' = [loc EXCEPT ![s] = l] /\ l.todo = <<>>
        BY <1>2, <2>1 DEF IndInv, Shapes, Task
    <2> HIDE DEF l, o
    <2>3. ~Naming(l)
        BY <2>2, NothingPends DEF Naming
    <2>4. "key" \notin {"query", "store"}
        OBVIOUS
    <2>5. QED
        BY <1>2, <2>1, <2>2, <2>3, <2>4, NothingToName
<1>5. CASE o # None /\ unnamed
    <2>1. /\ loc' = [loc EXCEPT ![s].obj = o, ![s].tag = info[o].tag]
          /\ pc' = Go(s, "query")
        BY <1>1, <1>5
    <2>2. k \in Keys /\ o \in Objs /\ o \notin processDataPool
        BY <1>2, <1>5 DEF Visits, Visited, IndInv, Shapes, Owned
    <2>3. \A j \in Procs : instanceData[j] = o => info[o].tag \in TagsOf[j]
        BY <1>5, Constants DEF ServiceInv, OwnServices
    <2>4. Publishing => o # loc["callback"].obj
        BY <2>2 DEF IndInv, CallbackHand, Untracked
    <2> DEFINE l == [loc[s] EXCEPT !.obj = o, !.tag = info[o].tag]
    <2>5. loc' = [loc EXCEPT ![s] = l] /\ l.obj = o /\ l.tag = info[o].tag
        BY <1>2, <2>1 DEF IndInv, Shapes, Task
    <2> HIDE DEF l, o
    <2>6. /\ loc'[s] = l /\ loc'["callback"] = loc["callback"]
          /\ \A h \in Goroutines \ {s} : loc'[h] = loc[h]
          /\ \A h \in Scrapers \ {s} : pc'[h] = pc[h]
        BY <2>1, <2>5, Constants DEF IndInv, Shapes, Go
    <2>7. HandRight(s)'
        BY <1>2, <2>2, <2>3, <2>4, <2>5, <2>6
           DEF HandRight, TagFor, Publishing
    <2>8. QED
        BY <1>2, <2>6, <2>7, ScraperServices
<1>6. QED
    BY <1>3, <1>4, <1>5

\* The name that the query finds is that of the tag.
LEMMA QueryServices ==
    ASSUME IndInv, ServiceInv, NEW s \in Scrapers,
           QueryServiceName(s) \/ StoreQueried(s)
    PROVE  ServiceInv'
<1> DEFINE o == loc[s].obj
           t == loc[s].tag
<1>1. /\ loc[s].todo = <<>> /\ pc[s] \in {"query", "store"}
      /\ UNCHANGED <<instanceData, processDataPool, loc>>
    BY DEF QueryServiceName, StoreQueried, InScrape, Free, tables
<1>2. \A h \in Scrapers \ {s} : pc'[h] = pc[h]
    BY DEF QueryServiceName, StoreQueried, Go, IndInv, Shapes
<1>3. o \in Objs /\ t \in Tags
    BY <1>1 DEF IndInv, ScraperHand
<1>4. /\ \A k \in Procs : instanceData[k] = o => t \in TagsOf[k]
      /\ o \notin processDataPool
      /\ Publishing => o # loc["callback"].obj
    <2>1. Names(s) /\ HandRight(s)
        BY <1>1, Constants DEF Names, ServiceInv
    <2>2. loc[s].todo # ToName
        BY <1>1 DEF ToName
    <2>3. QED
        BY <2>1, <2>2 DEF HandRight, TagFor
<1>5. HandRight(s)'
    BY <1>1, <1>4 DEF HandRight, TagFor, Publishing
<1>6. Publishing' => Publishing
    BY <1>1 DEF Publishing
<1>7. OwnServices'
    <2>1. CASE UNCHANGED info
        BY <1>1, <1>6, <2>1, ServicesUnwritten DEF ServiceInv
    <2>2. CASE ~UNCHANGED info
        <3>1. info' = [info EXCEPT ![o].service = t]
            BY <2>2 DEF QueryServiceName, StoreQueried, Named, tables
        <3>2. QED
            BY <1>1, <1>3, <1>4, <1>6, <3>1, ServiceWritten DEF ServiceInv
    <2>3. QED
        BY <2>1, <2>2
<1>8. QED
    BY <1>1, <1>2, <1>5, <1>7, OthersRight, Constants

\* A process that is removed has no service any more ...
LEMMA UntrackServices ==
    ASSUME IndInv, ServiceInv, NEW s \in Scrapers, Untrack(s)
    PROVE  ServiceInv'
<1>1. PICK p \in scrape[s].toVisit :
        /\ loc' = [loc EXCEPT ![s] = [Idle EXCEPT
                !.todo = <<"recycle">>, !.proc = p, !.obj = instanceData[p]]]
        /\ instanceData' = [instanceData EXCEPT ![p] = None]
    BY DEF Untrack
<1>2. pc[s] = "cleanup" /\ UNCHANGED <<info, processDataPool, pc>>
    BY DEF Untrack, InScrape
<1>3. \A k \in Keys : instanceData'[k] \in {None, instanceData[k]}
    BY <1>1 DEF IndInv, Shapes
<1> DEFINE l == [Idle EXCEPT !.todo = <<"recycle">>, !.proc = p,
                             !.obj = instanceData[p]]
<1>4. l.todo = <<"recycle">>
    BY DEF Idle
<1> HIDE DEF l
<1>5. /\ loc'[s] = l /\ loc'["callback"] = loc["callback"]
      /\ \A h \in Goroutines \ {s} : loc'[h] = loc[h]
    BY <1>1, Constants DEF IndInv, Shapes, l
<1>6. OwnServices'
    BY <1>2, <1>3, <1>5, Constants DEF ServiceInv, OwnServices, Publishing
<1>7. ASSUME NEW g \in Goroutines PROVE HandRight(g)'
    <2>1. CASE g = s
        BY <1>2, <1>4, <1>5, <2>1, Plans DEF HandRight, Names, Naming
    <2>2. CASE g # s
        <3>1. HandRight(g) /\ loc'[g] = loc[g]
            BY <1>5, <2>2 DEF ServiceInv
        <3>2. Names(g) => loc[g].obj # None
            BY Constants DEF IndInv, CallbackHand, ScraperHand, Names
        <3>3. Names(g)' => Names(g)
            BY <1>2, <3>1 DEF Names
        <3>4. QED
            BY <1>2, <1>3, <1>5, <3>1, <3>2, <3>3, Constants
               DEF HandRight, TagFor, Publishing
    <2>3. QED
        BY <2>1, <2>2
<1>8. QED
    BY <1>6, <1>7 DEF ServiceInv

\* ... and no other scrape has its object in hand when it is given back.
LEMMA RecycleServices ==
    ASSUME IndInv, ServiceInv, OneScraper, NEW s \in Scrapers, Recycle(s)
    PROVE  ServiceInv'
<1>1. /\ At(s, "recycle") /\ loc' = [loc EXCEPT ![s] = Idle]
      /\ UNCHANGED <<instanceData, info, pc>>
    BY DEF Recycle, Stop
<1>2. pc[s] = "cleanup"
    BY <1>1, AtWork DEF IndInv, ScraperHand, Recycling
<1>3. /\ loc'[s] = Idle /\ loc'["callback"] = loc["callback"]
      /\ \A g \in Goroutines : g = s \/ g = "callback"
    BY <1>1, Constants DEF OneScraper, IndInv, Shapes
<1>4. OwnServices'
    BY <1>1, <1>3, ServicesUnwritten DEF ServiceInv, Publishing
<1>5. HandRight(s)'
    BY <1>1, <1>2, <1>3, NothingPends DEF HandRight, Names, Naming
<1>6. HandRight("callback")'
    BY <1>1, <1>3, Constants DEF HandRight, Names, TagFor, ServiceInv
<1>7. QED
    BY <1>3, <1>4, <1>5, <1>6 DEF ServiceInv

LEMMA NextServices ==
    ASSUME OneScraper
    PROVE  IndInv /\ Visits /\ ServiceInv /\ [Next]_vars => ServiceInv'
<1> SUFFICES ASSUME IndInv, Visits, ServiceInv, [Next]_vars
             PROVE  ServiceInv'
    OBVIOUS
<1>1. ASSUME UNCHANGED <<tables, loc, pc>> PROVE ServiceInv'
    BY <1>1 DEF ServiceInv, OwnServices, HandRight, Names, Naming, TagFor,
                Publishing, tables
<1>2. CASE UNCHANGED vars \/ Waiting
    BY <1>1, <1>2 DEF vars, Waiting
<1>3. CASE CallbackStarts
    BY <1>1, <1>3, EventServices, AddProcessServices, AddThreadServices
       DEF CallbackStarts, MarkProcessForDeletion, RegisterServiceTag
<1>4. CASE CallbackWorks
    BY <1>4, EventServices, PublishServices DEF CallbackWorks
<1>5. CASE \E g \in Goroutines :
            StoreTag(g) \/ LookUpService(g) \/ StoreService(g)
    BY <1>5, NamingServices
<1>6. CASE \E s \in Scrapers : AggregateMetrics(s)
    BY <1>6, GoingServices, ApplyServices, VisitServices, QueryServices
       DEF AggregateMetrics
<1>7. CASE \E s \in Scrapers : CollectAndClean(s)
    BY <1>7, GoingServices, CollectServices, UntrackServices, RecycleServices
       DEF CollectAndClean
<1>8. QED
    BY <1>2, <1>3, <1>4, <1>5, <1>6, <1>7 DEF Next

\* A process is never given the service of another one, as long as one scrape
\* is served at a time: the tag that a thread or the list of services brings is
\* one of the process its pid leads to, System stores none, and what a scrape
\* has in hand between two locks cannot be given to another process meanwhile.
THEOREM ServicesRight == OneScraper => (Spec => []ServiceRight)
<1> SUFFICES ASSUME OneScraper PROVE Spec => []ServiceRight
    OBVIOUS
<1>1. Init => ServiceInv
    BY InitServices
<1>2. IndInv /\ Visits /\ ServiceInv /\ [Next]_vars => ServiceInv'
    BY NextServices
<1>3. ServiceInv => ServiceRight
    BY DEF ServiceInv, OwnServices, ServiceRight
<1>4. QED
    BY <1>1, <1>2, <1>3, Invariant, PTL DEF Spec

-----------------------------------------------------------------------------
(* Sums of finite functions.                                               *)

\* The elements are added up in the order CHOOSE takes them: Part[s] is the sum
\* over s.
First(s) == CHOOSE x \in s : TRUE
Sum(f, g, s) == IF s = {} THEN 0 ELSE f[First(s)] + g[s \ {First(s)}]
Part(f) == CHOOSE g : g = [s \in SUBSET DOMAIN f |-> Sum(f, g, s)]

LEMMA TotalIsPart == \A f : Total(f) = Part(f)[DOMAIN f]
  BY DEF Total, FoldFunction, FoldFunctionOnSet, MapThenFoldSet, Part, Sum, First

LEMMA LeastNat ==
    ASSUME NEW A \in SUBSET Nat, A # {}
    PROVE  \E n \in A : \A m \in A : n <= m
<1>1. PICK n \in A : \A m \in A : <<m, n>> \notin OpToRel(<, Nat)
    BY NatLessThanWellFounded, WFMin, Zenon
<1>2. \A m \in A : ~(m < n)
    BY <1>1 DEF OpToRel
<1>3. QED
    BY <1>2

LEMMA LeastSet ==
    ASSUME NEW S, IsFiniteSet(S), NEW A \in SUBSET SUBSET S, A # {}
    PROVE  \E T \in A : \A x \in T : T \ {x} \notin A
<1>1. IsWellFoundedOn(StrictSubsetOrdering(S), SUBSET S)
    BY FS_StrictSubsetOrderingWellFounded, FS_FiniteSubsetsOfFinite
<1>2. PICK T \in A : \A U \in A : <<U, T>> \notin StrictSubsetOrdering(S)
    BY <1>1, WFMin
<1>3. ASSUME NEW x \in T, T \ {x} \in A PROVE FALSE
    <2>1. <<T \ {x}, T>> \in StrictSubsetOrdering(S)
        BY <1>3 DEF StrictSubsetOrdering
    <2>2. QED
        BY <1>2, <1>3, <2>1
<1>4. QED
    BY <1>3

\* A finite sum is defined.
LEMMA PartDefined ==
    ASSUME NEW f, IsFiniteSet(DOMAIN f)
    PROVE  \E g : g = [s \in SUBSET DOMAIN f |-> Sum(f, g, s)]
<1> DEFINE D == DOMAIN f
           Fits(g, n) == \A s \in SUBSET D : Cardinality(s) <= n => g[s] = Sum(f, g, s)
           A == {n \in Nat : ~\E g : Fits(g, n)}
<1>1. \A s \in SUBSET D : IsFiniteSet(s) /\ Cardinality(s) \in Nat /\ Cardinality(s) <= Cardinality(D)
    BY FS_Subset, FS_CardinalityType
<1>2. Cardinality(D) \in Nat
    BY FS_CardinalityType
<1>3. ASSUME A # {} PROVE FALSE
    <2>1. PICK n \in A : \A m \in A : n <= m
        BY <1>3, LeastNat
    <2>2. n # 0
        <3>1. \A s \in SUBSET D : Cardinality(s) <= 0 => s = {}
            BY <1>1, FS_EmptySet
        <3> DEFINE g == [s \in SUBSET D |-> 0]
        <3>2. \A s \in SUBSET D : Cardinality(s) <= 0 => g[s] = Sum(f, g, s)
            BY <3>1 DEF Sum
        <3>3. QED
            BY <3>2
    <2>3. n - 1 \in Nat /\ n - 1 \notin A
        BY <2>1, <2>2
    <2>4. PICK g : Fits(g, n - 1)
        BY <2>3
    <2> DEFINE h == [s \in SUBSET D |-> Sum(f, g, s)]
    <2>5. ASSUME NEW s \in SUBSET D, Cardinality(s) <= n
          PROVE  h[s] = Sum(f, h, s)
        <3>1. CASE s = {}
            BY <3>1 DEF Sum
        <3>2. CASE s # {}
            <4> DEFINE x == First(s)
                       t == s \ {x}
            <4>1. x \in s
                BY <3>2 DEF First
            <4>2. t \in SUBSET D /\ Cardinality(t) <= n - 1
                BY <4>1, <1>1, <2>3, <2>5, FS_RemoveElement
            <4>3. g[t] = Sum(f, g, t)
                BY <2>4, <4>2
            <4>4. h[t] = g[t]
                BY <4>2, <4>3
            <4>5. QED
                BY <3>2, <4>4 DEF Sum
        <3>3. QED
            BY <3>1, <3>2
    <2>6. QED
        BY <2>1, <2>5
<1>4. PICK g : Fits(g, Cardinality(D))
    BY <1>2, <1>3
<1> DEFINE h == [s \in SUBSET D |-> g[s]]
<1>5. ASSUME NEW s \in SUBSET D PROVE h[s] = Sum(f, h, s)
    <2>1. s # {} => s \ {First(s)} \in SUBSET D
        OBVIOUS
    <2>2. g[s] = Sum(f, g, s)
        BY <1>1, <1>4
    <2>3. QED
        BY <2>1, <2>2 DEF Sum
<1>6. QED
    BY <1>5

LEMMA PartSum ==
    ASSUME NEW f, IsFiniteSet(DOMAIN f), NEW s \in SUBSET DOMAIN f
    PROVE  Part(f)[s] = Sum(f, Part(f), s)
<1>1. Part(f) = [t \in SUBSET DOMAIN f |-> Sum(f, Part(f), t)]
    BY PartDefined DEF Part
<1>2. QED
    BY <1>1

\* Finite sums of integers.
Summable(f) == IsFiniteSet(DOMAIN f) /\ f \in [DOMAIN f -> Int]

LEMMA PartType ==
    ASSUME NEW f, Summable(f)
    PROVE  \A s \in SUBSET DOMAIN f : Part(f)[s] \in Int
<1> DEFINE A == {s \in SUBSET DOMAIN f : Part(f)[s] \notin Int}
<1>1. ASSUME A # {} PROVE FALSE
    <2>1. PICK s \in A : \A x \in s : s \ {x} \notin A
        BY <1>1, LeastSet DEF Summable
    <2>2. Part(f)[s] = Sum(f, Part(f), s)
        BY PartSum DEF Summable
    <2>3. s # {}
        BY <2>2 DEF Sum
    <2>4. First(s) \in s
        BY <2>3 DEF First
    <2>5. Part(f)[s \ {First(s)}] \in Int /\ f[First(s)] \in Int
        BY <2>1, <2>4 DEF Summable
    <2>6. QED
        BY <2>2, <2>3, <2>5 DEF Sum
<1>2. QED
    BY <1>1

LEMMA TotalType ==
    ASSUME NEW f, Summable(f)
    PROVE  Total(f) \in Int
BY PartType, TotalIsPart

\* Sums are added up element by element.
LEMMA TotalPlus ==
    ASSUME NEW f, NEW g, NEW h, Summable(f), Summable(g), Summable(h),
           DOMAIN g = DOMAIN f, DOMAIN h = DOMAIN f,
           \A x \in DOMAIN f : h[x] = f[x] + g[x]
    PROVE  Total(h) = Total(f) + Total(g)
<1> DEFINE D == DOMAIN f
           A == {s \in SUBSET D : Part(h)[s] # Part(f)[s] + Part(g)[s]}
<1>1. ASSUME A # {} PROVE FALSE
    <2>1. PICK s \in A : \A x \in s : s \ {x} \notin A
        BY <1>1, LeastSet DEF Summable
    <2>2. /\ Part(f)[s] = Sum(f, Part(f), s)
          /\ Part(g)[s] = Sum(g, Part(g), s)
          /\ Part(h)[s] = Sum(h, Part(h), s)
        BY PartSum DEF Summable
    <2>3. s # {}
        BY <2>2 DEF Sum
    <2> DEFINE x == First(s)
               t == s \ {x}
    <2>4. x \in s
        BY <2>3 DEF First
    <2>5. Part(h)[t] = Part(f)[t] + Part(g)[t] /\ h[x] = f[x] + g[x]
        BY <2>1, <2>4
    <2>6. /\ Part(f)[t] \in Int /\ Part(g)[t] \in Int
          /\ f[x] \in Int /\ g[x] \in Int
        BY <2>4, PartType DEF Summable
    <2>7. /\ Part(f)[s] = f[x] + Part(f)[t]
          /\ Part(g)[s] = g[x] + Part(g)[t]
          /\ Part(h)[s] = h[x] + Part(h)[t]
        BY <2>2, <2>3 DEF Sum
    <2> HIDE DEF x, t
    <2>8. QED
        BY <2>1, <2>5, <2>6, <2>7
<1>2. QED
    BY <1>1, TotalIsPart

\* A sum with one term that is not zero.
LEMMA TotalOfOne ==
    ASSUME NEW f, Summable(f), NEW c \in DOMAIN f,
           \A x \in DOMAIN f : x # c => f[x] = 0
    PROVE  Total(f) = f[c]
<1> DEFINE D == DOMAIN f
           A == {s \in SUBSET D : Part(f)[s] # IF c \in s THEN f[c] ELSE 0}
<1>1. ASSUME A # {} PROVE FALSE
    <2>1. PICK s \in A : \A x \in s : s \ {x} \notin A
        BY <1>1, LeastSet DEF Summable
    <2>2. Part(f)[s] = Sum(f, Part(f), s)
        BY PartSum DEF Summable
    <2>3. s # {}
        BY <2>2 DEF Sum
    <2> DEFINE x == First(s)
               t == s \ {x}
    <2>4. x \in s /\ x \in D
        BY <2>3 DEF First
    <2>5. Part(f)[t] = IF c \in t THEN f[c] ELSE 0
        BY <2>1, <2>4
    <2>6. f[c] \in Int /\ f[x] \in Int
        BY <2>4 DEF Summable
    <2>7. Part(f)[s] = f[x] + Part(f)[t]
        BY <2>2, <2>3 DEF Sum
    <2>8. c \in t <=> c \in s /\ c # x
        OBVIOUS
    <2> HIDE DEF x, t
    <2>9. QED
        BY <2>1, <2>4, <2>5, <2>6, <2>7, <2>8
<1>2. QED
    BY <1>1, TotalIsPart

LEMMA TotalOfNone ==
    ASSUME NEW f, Summable(f), \A x \in DOMAIN f : f[x] = 0
    PROVE  Total(f) = 0
<1>1. PICK n \in Int : Total(f) = n /\ n = n + n
    <2>1. \A x \in DOMAIN f : f[x] = f[x] + f[x]
        OBVIOUS
    <2>2. Total(f) = Total(f) + Total(f)
        BY <2>1, TotalPlus
    <2>3. QED
        BY <2>2, TotalType
<1>2. QED
    BY <1>1

\* What one term changes by, the sum changes by.
LEMMA TotalChanges ==
    ASSUME NEW f, NEW g, Summable(f), Summable(g), DOMAIN g = DOMAIN f,
           NEW c \in DOMAIN f, \A x \in DOMAIN f : x # c => g[x] = f[x]
    PROVE  Total(g) = Total(f) + (g[c] - f[c])
<1> DEFINE d == [x \in DOMAIN f |-> g[x] - f[x]]
<1>1. Summable(d) /\ DOMAIN d = DOMAIN f
    BY DEF Summable
<1>2. Total(d) = d[c]
    <2>1. \A x \in DOMAIN d : x # c => d[x] = 0
        BY DEF Summable
    <2>2. QED
        BY <1>1, <2>1, TotalOfOne
<1>3. Total(g) = Total(f) + Total(d)
    <2>1. \A x \in DOMAIN f : g[x] = f[x] + d[x]
        BY DEF Summable
    <2>2. QED
        BY <1>1, <2>1, TotalPlus
<1>4. QED
    BY <1>2, <1>3

LEMMA TotalGrows ==
    ASSUME NEW f, NEW g, Summable(f), Summable(g), DOMAIN g = DOMAIN f,
           NEW c \in DOMAIN f, NEW n \in Int, g[c] = f[c] + n,
           \A x \in DOMAIN f : x # c => g[x] = f[x]
    PROVE  Total(g) = Total(f) + n
<1>1. Total(g) = Total(f) + (g[c] - f[c])
    BY TotalChanges
<1>2. g[c] - f[c] = n
    BY DEF Summable
<1>3. QED
    BY <1>1, <1>2

\* The sum of natural numbers is one.
LEMMA TotalNat ==
    ASSUME NEW f, Summable(f), \A x \in DOMAIN f : f[x] >= 0
    PROVE  Total(f) \in Nat
<1> DEFINE D == DOMAIN f
           A == {s \in SUBSET D : Part(f)[s] \notin Nat}
<1>1. ASSUME A # {} PROVE FALSE
    <2>1. PICK s \in A : \A x \in s : s \ {x} \notin A
        BY <1>1, LeastSet DEF Summable
    <2>2. Part(f)[s] = Sum(f, Part(f), s)
        BY PartSum DEF Summable
    <2>3. s # {}
        BY <2>2 DEF Sum
    <2>4. First(s) \in s
        BY <2>3 DEF First
    <2>5. Part(f)[s \ {First(s)}] \in Nat /\ f[First(s)] \in Nat
        BY <2>1, <2>4 DEF Summable
    <2>6. QED
        BY <2>2, <2>3, <2>5 DEF Sum
<1>2. QED
    BY <1>1, TotalIsPart

LEMMA SumOfNat ==
    ASSUME NEW S, IsFiniteSet(S), NEW f \in [S -> Nat]
    PROVE  Summable(f) /\ Total(f) \in Nat
<1>1. Summable(f)
    BY DEF Summable
<1>2. QED
    BY <1>1, TotalNat

\* A sum is at most the sum of terms that are as large.
LEMMA TotalAtMost ==
    ASSUME NEW f, NEW g, Summable(f), Summable(g), DOMAIN g = DOMAIN f,
           \A x \in DOMAIN f : f[x] <= g[x]
    PROVE  Total(f) <= Total(g)
<1> DEFINE d == [x \in DOMAIN f |-> g[x] - f[x]]
<1>1. Summable(d) /\ DOMAIN d = DOMAIN f
    BY DEF Summable
<1>2. Total(d) \in Nat
    <2>1. \A x \in DOMAIN d : d[x] >= 0
        BY DEF Summable
    <2>2. QED
        BY <1>1, <2>1, TotalNat
<1>3. Total(g) = Total(f) + Total(d)
    <2>1. \A x \in DOMAIN f : g[x] = f[x] + d[x]
        BY DEF Summable
    <2>2. QED
        BY <1>1, <2>1, TotalPlus
<1>4. QED
    BY <1>2, <1>3, TotalType

\* No term of natural numbers is more than the sum.
LEMMA TermAtMost ==
    ASSUME NEW S, IsFiniteSet(S), NEW f \in [S -> Nat], NEW c \in S
    PROVE  f[c] <= Total(f)
<1> DEFINE g == [x \in S |-> IF x = c THEN f[c] ELSE 0]
<1>1. g \in [S -> Nat] /\ Summable(f)
    BY SumOfNat
<1>2. Summable(g) /\ \A x \in S : g[x] <= f[x]
    BY <1>1, SumOfNat
<1>3. Total(g) = g[c]
    BY <1>1, <1>2, TotalOfOne
<1>4. Total(g) <= Total(f)
    BY <1>1, <1>2, TotalAtMost
<1>5. QED
    BY <1>3, <1>4

\* Any element may be added last.
LEMMA PartAny ==
    ASSUME NEW f, Summable(f), NEW s \in SUBSET DOMAIN f, NEW c \in s
    PROVE  Part(f)[s] = f[c] + Part(f)[s \ {c}]
<1> DEFINE D == DOMAIN f
           A == {t \in SUBSET D :
                    ~\A y \in t : Part(f)[t] = f[y] + Part(f)[t \ {y}]}
<1>1. ASSUME A # {} PROVE FALSE
    <2>1. PICK t \in A : \A x \in t : t \ {x} \notin A
        BY <1>1, LeastSet DEF Summable
    <2>2. PICK y \in t : Part(f)[t] # f[y] + Part(f)[t \ {y}]
        BY <2>1
    <2> DEFINE x == First(t)
               u == (t \ {x}) \ {y}
    <2>3. x \in t
        BY <2>2 DEF First
    <2>4. Part(f)[t] = f[x] + Part(f)[t \ {x}]
        BY <2>1, <2>2, PartSum DEF Summable, Sum
    <2> HIDE DEF x
    <2>5. x # y
        BY <2>2, <2>4
    <2>6. Part(f)[t \ {x}] = f[y] + Part(f)[u]
        BY <2>1, <2>2, <2>3, <2>5
    <2>7. (t \ {y}) \ {x} = u
        OBVIOUS
    <2>8. Part(f)[t \ {y}] = f[x] + Part(f)[u]
        BY <2>1, <2>2, <2>3, <2>5, <2>7
    <2>9. f[x] \in Int /\ f[y] \in Int /\ Part(f)[u] \in Int
        BY <2>1, <2>2, <2>3, PartType DEF Summable
    <2>10. QED
        BY <2>2, <2>4, <2>6, <2>8, <2>9
<1>2. QED
    BY <1>1

\* Terms that are zero may be left out.
LEMMA TotalOfSupport ==
    ASSUME NEW f, NEW g, Summable(f), Summable(g), DOMAIN g \subseteq DOMAIN f,
           \A x \in DOMAIN f : f[x] = IF x \in DOMAIN g THEN g[x] ELSE 0
    PROVE  Total(f) = Total(g)
<1> DEFINE D == DOMAIN f
           E == DOMAIN g
           A == {s \in SUBSET D : Part(f)[s] # Part(g)[s \intersect E]}
<1>1. ASSUME A # {} PROVE FALSE
    <2>1. PICK s \in A : \A x \in s : s \ {x} \notin A
        BY <1>1, LeastSet DEF Summable
    <2>2. s # {}
        <3>1. Part(f)[{}] = 0 /\ Part(g)[{}] = 0
            BY PartSum DEF Summable, Sum
        <3>2. {} \intersect E = {}
            OBVIOUS
        <3>3. QED
            BY <2>1, <3>1, <3>2
    <2>3. PICK x \in s : TRUE
        BY <2>2
    <2> DEFINE t == s \ {x}
               u == s \intersect E
    <2>4. Part(f)[t] = Part(g)[t \intersect E]
        BY <2>1, <2>3
    <2>5. Part(f)[s] = f[x] + Part(f)[t]
        BY <2>1, <2>3, PartAny
    <2>6. f[x] \in Int /\ Part(f)[t] \in Int
        BY <2>1, <2>3, PartType DEF Summable
    <2>7. CASE x \in E
        <3>1. u \in SUBSET E /\ x \in u /\ u \ {x} = t \intersect E
            BY <2>3, <2>7
        <3>2. Part(g)[u] = g[x] + Part(g)[u \ {x}]
            BY <3>1, PartAny
        <3>3. QED
            BY <2>1, <2>3, <2>4, <2>5, <2>7, <3>1, <3>2
    <2>8. CASE x \notin E
        <3>1. t \intersect E = u /\ f[x] = 0
            BY <2>1, <2>3, <2>8
        <3>2. Part(f)[s] = Part(f)[t]
            BY <2>5, <2>6, <3>1
        <3>3. QED
            BY <2>1, <2>4, <3>1, <3>2
    <2>9. QED
        BY <2>7, <2>8
<1>2. D \intersect E = E
    OBVIOUS
<1>3. QED
    BY <1>1, <1>2, TotalIsPart

-----------------------------------------------------------------------------
(* The counts of a scrape, when there is one at a time.                    *)

\* What the tracked processes have in their counters: Held[i][k][x] is what x
\* has in that of kind i from process k.
Held == [i \in Kinds |-> [k \in Keys |-> [x \in Keys |->
            IF instanceData[x] = None THEN 0
            ELSE counts[instanceData[x]][i][k]]]]
Tallies == [Kinds -> [Keys -> [Keys -> Nat]]]

\* What the processes of a set have of it, and what all have from any process.
SumOver(row, X) == Total([x \in Keys |-> IF x \in X THEN row[x] ELSE 0])
SumOfAll(rows) == Total([k \in Procs |-> SumOver(rows[k], Keys)])

\* What the programs of a map have, from one process and from any.
Entry(m, g, i, k) == IF g \in DOMAIN m THEN m[g][i][k] ELSE 0
Sums(m, i, k) == Total([g \in Programs |-> Entry(m, g, i, k)])
AllSums(m, i) == Total([k \in Procs |-> Sums(m, i, k)])
MapsOf == UNION {[D -> [Kinds -> Bags]] : D \in SUBSET Programs}

\* What is left to do for an event.
EventSteps(kind) ==
    CASE kind \in {"disk", "registry"} ->
            {<<"resolve", "system", "process">>, <<"system", "process">>,
             <<"process">>}
      [] kind = "memory" ->
            {<<"system", "resolve", "process">>, <<"resolve", "process">>,
             <<"process">>}
      [] OTHER ->
            {<<"resolve", "process", "system">>, <<"process", "system">>,
             <<"system">>}
Counting(l, i) == l.kind = i /\ l.todo \in EventSteps(i)
ToCount(l, i, step) == IF Counting(l, i) /\ Pends(l, step) THEN 1 ELSE 0
ToCountFor(l, i, k) == IF l.proc = k THEN ToCount(l, i, "process") ELSE 0

\* The kinds that have a system-wide counter.
Measured == IF ByProtocol THEN Kinds ELSE Kinds \ {"network"}

CounterTypes ==
    /\ happened \in [Kinds -> Bags] /\ systemWide \in [Kinds -> Nat]
    /\ phase \in [Procs -> {"new", "live", "ended"}]

\* What is tracked has happened and is counted by the system, or will be.
EventHand ==
    LET l == loc["callback"]
    IN  /\ \A step \in {"resolve", "process", "system"} :
                Pends(l, step) => l.kind \in Kinds /\ Counting(l, l.kind)
        /\ Publishing => instanceData[l.proc] = None /\ phase[l.proc] # "new"
NewUntracked == \A p \in Procs : phase[p] = "new" => instanceData[p] = None
AllHappened ==
    \A i \in Kinds, k \in Procs :
        SumOver(Held[i][k], Keys) + ToCountFor(loc["callback"], i, k)
            <= happened[i][k]
AllMeasured ==
    \A i \in Measured :
        SumOfAll(Held[i]) + ToCount(loc["callback"], i, "process")
            <= systemWide[i] + ToCount(loc["callback"], i, "system")
Counted ==
    CounterTypes /\ EventHand /\ NewUntracked /\ AllHappened /\ AllMeasured

\* The map that is being built, the live one, the one to clear and those of the
\* pool, which are empty, are different ones.
AtProcess == {"query", "store", "key", "sum"}
Building == AtProcess \union {"range"}
Frozen == {"clear", "collect", "cleanup"}
Pool ==
    /\ aggregatedData \in (Maps \union {None}) \ aggregationDataPool
    /\ aggregationDataPool \subseteq Maps
    /\ maps \in [Maps -> MapsOf]
    /\ \A m \in aggregationDataPool : maps[m] = NoPrograms
OwnMaps(s) ==
    /\ pc[s] \in Building =>
        /\ scrape[s].building \in Maps \ aggregationDataPool
        /\ scrape[s].building # aggregatedData
    /\ pc[s] \in Frozen => aggregatedData \in Maps
    /\ pc[s] = "clear" =>
        /\ scrape[s].old \in (Maps \union {None}) \ aggregationDataPool
        /\ scrape[s].old # aggregatedData

ScrapeTypes(s) ==
    /\ scrape[s].before \in [Kinds -> Bags]
    /\ scrape[s].system \in [Kinds -> Nat]
    /\ DOMAIN scrape[s].programs = Kinds
    /\ pc[s] = "sum" => scrape[s].program \in Programs

\* The collector that reads, and the map that it reads.
CollectSteps(kind) ==
    IF kind = "network"
    THEN {<<"hold", "programs", "total">>, <<"programs", "total">>, <<"total">>}
    ELSE {<<"total", "hold", "programs">>, <<"hold", "programs">>,
          <<"programs">>}
CollectHand(s) ==
    LET l == loc[s]
    IN  /\ \A step \in {"total", "hold", "programs"} :
            Pends(l, step) => pc[s] = "collect"
        /\ pc[s] = "collect" =>
            /\ scrape[s].toCollect \subseteq Kinds
            /\ ~Free(s) =>
                /\ l.kind \in Kinds \ scrape[s].toCollect
                /\ l.todo \in CollectSteps(l.kind)
                /\ Pends(l, "programs") /\ ~Pends(l, "hold") =>
                    scrape[s].held = aggregatedData

\* Before the first process is visited, what a process had it still has.
BeforeVisits(s) ==
    pc[s] \in {"services", "apply", "get"} => \A i \in Kinds, k \in Procs :
        Held[i][k][k] >= scrape[s].before[i][k]

\* While they are visited, what it had it still has, if it is still to be
\* added, or is in the map that is being built, where nothing is that does not
\* come from a process that was added.
ToAdd(s) ==
    scrape[s].toVisit \union
        IF pc[s] \in AtProcess
        THEN {x \in Keys : instanceData[x] = loc[s].obj} ELSE {}
WhileVisiting(s) ==
    pc[s] \in Building =>
        /\ pc[s] \in AtProcess => \E x \in Keys \ scrape[s].toVisit :
                instanceData[x] = loc[s].obj
        /\ \A i \in Kinds, k \in Procs :
            /\ \/ k \in ToAdd(s) /\ Held[i][k][k] >= scrape[s].before[i][k]
               \/ Sums(maps[scrape[s].building], i, k) >= scrape[s].before[i][k]
            /\ Sums(maps[scrape[s].building], i, k)
                    <= SumOver(Held[i][k], Keys \ ToAdd(s))

\* From then on it is in the live map, whose programs have no more than has
\* happened or is counted by the system, but for an event of a kind that is
\* counted for the process first.
Slack(i) == IF i \in SystemFirst THEN 0 ELSE 1
WhileInstalled(s) ==
    pc[s] \in Frozen =>
        /\ \A i \in Kinds, k \in Procs :
            /\ Sums(maps[aggregatedData], i, k) >= scrape[s].before[i][k]
            /\ Sums(maps[aggregatedData], i, k) <= happened[i][k]
        /\ \A i \in Measured :
            AllSums(maps[aggregatedData], i) <= systemWide[i] + Slack(i)

\* What a collector has taken.
Took(s, i, step) ==
    \/ pc[s] = "cleanup"
    \/ /\ pc[s] = "collect" /\ i \notin scrape[s].toCollect
       /\ ~(loc[s].kind = i /\ Pends(loc[s], step))
Taken(s) ==
    \A i \in Kinds :
        /\ Took(s, i, "programs") =>
            scrape[s].programs[i] = [g \in DOMAIN maps[aggregatedData] |->
                                        maps[aggregatedData][g][i]]
        /\ Took(s, i, "total") /\ i \in Measured =>
            AllSums(maps[aggregatedData], i) <= scrape[s].system[i] + Slack(i)

ScrapeInv(s) ==
    /\ OwnMaps(s) /\ ScrapeTypes(s) /\ CollectHand(s) /\ BeforeVisits(s)
    /\ WhileVisiting(s) /\ WhileInstalled(s) /\ Taken(s)

SumInv ==
    Counted /\ Pool /\ \A s \in Scrapers : ScrapeInv(s)

-----------------------------------------------------------------------------
(* The sums.                                                               *)

LEMMA Finite == IsFiniteSet(Keys) /\ IsFiniteSet(Procs) /\ IsFiniteSet(Programs)
<1>1. IsFiniteSet(Procs) /\ IsFiniteSet(Tags)
    BY FiniteAssumption
<1>2. IsFiniteSet(Keys) /\ IsFiniteSet(Tags \union {None})
    BY <1>1, FS_AddElement DEF Keys
<1> DEFINE P == Keys \X (Tags \union {None})
           f == [q \in P |-> <<ProgramOf[q[1]], q[2]>>]
<1>3. IsFiniteSet(P)
    BY <1>2, FS_Product
<1>4. f \in Surjection(P, Programs)
    <2>1. f \in [P -> Programs]
        BY DEF Programs
    <2>2. ASSUME NEW g \in Programs PROVE \E q \in P : f[q] = g
        <3>1. PICK k \in Keys, t \in Tags \union {None} : g = <<ProgramOf[k], t>>
            BY DEF Programs
        <3>2. <<k, t>> \in P /\ f[<<k, t>>] = g
            BY <3>1
        <3>3. QED
            BY <3>2
    <2>3. QED
        BY <2>1, <2>2 DEF Surjection
<1>5. QED
    BY <1>1, <1>2, <1>3, <1>4, FS_Surjection

\* Sums over sets of processes.
LEMMA SumOverType ==
    ASSUME NEW row \in [Keys -> Nat], NEW X
    PROVE  SumOver(row, X) \in Nat
<1> DEFINE f == [x \in Keys |-> IF x \in X THEN row[x] ELSE 0]
<1>1. f \in [Keys -> Nat]
    OBVIOUS
<1>2. QED
    BY <1>1, Finite, SumOfNat DEF SumOver

LEMMA SumOverAtMost ==
    ASSUME NEW a \in [Keys -> Nat], NEW b \in [Keys -> Nat], NEW X, NEW Y,
           \A x \in Keys : x \in X => x \in Y /\ a[x] <= b[x]
    PROVE  SumOver(a, X) <= SumOver(b, Y)
<1> DEFINE f == [x \in Keys |-> IF x \in X THEN a[x] ELSE 0]
           g == [x \in Keys |-> IF x \in Y THEN b[x] ELSE 0]
<1>1. f \in [Keys -> Nat] /\ g \in [Keys -> Nat]
    OBVIOUS
<1>2. Summable(f) /\ Summable(g) /\ DOMAIN f = Keys /\ DOMAIN g = Keys
    BY <1>1, Finite, SumOfNat
<1>3. \A x \in Keys : f[x] <= g[x]
    OBVIOUS
<1> HIDE DEF f, g
<1>4. Total(f) <= Total(g)
    BY <1>2, <1>3, TotalAtMost
<1>5. QED
    BY <1>4 DEF SumOver, f, g

\* One more process.
LEMMA SumOverOneMore ==
    ASSUME NEW a \in [Keys -> Nat], NEW c \in Keys, NEW X, NEW Y,
           \A x \in Keys : x \in Y <=> x \in X \/ x = c, c \notin X
    PROVE  SumOver(a, Y) = SumOver(a, X) + a[c]
<1> DEFINE f == [x \in Keys |-> IF x \in X THEN a[x] ELSE 0]
           g == [x \in Keys |-> IF x \in Y THEN a[x] ELSE 0]
<1>1. f \in [Keys -> Nat] /\ g \in [Keys -> Nat]
    OBVIOUS
<1>2. Summable(f) /\ Summable(g) /\ DOMAIN f = Keys /\ DOMAIN g = Keys
    BY <1>1, Finite, SumOfNat
<1>3. /\ \A x \in Keys : x # c => g[x] = f[x]
      /\ g[c] = f[c] + a[c] /\ a[c] \in Int
    OBVIOUS
<1> HIDE DEF f, g
<1>4. Total(g) = Total(f) + a[c]
    BY <1>2, <1>3, TotalGrows
<1>5. QED
    BY <1>4 DEF SumOver, f, g

\* One more event.
LEMMA SumOverOneEvent ==
    ASSUME NEW a \in [Keys -> Nat], NEW b \in [Keys -> Nat], NEW c \in Keys,
           b[c] = a[c] + 1, \A x \in Keys : x # c => b[x] = a[x]
    PROVE  SumOver(b, Keys) = SumOver(a, Keys) + 1
<1> DEFINE f == [x \in Keys |-> IF x \in Keys THEN a[x] ELSE 0]
           g == [x \in Keys |-> IF x \in Keys THEN b[x] ELSE 0]
<1>1. f \in [Keys -> Nat] /\ g \in [Keys -> Nat]
    OBVIOUS
<1>2. Summable(f) /\ Summable(g) /\ DOMAIN f = Keys /\ DOMAIN g = Keys
    BY <1>1, Finite, SumOfNat
<1>3. /\ \A x \in Keys : x # c => g[x] = f[x]
      /\ g[c] = f[c] + 1 /\ 1 \in Int
    OBVIOUS
<1> HIDE DEF f, g
<1>4. Total(g) = Total(f) + 1
    BY <1>2, <1>3, TotalGrows
<1>5. QED
    BY <1>4 DEF SumOver, f, g

\* Sums over all processes and the events of all.
LEMMA SumOfAllAtMost ==
    ASSUME NEW a \in [Keys -> [Keys -> Nat]], NEW b \in [Keys -> [Keys -> Nat]],
           \A k \in Procs, x \in Keys : a[k][x] <= b[k][x]
    PROVE  /\ SumOfAll(a) \in Nat /\ SumOfAll(b) \in Nat
           /\ SumOfAll(a) <= SumOfAll(b)
<1> DEFINE f == [k \in Procs |-> SumOver(a[k], Keys)]
           g == [k \in Procs |-> SumOver(b[k], Keys)]
<1>1. Procs \subseteq Keys
    BY Constants
<1>2. f \in [Procs -> Nat] /\ g \in [Procs -> Nat]
    BY <1>1, SumOverType
<1>3. /\ Summable(f) /\ Summable(g) /\ DOMAIN f = Procs /\ DOMAIN g = Procs
      /\ Total(f) \in Nat /\ Total(g) \in Nat
    BY <1>2, Finite, SumOfNat
<1>4. \A k \in Procs : f[k] <= g[k]
    BY <1>1, SumOverAtMost
<1> HIDE DEF f, g
<1>5. Total(f) <= Total(g)
    BY <1>3, <1>4, TotalAtMost
<1>6. QED
    BY <1>3, <1>5 DEF SumOfAll, f, g

LEMMA SumOfAllOneEvent ==
    ASSUME NEW a \in [Keys -> [Keys -> Nat]], NEW b \in [Keys -> [Keys -> Nat]],
           NEW p \in Procs, SumOver(b[p], Keys) <= SumOver(a[p], Keys) + 1,
           \A k \in Procs : k # p => b[k] = a[k]
    PROVE  /\ SumOfAll(a) \in Nat /\ SumOfAll(b) \in Nat
           /\ SumOfAll(b) <= SumOfAll(a) + 1
<1> DEFINE f == [k \in Procs |-> SumOver(a[k], Keys)]
           g == [k \in Procs |-> SumOver(b[k], Keys)]
<1>1. Procs \subseteq Keys
    BY Constants
<1>2. f \in [Procs -> Nat] /\ g \in [Procs -> Nat]
    BY <1>1, SumOverType
<1>3. /\ Summable(f) /\ Summable(g) /\ DOMAIN f = Procs /\ DOMAIN g = Procs
      /\ Total(f) \in Nat /\ Total(g) \in Nat
    BY <1>2, Finite, SumOfNat
<1>4. \A k \in Procs : k # p => g[k] = f[k]
    OBVIOUS
<1>5. g[p] <= f[p] + 1
    OBVIOUS
<1> HIDE DEF f, g
<1>6. Total(g) = Total(f) + (g[p] - f[p])
    BY <1>3, <1>4, TotalChanges
<1>7. Total(g) <= Total(f) + 1
    BY <1>2, <1>3, <1>5, <1>6
<1>8. QED
    BY <1>3, <1>7 DEF SumOfAll, f, g

\* Sums over the programs of a map.
LEMMA MapForms ==
    /\ \A m \in MapsOf : /\ DOMAIN m \subseteq Programs
                         /\ m \in [DOMAIN m -> [Kinds -> Bags]]
    /\ \A D \in SUBSET Programs : \A m : m \in [D -> [Kinds -> Bags]] => m \in MapsOf
BY DEF MapsOf

LEMMA EntryType ==
    ASSUME NEW m \in MapsOf, NEW i \in Kinds, NEW k \in Keys
    PROVE  \A g \in Programs : Entry(m, g, i, k) \in Nat
BY MapForms DEF Entry, Bags

LEMMA SumsType ==
    ASSUME NEW m \in MapsOf, NEW i \in Kinds
    PROVE  /\ \A k \in Keys : Sums(m, i, k) \in Nat
           /\ AllSums(m, i) \in Nat
<1>1. ASSUME NEW k \in Keys PROVE Sums(m, i, k) \in Nat
    <2> DEFINE f == [g \in Programs |-> Entry(m, g, i, k)]
    <2>1. f \in [Programs -> Nat]
        BY EntryType
    <2>2. QED
        BY <2>1, Finite, SumOfNat DEF Sums
<1> DEFINE f == [k \in Procs |-> Sums(m, i, k)]
<1>2. f \in [Procs -> Nat]
    BY <1>1, Constants
<1>3. QED
    BY <1>1, <1>2, Finite, SumOfNat DEF AllSums

LEMMA SumsOfNone ==
    /\ NoPrograms \in MapsOf
    /\ \A i \in Kinds, k \in Keys : Sums(NoPrograms, i, k) = 0
<1>1. DOMAIN NoPrograms = {}
    BY DEF NoPrograms
<1>2. NoPrograms \in MapsOf
    <2>1. NoPrograms \in [{} -> [Kinds -> Bags]]
        BY DEF NoPrograms
    <2>2. QED
        BY <2>1, MapForms
<1>3. ASSUME NEW i \in Kinds, NEW k \in Keys PROVE Sums(NoPrograms, i, k) = 0
    <2> DEFINE f == [g \in Programs |-> Entry(NoPrograms, g, i, k)]
    <2>1. \A g \in Programs : f[g] = 0
        BY <1>1 DEF Entry
    <2>2. Summable(f)
        BY <2>1, Finite DEF Summable
    <2>3. QED
        BY <2>1, <2>2, TotalOfNone DEF Sums
<1>4. QED
    BY <1>2, <1>3

\* The counters of a process are added to those of its program.
LEMMA SumsAdded ==
    ASSUME NEW m \in MapsOf, NEW g \in Programs, NEW own \in [Kinds -> Bags]
    PROVE  /\ Added(m, g, own) \in MapsOf
           /\ \A i \in Kinds, k \in Keys :
                Sums(Added(m, g, own), i, k) = Sums(m, i, k) + own[i][k]
<1> DEFINE entry == IF g \in DOMAIN m THEN m[g] ELSE NoCounts
           sum == [i \in Kinds |-> Plus(entry[i], own[i])]
           n == Added(m, g, own)
<1>1. entry \in [Kinds -> Bags]
    BY MapForms DEF NoCounts, NoBag, Bags
<1> HIDE DEF entry
<1>2. /\ sum \in [Kinds -> Bags]
      /\ \A i \in Kinds, k \in Keys : sum[i][k] = entry[i][k] + own[i][k]
    BY <1>1 DEF Plus, Bags
<1>3. n = [x \in DOMAIN m \union {g} |-> IF x = g THEN sum ELSE m[x]]
    BY DEF Added, entry
<1> HIDE DEF n, sum
<1>4. /\ DOMAIN n = DOMAIN m \union {g} /\ n[g] = sum
      /\ \A x \in DOMAIN m : x # g => n[x] = m[x]
    BY <1>3
<1>5. n \in [DOMAIN m \union {g} -> [Kinds -> Bags]]
    BY <1>2, <1>3, MapForms
<1>6. n \in MapsOf
    BY <1>5, MapForms
<1>7. ASSUME NEW i \in Kinds, NEW k \in Keys
      PROVE  Sums(n, i, k) = Sums(m, i, k) + own[i][k]
    <2> DEFINE a == [x \in Programs |-> Entry(m, x, i, k)]
               b == [x \in Programs |-> Entry(n, x, i, k)]
    <2>1. a \in [Programs -> Nat] /\ b \in [Programs -> Nat]
        BY <1>6, EntryType
    <2>2. /\ Summable(a) /\ Summable(b)
          /\ DOMAIN a = Programs /\ DOMAIN b = Programs
        BY <2>1, Finite, SumOfNat
    <2>3. entry[i][k] = a[g]
        BY DEF entry, Entry, NoCounts, NoBag
    <2>4. b[g] = a[g] + own[i][k]
        BY <1>2, <1>4, <2>3 DEF Entry
    <2>5. \A x \in Programs : x # g => b[x] = a[x]
        BY <1>4 DEF Entry
    <2>6. own[i][k] \in Int
        BY DEF Bags
    <2> HIDE DEF a, b
    <2>7. Total(b) = Total(a) + own[i][k]
        BY <2>2, <2>4, <2>5, <2>6, TotalGrows
    <2>8. QED
        BY <2>7 DEF Sums, a, b
<1>8. QED
    BY <1>6, <1>7 DEF n

\* What a collector takes of a map is what its programs have.
LEMMA SumsTaken ==
    ASSUME NEW m \in MapsOf, NEW i \in Kinds, NEW k \in Keys
    PROVE  Total([g \in DOMAIN m |-> m[g][i][k]]) = Sums(m, i, k)
<1> DEFINE f == [g \in Programs |-> Entry(m, g, i, k)]
           h == [g \in DOMAIN m |-> m[g][i][k]]
<1>1. f \in [Programs -> Nat] /\ DOMAIN m \subseteq Programs
    BY EntryType, MapForms
<1>2. h \in [DOMAIN m -> Nat]
    BY MapForms DEF Bags
<1>3. IsFiniteSet(DOMAIN m)
    BY <1>1, Finite, FS_Subset
<1>4. Summable(f) /\ Summable(h) /\ DOMAIN h = DOMAIN m /\ DOMAIN f = Programs
    BY <1>1, <1>2, <1>3, Finite, SumOfNat
<1>5. \A x \in Programs : f[x] = IF x \in DOMAIN m THEN h[x] ELSE 0
    BY <1>1 DEF Entry
<1> HIDE DEF f, h
<1>6. Total(f) = Total(h)
    BY <1>1, <1>4, <1>5, TotalOfSupport
<1>7. QED
    BY <1>6 DEF Sums, f, h

LEMMA AllSumsAtMost ==
    ASSUME NEW m \in MapsOf, NEW i \in Kinds,
           NEW rows \in [Keys -> [Keys -> Nat]],
           \A k \in Procs : Sums(m, i, k) <= SumOver(rows[k], Keys)
    PROVE  AllSums(m, i) <= SumOfAll(rows)
<1> DEFINE f == [k \in Procs |-> Sums(m, i, k)]
           g == [k \in Procs |-> SumOver(rows[k], Keys)]
<1>1. f \in [Procs -> Nat] /\ g \in [Procs -> Nat]
    BY SumsType, SumOverType, Constants
<1>2. Summable(f) /\ Summable(g) /\ DOMAIN f = Procs /\ DOMAIN g = Procs
    BY <1>1, Finite, SumOfNat
<1>3. \A k \in Procs : f[k] <= g[k]
    OBVIOUS
<1> HIDE DEF f, g
<1>4. Total(f) <= Total(g)
    BY <1>2, <1>3, TotalAtMost
<1>5. QED
    BY <1>4 DEF AllSums, SumOfAll, f, g

-----------------------------------------------------------------------------
(* What is left to do for an event.                                        *)

\* What a list of up to three steps holds, and what is left of it.
LEMMA Lists ==
    ASSUME NEW l, NEW a, NEW b, NEW c
    PROVE  /\ l.todo = <<a>> => /\ \A x : Pends(l, x) <=> x = a
                                /\ Head(l.todo) = a /\ Tail(l.todo) = <<>>
           /\ l.todo = <<a, b>> => /\ \A x : Pends(l, x) <=> x \in {a, b}
                                   /\ Head(l.todo) = a /\ Tail(l.todo) = <<b>>
           /\ l.todo = <<a, b, c>> =>
                /\ \A x : Pends(l, x) <=> x \in {a, b, c}
                /\ Head(l.todo) = a /\ Tail(l.todo) = <<b, c>>
<1>1. l.todo = <<a>> => /\ \A x : Pends(l, x) <=> x = a
                        /\ Head(l.todo) = a /\ Tail(l.todo) = <<>>
    BY DEF Pends
<1>2. ASSUME l.todo = <<a, b>>
      PROVE  /\ \A x : Pends(l, x) <=> x \in {a, b}
             /\ Head(l.todo) = a /\ Tail(l.todo) = <<b>>
    <2>1. Len(l.todo) = 2 /\ 1 .. 2 = {1, 2} /\ l.todo[1] = a /\ l.todo[2] = b
        BY <1>2
    <2>2. \A x : Pends(l, x) <=> x \in {a, b}
        BY <2>1 DEF Pends
    <2>3. QED
        BY <1>2, <2>2
<1>3. ASSUME l.todo = <<a, b, c>>
      PROVE  /\ \A x : Pends(l, x) <=> x \in {a, b, c}
             /\ Head(l.todo) = a /\ Tail(l.todo) = <<b, c>>
    <2>1. Len(l.todo) = 3 /\ 1 .. 3 = {1, 2, 3}
        BY <1>3
    <2>2. l.todo[1] = a /\ l.todo[2] = b /\ l.todo[3] = c
        BY <1>3
    <2>3. \A x : Pends(l, x) <=> x \in {a, b, c}
        BY <2>1, <2>2 DEF Pends
    <2>4. QED
        BY <1>3, <2>3
<1>4. QED
    BY <1>1, <1>2, <1>3

\* An event is counted for its process and by the system once, in the order of
\* its kind, unless it is given up when its process is looked up.
LEMMA EventRest ==
    ASSUME NEW l, NEW rest, NEW i \in Kinds, Counting(l, i),
           rest.todo = Tail(l.todo), rest.kind = l.kind
    PROVE  /\ Pends(l, "resolve") => Pends(l, "process")
           /\ \A step \in {"resolve", "process", "system"} :
                Pends(rest, step) => Counting(rest, i)
           /\ \A step \in {"process", "system"} :
                /\ Head(l.todo) = step => Pends(l, step) /\ ~Pends(rest, step)
                /\ Head(l.todo) # step => (Pends(rest, step) <=> Pends(l, step))
           /\ i \in SystemFirst /\ Pends(l, "system") => Pends(l, "process")
<1>1. rest.todo = Tail(l.todo) /\ rest.kind = l.kind /\ l.kind = i
    BY DEF Counting
<1>2. \A x : rest.todo = <<>> => ~Pends(rest, x)
    BY NothingPends
<1>3. CASE i \in {"disk", "registry"}
    <2>1. \/ l.todo = <<"resolve", "system", "process">>
          \/ l.todo = <<"system", "process">> \/ l.todo = <<"process">>
        BY <1>3 DEF Counting, EventSteps
    <2>2. rest.todo \in {<<"system", "process">>, <<"process">>}
                => Counting(rest, i)
        BY <1>1, <1>3 DEF Counting, EventSteps
    <2>3. CASE l.todo = <<"resolve", "system", "process">>
        <3>1. /\ \A x : Pends(l, x) <=> x \in {"resolve", "system", "process"}
              /\ Head(l.todo) = "resolve" /\ rest.todo = <<"system", "process">>
            BY <1>1, <2>3, Lists
        <3>2. \A x : Pends(rest, x) <=> x \in {"system", "process"}
            BY <3>1, Lists
        <3>3. QED
            BY <1>3, <2>2, <3>1, <3>2 DEF SystemFirst
    <2>4. CASE l.todo = <<"system", "process">>
        <3>1. /\ \A x : Pends(l, x) <=> x \in {"system", "process"}
              /\ Head(l.todo) = "system" /\ rest.todo = <<"process">>
            BY <1>1, <2>4, Lists
        <3>2. \A x : Pends(rest, x) <=> x \in {"process"}
            BY <3>1, Lists
        <3>3. QED
            BY <1>3, <2>2, <3>1, <3>2 DEF SystemFirst
    <2>5. CASE l.todo = <<"process">>
        <3>1. /\ \A x : Pends(l, x) <=> x \in {"process"}
              /\ Head(l.todo) = "process" /\ rest.todo = <<>>
            BY <1>1, <2>5, Lists
        <3>2. \A x : ~Pends(rest, x)
            BY <1>2, <3>1
        <3>3. QED
            BY <1>3, <3>1, <3>2 DEF SystemFirst
    <2>6. QED
        BY <2>1, <2>3, <2>4, <2>5
<1>4. CASE i = "memory"
    <2>1. \/ l.todo = <<"system", "resolve", "process">>
          \/ l.todo = <<"resolve", "process">> \/ l.todo = <<"process">>
        BY <1>4 DEF Counting, EventSteps
    <2>2. rest.todo \in {<<"resolve", "process">>, <<"process">>}
                => Counting(rest, i)
        BY <1>1, <1>4 DEF Counting, EventSteps
    <2>3. CASE l.todo = <<"system", "resolve", "process">>
        <3>1. /\ \A x : Pends(l, x) <=> x \in {"system", "resolve", "process"}
              /\ Head(l.todo) = "system" /\ rest.todo = <<"resolve", "process">>
            BY <1>1, <2>3, Lists
        <3>2. \A x : Pends(rest, x) <=> x \in {"resolve", "process"}
            BY <3>1, Lists
        <3>3. QED
            BY <1>4, <2>2, <3>1, <3>2 DEF SystemFirst
    <2>4. CASE l.todo = <<"resolve", "process">>
        <3>1. /\ \A x : Pends(l, x) <=> x \in {"resolve", "process"}
              /\ Head(l.todo) = "resolve" /\ rest.todo = <<"process">>
            BY <1>1, <2>4, Lists
        <3>2. \A x : Pends(rest, x) <=> x \in {"process"}
            BY <3>1, Lists
        <3>3. QED
            BY <1>4, <2>2, <3>1, <3>2 DEF SystemFirst
    <2>5. CASE l.todo = <<"process">>
        <3>1. /\ \A x : Pends(l, x) <=> x \in {"process"}
              /\ Head(l.todo) = "process" /\ rest.todo = <<>>
            BY <1>1, <2>5, Lists
        <3>2. \A x : ~Pends(rest, x)
            BY <1>2, <3>1
        <3>3. QED
            BY <1>4, <3>1, <3>2 DEF SystemFirst
    <2>6. QED
        BY <2>1, <2>3, <2>4, <2>5
<1>5. CASE i \notin {"disk", "memory", "registry"}
    <2>1. \/ l.todo = <<"resolve", "process", "system">>
          \/ l.todo = <<"process", "system">> \/ l.todo = <<"system">>
        BY <1>5 DEF Counting, EventSteps
    <2>2. rest.todo \in {<<"process", "system">>, <<"system">>}
                => Counting(rest, i)
        BY <1>1, <1>5 DEF Counting, EventSteps
    <2>3. CASE l.todo = <<"resolve", "process", "system">>
        <3>1. /\ \A x : Pends(l, x) <=> x \in {"resolve", "process", "system"}
              /\ Head(l.todo) = "resolve" /\ rest.todo = <<"process", "system">>
            BY <1>1, <2>3, Lists
        <3>2. \A x : Pends(rest, x) <=> x \in {"process", "system"}
            BY <3>1, Lists
        <3>3. QED
            BY <1>5, <2>2, <3>1, <3>2 DEF SystemFirst
    <2>4. CASE l.todo = <<"process", "system">>
        <3>1. /\ \A x : Pends(l, x) <=> x \in {"process", "system"}
              /\ Head(l.todo) = "process" /\ rest.todo = <<"system">>
            BY <1>1, <2>4, Lists
        <3>2. \A x : Pends(rest, x) <=> x \in {"system"}
            BY <3>1, Lists
        <3>3. QED
            BY <1>5, <2>2, <3>1, <3>2 DEF SystemFirst
    <2>5. CASE l.todo = <<"system">>
        <3>1. /\ \A x : Pends(l, x) <=> x \in {"system"}
              /\ Head(l.todo) = "system" /\ rest.todo = <<>>
            BY <1>1, <2>5, Lists
        <3>2. \A x : ~Pends(rest, x)
            BY <1>2, <3>1
        <3>3. i \notin SystemFirst
            BY <1>5 DEF SystemFirst
        <3>4. Pends(l, "system") /\ ~Pends(l, "process") /\ ~Pends(l, "resolve")
            BY <3>1
        <3>5. QED
            BY <3>1, <3>2, <3>3, <3>4
    <2>6. QED
        BY <2>1, <2>3, <2>4, <2>5
<1>6. QED
    BY <1>3, <1>4, <1>5

LEMMA EventBegun ==
    ASSUME NEW l, NEW i \in Kinds, l.kind = i, l.todo = StepsOf(i)
    PROVE  /\ Counting(l, i)
           /\ \A x : Pends(l, x) <=> x \in {"resolve", "system", "process"}
<1>1. StepsOf(i) \in EventSteps(i)
    BY DEF StepsOf, EventSteps
<1>2. QED
    BY <1>1, Plans DEF Counting

\* What is to be counted of a hand with no event.
LEMMA NothingToCount ==
    ASSUME NEW l, NEW i, ~Pends(l, "process"), ~Pends(l, "system")
    PROVE  /\ ToCount(l, i, "process") = 0 /\ ToCount(l, i, "system") = 0
           /\ \A k : ToCountFor(l, i, k) = 0
BY DEF ToCount, ToCountFor

LEMMA EventHeads ==
    ASSUME NEW l, NEW i, Counting(l, i)
    PROVE  Head(l.todo) \in {"resolve", "process", "system"}
<1>1. \E a, b, c \in {"resolve", "process", "system"} :
        l.todo \in {<<a>>, <<a, b>>, <<a, b, c>>}
    BY DEF Counting, EventSteps
<1>2. QED
    BY <1>1

-----------------------------------------------------------------------------
(* What is tracked has happened and is counted.                            *)

LEMMA HeldType == Shapes => Held \in Tallies
<1> SUFFICES ASSUME Shapes PROVE Held \in Tallies
    OBVIOUS
<1>1. ASSUME NEW i \in Kinds, NEW k \in Keys, NEW x \in Keys
      PROVE  (IF instanceData[x] = None THEN 0
              ELSE counts[instanceData[x]][i][k]) \in Nat
    BY DEF Shapes, Bags
<1>2. QED
    BY <1>1 DEF Held, Tallies

LEMMA HeldTypeNext == (Shapes => Held \in Tallies)'
BY HeldType, PTL

LEMMA HeldIs ==
    ASSUME NEW i \in Kinds, NEW k \in Keys, NEW x \in Keys
    PROVE  Held[i][k][x] = IF instanceData[x] = None THEN 0
                           ELSE counts[instanceData[x]][i][k]
BY DEF Held

LEMMA HeldIsNext ==
    ASSUME NEW i \in Kinds, NEW k \in Keys, NEW x \in Keys
    PROVE  Held'[i][k][x] = IF instanceData'[x] = None THEN 0
                            ELSE counts'[instanceData'[x]][i][k]
BY DEF Held

\* What is held does not grow, and no more is left to be counted than before.
LEMMA NoMoreHeld ==
    ASSUME Shapes, Shapes', CounterTypes, AllHappened, AllMeasured,
           UNCHANGED <<happened, systemWide>>,
           \A i \in Kinds, k \in Keys, x \in Keys :
                Held'[i][k][x] <= Held[i][k][x],
           NEW l, NEW m, l = loc["callback"], m = loc'["callback"],
           \A i \in Kinds, k \in Procs : ToCountFor(m, i, k) <= ToCountFor(l, i, k),
           \A i \in Kinds : ToCount(m, i, "process") + ToCount(l, i, "system")
                    <= ToCount(l, i, "process") + ToCount(m, i, "system")
    PROVE  AllHappened' /\ AllMeasured'
<1>1. Held \in Tallies /\ Held' \in Tallies
    BY HeldType, HeldTypeNext
<1>2. ASSUME NEW i \in Kinds, NEW k \in Procs
      PROVE  SumOver(Held'[i][k], Keys) + ToCountFor(m, i, k) <= happened[i][k]
    <2>1. k \in Keys
        BY Constants
    <2>2. Held[i][k] \in [Keys -> Nat] /\ Held'[i][k] \in [Keys -> Nat]
        BY <1>1, <2>1 DEF Tallies
    <2>3. /\ SumOver(Held'[i][k], Keys) \in Nat /\ SumOver(Held[i][k], Keys) \in Nat
          /\ SumOver(Held'[i][k], Keys) <= SumOver(Held[i][k], Keys)
        BY <2>1, <2>2, SumOverType, SumOverAtMost
    <2>4. ToCountFor(m, i, k) \in Nat /\ ToCountFor(l, i, k) \in Nat
        BY DEF ToCountFor, ToCount
    <2>5. happened[i][k] \in Nat
        BY <2>1 DEF CounterTypes, Bags
    <2>6. SumOver(Held[i][k], Keys) + ToCountFor(l, i, k) <= happened[i][k]
        BY DEF AllHappened
    <2>7. QED
        BY <2>3, <2>4, <2>5, <2>6
<1>3. ASSUME NEW i \in Measured
      PROVE  SumOfAll(Held'[i]) + ToCount(m, i, "process")
                <= systemWide[i] + ToCount(m, i, "system")
    <2>1. i \in Kinds
        BY DEF Measured
    <2>2. /\ Held[i] \in [Keys -> [Keys -> Nat]]
          /\ Held'[i] \in [Keys -> [Keys -> Nat]]
        BY <1>1, <2>1 DEF Tallies
    <2>3. \A k \in Procs, x \in Keys : Held'[i][k][x] <= Held[i][k][x]
        BY <2>1, Constants
    <2>4. /\ SumOfAll(Held'[i]) \in Nat /\ SumOfAll(Held[i]) \in Nat
          /\ SumOfAll(Held'[i]) <= SumOfAll(Held[i])
        BY <2>2, <2>3, SumOfAllAtMost
    <2>5. \A step : ToCount(m, i, step) \in Nat /\ ToCount(l, i, step) \in Nat
        BY DEF ToCount
    <2>6. systemWide[i] \in Nat
        BY <2>1 DEF CounterTypes
    <2>7. SumOfAll(Held[i]) + ToCount(l, i, "process")
            <= systemWide[i] + ToCount(l, i, "system")
        BY DEF AllMeasured
    <2>8. ToCount(m, i, "process") + ToCount(l, i, "system")
            <= ToCount(l, i, "process") + ToCount(m, i, "system")
        BY <2>1
    <2>9. QED
        BY <2>4, <2>5, <2>6, <2>7, <2>8
<1>4. QED
    BY <1>2, <1>3 DEF AllHappened, AllMeasured

\* The callback goes on with a hand from which nothing is left to be counted.
LEMMA FreeOfEvents ==
    ASSUME Shapes, Shapes', Counted, CounterTypes', EventHand', NewUntracked',
           UNCHANGED <<happened, systemWide>>,
           \A i \in Kinds, k \in Keys, x \in Keys :
                Held'[i][k][x] <= Held[i][k][x],
           \A i \in Kinds : ToCount(loc["callback"], i, "system")
                            <= ToCount(loc["callback"], i, "process"),
           ~Pends(loc'["callback"], "process"), ~Pends(loc'["callback"], "system")
    PROVE  Counted'
<1> DEFINE l == loc["callback"]
           m == loc'["callback"]
<1>1. \A i : /\ ToCount(m, i, "process") = 0 /\ ToCount(m, i, "system") = 0
             /\ \A k : ToCountFor(m, i, k) = 0
    BY NothingToCount
<1>2. \A i : ToCount(l, i, "process") \in Nat /\ ToCount(l, i, "system") \in Nat
    BY DEF ToCount
<1>3. \A i, k : ToCountFor(l, i, k) \in Nat
    BY <1>2 DEF ToCountFor
<1>4. \A i \in Kinds : ToCount(l, i, "system") <= ToCount(l, i, "process")
    OBVIOUS
<1> HIDE DEF l, m
<1>5. \A i \in Kinds, k \in Procs : ToCountFor(m, i, k) <= ToCountFor(l, i, k)
    BY <1>1, <1>3
<1>6. \A i \in Kinds : ToCount(m, i, "process") + ToCount(l, i, "system")
            <= ToCount(l, i, "process") + ToCount(m, i, "system")
    BY <1>1, <1>2, <1>4
<1>7. AllHappened' /\ AllMeasured'
    BY <1>5, <1>6, NoMoreHeld DEF l, m, Counted
<1>8. QED
    BY <1>7 DEF Counted

\* Somebody else takes a step.
LEMMA OthersCounted ==
    ASSUME Shapes, Shapes', Counted, UNCHANGED <<happened, systemWide, counts>>,
           loc'["callback"] = loc["callback"],
           \A x \in Keys : instanceData'[x] \in {instanceData[x], None},
           phase' \in [Procs -> {"new", "live", "ended"}],
           \A p \in Procs : phase'[p] = "new" <=> phase[p] = "new",
           Publishing => loc["callback"].proc \in Procs
    PROVE  Counted'
<1>1. CounterTypes'
    BY DEF Counted, CounterTypes
<1>2. EventHand' /\ NewUntracked'
    BY Constants DEF Counted, EventHand, NewUntracked, Publishing
<1>3. ASSUME NEW i \in Kinds, NEW k \in Keys, NEW x \in Keys
      PROVE  Held'[i][k][x] <= Held[i][k][x]
    <2>1. Held \in Tallies /\ Held[i][k][x] \in Nat
        BY HeldType DEF Tallies
    <2>2. QED
        BY <2>1, HeldIs, HeldIsNext
<1> DEFINE l == loc["callback"]
<1>4. \A i, step : ToCount(l, i, step) \in Nat
    BY DEF ToCount
<1>5. \A i, k : ToCountFor(l, i, k) \in Nat
    BY <1>4 DEF ToCountFor
<1>6. l = loc'["callback"]
    OBVIOUS
<1> HIDE DEF l
<1>7. /\ \A i \in Kinds, k \in Procs : ToCountFor(l, i, k) <= ToCountFor(l, i, k)
      /\ \A i \in Kinds : ToCount(l, i, "process") + ToCount(l, i, "system")
            <= ToCount(l, i, "process") + ToCount(l, i, "system")
    BY <1>4, <1>5
<1>8. AllHappened' /\ AllMeasured'
    BY <1>3, <1>6, <1>7, NoMoreHeld DEF l, Counted
<1>9. QED
    BY <1>1, <1>2, <1>8 DEF Counted

-----------------------------------------------------------------------------
(* What the callback counts.                                               *)

\* Counters do not fall, and an object that becomes tracked was not before.
Grows ==
    /\ \A i \in Kinds, k \in Keys : /\ happened[i][k] <= happened'[i][k]
                                    /\ \A x \in Keys : Held[i][k][x] <= Held'[i][k][x]
    /\ \A i \in Kinds : systemWide[i] <= systemWide'[i]
    /\ \A x \in Keys : \/ instanceData'[x] = instanceData[x]
                       \/ /\ instanceData[x] = None
                          /\ \A y \in Keys : instanceData[y] # instanceData'[x]

LEMMA NothingGrows ==
    ASSUME Shapes, CounterTypes,
           UNCHANGED <<instanceData, counts, happened, systemWide>>
    PROVE  Held' = Held /\ Grows
<1>1. Held' = Held
    BY DEF Held
<1>2. Held \in Tallies
    BY HeldType
<1>3. \A i \in Kinds, k \in Keys, x \in Keys : Held[i][k][x] \in Nat
    BY <1>2 DEF Tallies
<1>4. \A i \in Kinds, k \in Keys : happened[i][k] \in Nat /\ systemWide[i] \in Nat
    BY DEF CounterTypes, Bags
<1>5. \A i \in Kinds : systemWide[i] \in Nat
    BY DEF CounterTypes
<1>6. QED
    BY <1>1, <1>3, <1>4, <1>5 DEF Grows

\* The next step for an event is taken, or the event is given up.
LEMMA EventTaken ==
    ASSUME IndInv, Counted, NEW step \in {"resolve", "process", "system"},
           At("callback", step), NEW l, l = loc["callback"],
           NEW m, m.todo = Tail(l.todo), m.kind = l.kind, m.proc = l.proc
    PROVE  /\ l.kind \in Kinds /\ Pends(l, step) /\ ~Publishing
           /\ step # "system" => l.proc \in Procs
           /\ ~Pends(m, "publish")
           /\ \A x \in {"resolve", "process", "system"} :
                Pends(m, x) => m.kind \in Kinds /\ Counting(m, m.kind)
           /\ \A i, x : ToCount(l, i, x) \in {0, 1} /\ ToCount(m, i, x) \in {0, 1}
           /\ \A i \in Kinds, x \in {"process", "system"} :
                /\ i # l.kind => ToCount(l, i, x) = 0
                /\ i = l.kind /\ x = step => ToCount(l, i, x) = 1
                /\ ToCount(m, i, x) = IF x = step THEN 0 ELSE ToCount(l, i, x)
<1>1. /\ l \in Task /\ l.todo # <<>> /\ Head(l.todo) = step
    BY Constants DEF IndInv, Shapes, At, Free
<1> DEFINE rest == [l EXCEPT !.todo = Tail(@)]
<1>2. /\ Pends(l, step) /\ \A x : Pends(rest, x) => Pends(l, x)
      /\ rest.todo = Tail(l.todo)
    BY <1>1, StepTaken DEF Task
<1> HIDE DEF rest
<1>3. \A x : Pends(m, x) => Pends(l, x)
    BY <1>2 DEF Pends
<1>4. l.kind \in Kinds /\ Counting(l, l.kind)
    BY <1>2 DEF Counted, EventHand
<1>5. ~Publishing
    BY <1>2, Plans DEF IndInv, CallbackHand
<1>6. step # "system" => l.proc \in Procs
    BY <1>2 DEF IndInv, CallbackHand
<1> DEFINE kind == l.kind
<1>7. /\ \A x \in {"resolve", "process", "system"} :
            Pends(m, x) => Counting(m, kind)
      /\ \A x \in {"process", "system"} :
            /\ step = x => Pends(l, x) /\ ~Pends(m, x)
            /\ step # x => (Pends(m, x) <=> Pends(l, x))
    <2>1. /\ kind \in Kinds /\ Counting(l, kind)
          /\ m.todo = Tail(l.todo) /\ m.kind = l.kind
        BY <1>4
    <2> HIDE DEF kind
    <2>2. /\ \A x \in {"resolve", "process", "system"} :
                Pends(m, x) => Counting(m, kind)
          /\ \A x \in {"process", "system"} :
                /\ Head(l.todo) = x => Pends(l, x) /\ ~Pends(m, x)
                /\ Head(l.todo) # x => (Pends(m, x) <=> Pends(l, x))
        BY <2>1, EventRest
    <2>3. QED
        BY <1>1, <2>2
<1>8. \A i : (Counting(l, i) => i = l.kind) /\ (Counting(m, i) => i = l.kind)
    BY DEF Counting
<1>9. ASSUME NEW i \in Kinds, NEW x \in {"process", "system"}
      PROVE  /\ i # l.kind => ToCount(l, i, x) = 0
             /\ i = l.kind /\ x = step => ToCount(l, i, x) = 1
             /\ ToCount(m, i, x) = IF x = step THEN 0 ELSE ToCount(l, i, x)
    BY <1>4, <1>7, <1>8 DEF ToCount
<1>10. \A i, x : ToCount(l, i, x) \in {0, 1} /\ ToCount(m, i, x) \in {0, 1}
    BY DEF ToCount
<1>11. ~Pends(m, "publish")
    BY <1>3, <1>5 DEF Publishing
<1>12. QED
    BY <1>2, <1>4, <1>5, <1>6, <1>7, <1>9, <1>10, <1>11

LEMMA EventHandNext ==
    ASSUME NEW m, loc'["callback"] = m, ~Pends(m, "publish"),
           \A x \in {"resolve", "process", "system"} :
                Pends(m, x) => m.kind \in Kinds /\ Counting(m, m.kind)
    PROVE  EventHand' /\ ~Publishing'
BY DEF EventHand, Publishing

LEMMA EventCounted ==
    ASSUME IndInv, IndInv', Counted, NEW kind \in Kinds, NEW p \in Procs,
           Event(kind, p)
    PROVE  Counted' /\ Grows
<1> DEFINE l == loc["callback"]
           m == [Idle EXCEPT !.todo = StepsOf(kind), !.kind = kind, !.proc = p]
<1>1. /\ loc' = [loc EXCEPT !["callback"] = m] /\ l.todo = <<>>
      /\ happened' = [happened EXCEPT ![kind][p] = @ + 1]
      /\ UNCHANGED <<instanceData, counts, systemWide, phase>>
    BY DEF Event, Free, tables
<1>2. m.todo = StepsOf(kind) /\ m.kind = kind /\ m.proc = p
    BY DEF Idle
<1>3. loc'["callback"] = m
    BY <1>1, Constants DEF IndInv, Shapes
<1> HIDE DEF m, l
<1>4. /\ Counting(m, kind)
      /\ \A x : Pends(m, x) <=> x \in {"resolve", "system", "process"}
    BY <1>2, EventBegun
<1>5. EventHand' /\ ~Publishing'
    BY <1>2, <1>3, <1>4, EventHandNext
<1>6. /\ \A i \in Kinds : ToCount(m, i, "process") = ToCount(m, i, "system")
      /\ \A i \in Kinds, k \in Procs :
            ToCountFor(m, i, k) = IF i = kind /\ k = p THEN 1 ELSE 0
    BY <1>2, <1>4 DEF ToCount, ToCountFor, Counting
<1>7. \A i, k : /\ ToCountFor(l, i, k) = 0
                /\ ToCount(l, i, "process") = 0 /\ ToCount(l, i, "system") = 0
    BY <1>1, NothingPends, NothingToCount
<1>8. Shapes /\ CounterTypes
    BY DEF IndInv, Counted
<1>9. p \in Keys
    BY Constants
<1>10. /\ happened' \in [Kinds -> Bags]
       /\ \A i \in Kinds, k \in Keys : happened'[i][k] =
                happened[i][k] + IF i = kind /\ k = p THEN 1 ELSE 0
    BY <1>1, <1>8, <1>9 DEF CounterTypes, Bags
<1>11. Held' = Held
    BY <1>1 DEF Held
<1>12. CounterTypes' /\ NewUntracked'
    BY <1>1, <1>10 DEF Counted, CounterTypes, NewUntracked
<1>13. Held \in Tallies
    BY <1>8, HeldType
<1>14. ASSUME NEW i \in Kinds, NEW k \in Procs
       PROVE  SumOver(Held[i][k], Keys) + ToCountFor(m, i, k) <= happened'[i][k]
    <2>1. k \in Keys /\ happened[i][k] \in Nat
        BY <1>8, Constants DEF CounterTypes, Bags
    <2>2. SumOver(Held[i][k], Keys) \in Nat
        BY <1>13, <2>1, SumOverType DEF Tallies
    <2>3. SumOver(Held[i][k], Keys) + 0 <= happened[i][k]
        BY <1>7 DEF Counted, AllHappened, l
    <2>4. QED
        BY <1>6, <1>10, <2>1, <2>2, <2>3
<1>15. ASSUME NEW i \in Measured
       PROVE  SumOfAll(Held[i]) + ToCount(m, i, "process")
                <= systemWide[i] + ToCount(m, i, "system")
    <2>1. i \in Kinds /\ systemWide[i] \in Nat
        BY <1>8 DEF CounterTypes, Measured
    <2>2. SumOfAll(Held[i]) \in Nat
        <3>1. Held[i] \in [Keys -> [Keys -> Nat]]
            BY <1>13, <2>1 DEF Tallies
        <3>2. \A k \in Procs, x \in Keys : Held[i][k][x] <= Held[i][k][x]
            BY <3>1, Constants
        <3>3. QED
            BY <3>1, <3>2, SumOfAllAtMost
    <2>3. SumOfAll(Held[i]) + 0 <= systemWide[i] + 0
        BY <1>7 DEF Counted, AllMeasured, l
    <2>4. ToCount(m, i, "process") = ToCount(m, i, "system")
            /\ ToCount(m, i, "system") \in Nat
        BY <1>6, <2>1 DEF ToCount
    <2>5. QED
        BY <2>1, <2>2, <2>3, <2>4
<1>16. AllHappened' /\ AllMeasured'
    BY <1>1, <1>3, <1>11, <1>14, <1>15 DEF AllHappened, AllMeasured
<1>17. Grows
    <2>1. \A i \in Kinds, k \in Keys, x \in Keys : Held[i][k][x] \in Nat
        BY <1>13 DEF Tallies
    <2>2. \A i \in Kinds : systemWide[i] \in Nat
        BY <1>8 DEF CounterTypes
    <2>3. \A i \in Kinds, k \in Keys : happened[i][k] \in Nat
        BY <1>8 DEF CounterTypes, Bags
    <2>4. QED
        BY <1>1, <1>10, <1>11, <2>1, <2>2, <2>3 DEF Grows
<1>18. QED
    BY <1>5, <1>12, <1>16, <1>17 DEF Counted

LEMMA ResolveCounted ==
    ASSUME IndInv, IndInv', Counted, ResolveProcess
    PROVE  Counted' /\ Grows
<1> DEFINE l == loc["callback"]
           rest == [l EXCEPT !.todo = Tail(@)]
<1>1. PICK o \in Resolutions(l.kind, l.proc) :
        loc' = IF o = None /\ l.kind \in {"registry", "network"}
               THEN Stop("callback")
               ELSE [Rest("callback") EXCEPT !["callback"].obj = o]
    BY DEF ResolveProcess
<1>2. /\ At("callback", "resolve")
      /\ UNCHANGED <<instanceData, counts, happened, systemWide, phase>>
    BY DEF ResolveProcess, tables, system
<1>3. l \in Task /\ l.todo # <<>> /\ Head(l.todo) = "resolve"
    BY <1>2, Constants DEF IndInv, Shapes, At, Free
<1>4. Shapes /\ Shapes' /\ CounterTypes /\ CounterTypes' /\ NewUntracked'
    BY <1>2 DEF IndInv, Counted, CounterTypes, NewUntracked
<1>5. Held' = Held /\ Grows
    BY <1>2, <1>4, NothingGrows
<1>6. \A i \in Kinds, k \in Keys, x \in Keys : Held'[i][k][x] <= Held[i][k][x]
    BY <1>4, <1>5, HeldType DEF Tallies
<1>7. CASE loc' = Stop("callback")
    <2>1. loc'["callback"] = Idle /\ \A x : ~Pends(Idle, x)
        BY <1>7, Constants, NothingPends DEF Stop, IndInv, Shapes
    <2>2. EventHand'
        BY <2>1, EventHandNext
    <2>3. \A i \in Kinds : ToCount(l, i, "system") <= ToCount(l, i, "process")
        <3>1. Pends(l, "resolve")
            BY <1>3, StepTaken
        <3>2. \A i \in Kinds : Counting(l, i) => Pends(l, "process")
            <4>1. rest.todo = Tail(l.todo) /\ rest.kind = l.kind
                BY <1>3 DEF Task
            <4>2. QED
                BY <3>1, <4>1, EventRest
        <3>3. QED
            BY <3>2 DEF ToCount
    <2>4. Counted'
        BY <1>2, <1>4, <1>6, <2>1, <2>2, <2>3, FreeOfEvents
    <2>5. QED
        BY <1>5, <2>4
<1>8. CASE loc' = [Rest("callback") EXCEPT !["callback"].obj = o]
    <2> DEFINE m == [rest EXCEPT !.obj = o]
    <2>1. loc'["callback"] = m
        BY <1>8, Constants DEF Rest, IndInv, Shapes
    <2>2. m.todo = Tail(l.todo) /\ m.kind = l.kind /\ m.proc = l.proc
        BY <1>3 DEF Task
    <2> HIDE DEF m, rest
    <2>3. /\ \A x \in {"resolve", "process", "system"} :
                Pends(m, x) => m.kind \in Kinds /\ Counting(m, m.kind)
          /\ ~Pends(m, "publish")
          /\ \A i, x : ToCount(l, i, x) \in {0, 1}
          /\ \A i \in Kinds, x \in {"process", "system"} :
                ToCount(m, i, x) = ToCount(l, i, x)
        BY <1>2, <2>2, EventTaken
    <2> HIDE DEF l
    <2>4. EventHand'
        BY <2>1, <2>3, EventHandNext
    <2>5. /\ \A i \in Kinds, k \in Procs : ToCountFor(m, i, k) <= ToCountFor(l, i, k)
          /\ \A i \in Kinds : ToCount(m, i, "process") + ToCount(l, i, "system")
                <= ToCount(l, i, "process") + ToCount(m, i, "system")
        BY <2>2, <2>3 DEF ToCountFor
    <2>6. AllHappened' /\ AllMeasured'
        BY <1>2, <1>4, <1>6, <2>1, <2>5, NoMoreHeld DEF Counted, l
    <2>7. QED
        BY <1>4, <1>5, <2>4, <2>6 DEF Counted
<1>9. QED
    BY <1>1, <1>7, <1>8

LEMMA CountSystemWideCounted ==
    ASSUME IndInv, IndInv', Counted, CountSystemWide
    PROVE  Counted' /\ Grows
<1> DEFINE l == loc["callback"]
           m == [l EXCEPT !.todo = Tail(@)]
           j == l.kind
<1>1. /\ At("callback", "system") /\ loc' = Rest("callback")
      /\ systemWide' = IF j = "network" /\ ~ByProtocol THEN systemWide
                       ELSE [systemWide EXCEPT ![j] = @ + 1]
      /\ UNCHANGED <<instanceData, counts, happened, phase>>
    BY DEF CountSystemWide, tables, system
<1>2. l \in Task /\ loc'["callback"] = m
    BY <1>1, Constants DEF IndInv, Shapes, Rest
<1>3. m.todo = Tail(l.todo) /\ m.kind = l.kind /\ m.proc = l.proc
    BY <1>2 DEF Task
<1> HIDE DEF m
<1>4. /\ j \in Kinds
      /\ \A x \in {"resolve", "process", "system"} :
            Pends(m, x) => m.kind \in Kinds /\ Counting(m, m.kind)
      /\ ~Pends(m, "publish")
      /\ \A i, x : ToCount(l, i, x) \in {0, 1} /\ ToCount(m, i, x) \in {0, 1}
      /\ \A i \in Kinds :
            /\ i # j => ToCount(l, i, "system") = 0
            /\ ToCount(m, i, "system") = 0
            /\ ToCount(m, i, "process") = ToCount(l, i, "process")
    BY <1>1, <1>3, EventTaken
<1>5. EventHand'
    BY <1>2, <1>4, EventHandNext
<1>6. Shapes /\ CounterTypes
    BY DEF IndInv, Counted
<1>7. Held' = Held
    BY <1>1 DEF Held
<1>8. Held \in Tallies
    BY <1>6, HeldType
<1> HIDE DEF l, j
<1>9. /\ systemWide' \in [Kinds -> Nat]
      /\ \A i \in Kinds : systemWide[i] <= systemWide'[i]
      /\ j \in Measured => systemWide'[j] = systemWide[j] + 1
    <2>1. systemWide \in [Kinds -> Nat]
        BY <1>6 DEF CounterTypes
    <2>2. j \in Measured => ~(j = "network" /\ ~ByProtocol)
        BY DEF Measured
    <2>3. QED
        BY <1>1, <1>4, <2>1, <2>2
<1>10. CounterTypes' /\ NewUntracked'
    BY <1>1, <1>9 DEF Counted, CounterTypes, NewUntracked
<1>11. AllHappened'
    <2>1. \A i \in Kinds, k \in Procs : ToCountFor(m, i, k) = ToCountFor(l, i, k)
        BY <1>3, <1>4 DEF ToCountFor
    <2>2. AllHappened
        BY DEF Counted
    <2>3. \A i \in Kinds, k \in Procs :
            SumOver(Held[i][k], Keys) + ToCountFor(m, i, k) <= happened[i][k]
        BY <2>1, <2>2 DEF AllHappened, l
    <2>4. QED
        BY <1>1, <1>2, <1>7, <2>3 DEF AllHappened
<1>12. ASSUME NEW i \in Measured
       PROVE  SumOfAll(Held[i]) + ToCount(m, i, "process")
                <= systemWide'[i] + ToCount(m, i, "system")
    <2>1. i \in Kinds /\ systemWide[i] \in Nat /\ systemWide'[i] \in Nat
        BY <1>6, <1>9 DEF CounterTypes, Measured
    <2>2. SumOfAll(Held[i]) \in Nat
        <3>1. Held[i] \in [Keys -> [Keys -> Nat]]
            BY <1>8, <2>1 DEF Tallies
        <3>2. \A k \in Procs, x \in Keys : Held[i][k][x] <= Held[i][k][x]
            BY <3>1, Constants
        <3>3. QED
            BY <3>1, <3>2, SumOfAllAtMost
    <2>3. SumOfAll(Held[i]) + ToCount(l, i, "process")
            <= systemWide[i] + ToCount(l, i, "system")
        BY DEF Counted, AllMeasured, l
    <2>4. systemWide[i] + ToCount(l, i, "system") <= systemWide'[i]
        BY <1>4, <1>9, <2>1
    <2>5. QED
        BY <1>4, <2>1, <2>2, <2>3, <2>4
<1>13. AllMeasured'
    BY <1>2, <1>7, <1>12 DEF AllMeasured
<1>14. Grows
    <2>1. \A i \in Kinds, k \in Keys, x \in Keys : Held[i][k][x] \in Nat
        BY <1>8 DEF Tallies
    <2>2. \A i \in Kinds, k \in Keys : happened[i][k] \in Nat
        BY <1>6 DEF CounterTypes, Bags
    <2>3. QED
        BY <1>1, <1>7, <1>9, <2>1, <2>2 DEF Grows
<1>15. QED
    BY <1>5, <1>10, <1>11, <1>13, <1>14 DEF Counted

\* An event that is counted for a tracked process is one more that it holds.
LEMMA CountForProcessCounted ==
    ASSUME IndInv, IndInv', Counted, CountForProcess
    PROVE  Counted' /\ Grows
<1> DEFINE l == loc["callback"]
           m == [l EXCEPT !.todo = Tail(@)]
           j == l.kind
           p == l.proc
           o == l.obj
<1>1. /\ At("callback", "process") /\ loc' = Rest("callback")
      /\ counts' = IF o = None \/ j \notin EnablePerProcess THEN counts
                   ELSE [counts EXCEPT ![o][j][p] = @ + 1]
      /\ UNCHANGED <<instanceData, happened, systemWide, phase>>
    BY DEF CountForProcess, system
<1>2. l \in Task /\ loc'["callback"] = m
    BY <1>1, Constants DEF IndInv, Shapes, Rest
<1>3. /\ m.todo = Tail(l.todo) /\ m.kind = l.kind /\ m.proc = l.proc
      /\ o \in Objs \union {None}
    BY <1>2 DEF Task
<1> HIDE DEF m
<1>4. /\ j \in Kinds /\ p \in Procs
      /\ \A x \in {"resolve", "process", "system"} :
            Pends(m, x) => m.kind \in Kinds /\ Counting(m, m.kind)
      /\ ~Pends(m, "publish")
      /\ \A i, x : ToCount(l, i, x) \in {0, 1} /\ ToCount(m, i, x) \in {0, 1}
      /\ \A i \in Kinds :
            /\ ToCount(l, i, "process") = IF i = j THEN 1 ELSE 0
            /\ ToCount(m, i, "process") = 0
            /\ ToCount(m, i, "system") = ToCount(l, i, "system")
    BY <1>1, <1>3, EventTaken
<1>5. EventHand'
    BY <1>2, <1>4, EventHandNext
<1>6. Shapes /\ Shapes' /\ CounterTypes /\ CounterTypes' /\ NewUntracked'
    BY <1>1 DEF IndInv, Counted, CounterTypes, NewUntracked
<1>7. Held \in Tallies /\ Held' \in Tallies
    BY <1>6, HeldType, HeldTypeNext
<1>8. /\ \A i \in Kinds, k \in Procs :
            /\ ToCountFor(l, i, k) = IF i = j /\ k = p THEN 1 ELSE 0
            /\ ToCountFor(m, i, k) = 0
    BY <1>3, <1>4 DEF ToCountFor
<1>9. p \in Keys
    BY <1>4, Constants
<1>10. PICK c : \A x \in Keys : instanceData[x] = o /\ o # None => x = c
    BY DEF IndInv, Owned
<1> HIDE DEF l, p, j, o
<1>11. ASSUME NEW i \in Kinds, NEW k \in Keys, NEW x \in Keys
       PROVE  /\ Held'[i][k][x] = Held[i][k][x] \/
                    (/\ Held'[i][k][x] = Held[i][k][x] + 1
                     /\ i = j /\ k = p /\ x = c)
              /\ Held[i][k][x] \in Nat
    <2>1. counts \in [Objs -> [Kinds -> Bags]] /\ Held[i][k][x] \in Nat
        BY <1>6, <1>7 DEF Shapes, Tallies
    <2>2. instanceData[x] # None => instanceData[x] \in Objs
        BY <1>6 DEF Shapes
    <2>3. \/ counts' = counts
          \/ o \in Objs /\ counts' = [counts EXCEPT ![o][j][p] = @ + 1]
        BY <1>1, <1>3
    <2>4. CASE counts' = counts
        BY <1>1, <2>1, <2>4, HeldIs, HeldIsNext
    <2>5. CASE o \in Objs /\ counts' = [counts EXCEPT ![o][j][p] = @ + 1]
        <3>1. /\ \A y \in Objs : y # o => counts'[y] = counts[y]
              /\ i # j \/ k # p => counts'[o][i][k] = counts[o][i][k]
              /\ counts'[o][j][p] = counts[o][j][p] + 1
            BY <1>4, <1>9, <2>1, <2>5 DEF Bags
        <3>2. o # None
            BY <2>5, Constants
        <3>3. QED
            BY <1>1, <1>10, <2>1, <2>2, <3>1, <3>2, HeldIs, HeldIsNext
    <2>6. QED
        BY <2>3, <2>4, <2>5
<1>12. \A i \in Kinds, k \in Procs : i # j \/ k # p => Held'[i][k] = Held[i][k]
    <2>1. ASSUME NEW i \in Kinds, NEW k \in Procs, i # j \/ k # p
          PROVE  Held'[i][k] = Held[i][k]
        <3>1. k \in Keys
            BY Constants
        <3>2. Held'[i][k] \in [Keys -> Nat] /\ Held[i][k] \in [Keys -> Nat]
            BY <1>7, <3>1 DEF Tallies
        <3>3. \A x \in Keys : Held'[i][k][x] = Held[i][k][x]
            BY <1>11, <2>1, <3>1
        <3>4. QED
            BY <3>2, <3>3
    <2>2. QED
        BY <2>1
<1>13. SumOver(Held'[j][p], Keys) <= SumOver(Held[j][p], Keys) + 1
    <2>1. Held'[j][p] \in [Keys -> Nat] /\ Held[j][p] \in [Keys -> Nat]
        BY <1>4, <1>7, <1>9 DEF Tallies
    <2>2. SumOver(Held[j][p], Keys) \in Nat
        BY <2>1, SumOverType
    <2>3. CASE \A x \in Keys : Held'[j][p][x] = Held[j][p][x]
        <3>1. Held'[j][p] = Held[j][p]
            BY <2>1, <2>3
        <3>2. QED
            BY <2>2, <3>1
    <2>4. CASE \E x \in Keys : Held'[j][p][x] # Held[j][p][x]
        <3>1. /\ c \in Keys /\ Held'[j][p][c] = Held[j][p][c] + 1
              /\ \A x \in Keys : x # c => Held'[j][p][x] = Held[j][p][x]
            BY <1>4, <1>9, <1>11, <2>4
        <3>2. SumOver(Held'[j][p], Keys) = SumOver(Held[j][p], Keys) + 1
            BY <2>1, <3>1, SumOverOneEvent
        <3>3. QED
            BY <2>2, <3>2
    <2>5. QED
        BY <2>3, <2>4
<1>14. ASSUME NEW i \in Kinds, NEW k \in Procs
       PROVE  SumOver(Held'[i][k], Keys) + ToCountFor(m, i, k) <= happened[i][k]
    <2>1. k \in Keys /\ happened[i][k] \in Nat
        BY <1>6, Constants DEF CounterTypes, Bags
    <2>2. SumOver(Held[i][k], Keys) \in Nat /\ SumOver(Held'[i][k], Keys) \in Nat
        BY <1>7, <2>1, SumOverType DEF Tallies
    <2>3. SumOver(Held[i][k], Keys) + ToCountFor(l, i, k) <= happened[i][k]
        BY DEF Counted, AllHappened, l
    <2>4. CASE i = j /\ k = p
        BY <1>8, <1>13, <2>1, <2>2, <2>3, <2>4
    <2>5. CASE i # j \/ k # p
        BY <1>8, <1>12, <2>1, <2>2, <2>3, <2>5
    <2>6. QED
        BY <2>4, <2>5
<1>15. ASSUME NEW i \in Measured
       PROVE  SumOfAll(Held'[i]) + ToCount(m, i, "process")
                <= systemWide[i] + ToCount(m, i, "system")
    <2>1. i \in Kinds /\ systemWide[i] \in Nat
        BY <1>6 DEF CounterTypes, Measured
    <2>2. /\ Held[i] \in [Keys -> [Keys -> Nat]]
          /\ Held'[i] \in [Keys -> [Keys -> Nat]]
        BY <1>7, <2>1 DEF Tallies
    <2>3. SumOfAll(Held[i]) + ToCount(l, i, "process")
            <= systemWide[i] + ToCount(l, i, "system")
        BY DEF Counted, AllMeasured, l
    <2>4. CASE i = j
        <3>1. /\ SumOfAll(Held[i]) \in Nat /\ SumOfAll(Held'[i]) \in Nat
              /\ SumOfAll(Held'[i]) <= SumOfAll(Held[i]) + 1
            <4>1. /\ p \in Procs
                  /\ SumOver(Held'[i][p], Keys) <= SumOver(Held[i][p], Keys) + 1
                  /\ \A k \in Procs : k # p => Held'[i][k] = Held[i][k]
                BY <1>4, <1>12, <1>13, <2>1, <2>4
            <4>2. QED
                BY <2>2, <4>1, SumOfAllOneEvent
        <3>2. QED
            BY <1>4, <2>1, <2>3, <2>4, <3>1
    <2>5. CASE i # j
        <3>1. /\ SumOfAll(Held[i]) \in Nat /\ SumOfAll(Held'[i]) \in Nat
              /\ SumOfAll(Held'[i]) <= SumOfAll(Held[i])
            <4>1. \A k \in Procs, x \in Keys : Held'[i][k][x] <= Held[i][k][x]
                BY <1>11, <2>1, <2>5, Constants
            <4>2. QED
                BY <2>2, <4>1, SumOfAllAtMost
        <3>2. QED
            BY <1>4, <2>1, <2>3, <2>5, <3>1
    <2>6. QED
        BY <2>4, <2>5
<1>16. AllHappened' /\ AllMeasured'
    BY <1>1, <1>2, <1>14, <1>15 DEF AllHappened, AllMeasured
<1>17. Grows
    <2>1. \A i \in Kinds, k \in Keys, x \in Keys : Held[i][k][x] <= Held'[i][k][x]
        BY <1>11
    <2>2. \A i \in Kinds, k \in Keys : happened[i][k] \in Nat
        BY <1>6 DEF CounterTypes, Bags
    <2>3. \A i \in Kinds : systemWide[i] \in Nat
        BY <1>6 DEF CounterTypes
    <2>4. QED
        BY <1>1, <2>1, <2>2, <2>3 DEF Grows
<1>18. QED
    BY <1>5, <1>6, <1>16, <1>17 DEF Counted

\* The object of a process that is not tracked yet holds nothing.
LEMMA AddProcessCounted ==
    ASSUME IndInv, IndInv', Counted, NEW p \in Procs, AddProcess(p)
    PROVE  Counted' /\ Grows
<1>1. PICK o \in processDataPool :
        /\ counts' = Reset(o)
        /\ loc' = [loc EXCEPT !["callback"] = [Idle EXCEPT
                !.todo = <<"publish">>, !.proc = p, !.obj = o]]
    BY DEF AddProcess
<1>2. /\ Free("callback") /\ phase[p] = "new"
      /\ phase' = [phase EXCEPT ![p] = "live"]
      /\ UNCHANGED <<instanceData, happened, systemWide>>
    BY DEF AddProcess
<1> DEFINE l == loc["callback"]
           m == [Idle EXCEPT !.todo = <<"publish">>, !.proc = p, !.obj = o]
<1>3. Shapes /\ Shapes' /\ CounterTypes
    BY DEF IndInv, Counted
<1>4. loc'["callback"] = m /\ m.proc = p /\ m.todo = <<"publish">>
    <2>1. DOMAIN loc = Goroutines /\ "callback" \in Goroutines
        BY <1>3, Constants DEF Shapes
    <2>2. loc'["callback"] = m
        BY <1>1, <2>1
    <2>3. m.proc = p /\ m.todo = <<"publish">>
        BY DEF Idle
    <2>4. QED
        BY <2>2, <2>3
<1>5. \A x \in {"resolve", "process", "system"} : ~Pends(m, x)
    <2>1. m.todo = <<"publish">>
        BY <1>4
    <2> HIDE DEF m
    <2>2. \A x : Pends(m, x) <=> x = "publish"
        BY <2>1, Plans
    <2>3. QED
        BY <2>2
<1>6. \A x : ~Pends(l, x)
    BY <1>2, NothingPends DEF Free
<1>7. o \in Objs /\ o # None /\ \A x \in Keys : instanceData[x] # o
    <2>1. o \in Objs
        BY <1>3 DEF Shapes
    <2>2. \A x \in Keys : instanceData[x] # o
        BY DEF IndInv, Owned
    <2>3. QED
        BY <2>1, <2>2, Constants
<1>8. \A x \in Objs : x # o => counts'[x] = counts[x]
    BY <1>1, <1>3 DEF Reset, Shapes
<1>9. \A i \in Kinds, k \in Keys, x \in Keys : Held'[i][k][x] = Held[i][k][x]
    <2> SUFFICES ASSUME NEW i \in Kinds, NEW k \in Keys, NEW x \in Keys
                 PROVE  Held'[i][k][x] = Held[i][k][x]
        OBVIOUS
    <2>1. instanceData[x] \in Objs \union {None} /\ instanceData[x] # o
        BY <1>3, <1>7 DEF Shapes
    <2>2. instanceData[x] # None => counts'[instanceData[x]] = counts[instanceData[x]]
        BY <1>8, <2>1
    <2>3. QED
        BY <1>2, <2>2, HeldIs, HeldIsNext
<1>10. \A i \in Kinds, k \in Keys, x \in Keys : Held[i][k][x] \in Nat
    BY <1>3, HeldType DEF Tallies
<1>11. CounterTypes' /\ NewUntracked'
    BY <1>2, <1>3 DEF Counted, CounterTypes, NewUntracked
<1>12. EventHand'
    <2>1. instanceData[p] = None /\ phase'[p] = "live"
        BY <1>2, <1>3 DEF Counted, CounterTypes, NewUntracked
    <2>2. QED
        BY <1>2, <1>4, <1>5, <2>1 DEF EventHand
<1>13. \A i : ToCount(l, i, "system") = 0 /\ ToCount(l, i, "process") = 0
    BY <1>6, NothingToCount
<1> HIDE DEF m
<1>14. Counted'
    BY <1>2, <1>3, <1>4, <1>5, <1>9, <1>10, <1>11, <1>12, <1>13, FreeOfEvents
<1>15. Grows
    <2>1. \A i \in Kinds, k \in Keys : happened[i][k] \in Nat
        BY <1>3 DEF CounterTypes, Bags
    <2>2. \A i \in Kinds : systemWide[i] \in Nat
        BY <1>3 DEF CounterTypes
    <2>3. QED
        BY <1>2, <1>9, <1>10, <2>1, <2>2 DEF Grows
<1>16. QED
    BY <1>14, <1>15

LEMMA PublishCounted ==
    ASSUME IndInv, IndInv', Counted, PublishProcess
    PROVE  Counted' /\ Grows
<1> DEFINE l == loc["callback"]
           p == l.proc
           o == l.obj
<1>1. /\ At("callback", "publish") /\ loc' = Stop("callback")
      /\ instanceData' = [instanceData EXCEPT ![p] = o]
      /\ UNCHANGED <<counts, happened, systemWide, phase>>
    BY DEF PublishProcess, system
<1>2. Shapes /\ Shapes' /\ CounterTypes
    BY DEF IndInv, Counted
<1>3. /\ l \in Task /\ l.todo # <<>> /\ Head(l.todo) = "publish"
      /\ loc'["callback"] = Idle
    BY <1>1, <1>2, Constants DEF Shapes, At, Free, Stop
<1>4. Publishing
    BY <1>3, StepTaken DEF Publishing
<1>5. /\ l.todo = <<"publish">> /\ p \in Procs /\ Untracked(o)
      /\ counts[o] = NoCounts
    BY <1>4 DEF IndInv, CallbackHand
<1>6. instanceData[p] = None /\ phase[p] # "new"
    BY <1>4 DEF Counted, EventHand
<1>7. /\ p \in Keys /\ o \in Objs /\ o # None
      /\ \A x \in Keys : instanceData[x] # o
    BY <1>5, Constants DEF Untracked
<1>8. \A x : ~Pends(Idle, x)
    BY NothingPends
<1>9. \A x \in {"process", "system"} : ~Pends(l, x)
    BY <1>5, Plans
<1>10. \A i \in Kinds, k \in Keys : counts[o][i][k] = 0
    BY <1>5 DEF NoCounts, NoBag
<1> HIDE DEF p, o
<1>11. /\ instanceData'[p] = o
       /\ \A x \in Keys : x # p => instanceData'[x] = instanceData[x]
    BY <1>1, <1>2, <1>7 DEF Shapes
<1>12. \A i \in Kinds, k \in Keys, x \in Keys : Held'[i][k][x] = Held[i][k][x]
    BY <1>1, <1>6, <1>7, <1>10, <1>11, HeldIs, HeldIsNext
<1>13. \A i \in Kinds, k \in Keys, x \in Keys : Held[i][k][x] \in Nat
    BY <1>2, HeldType DEF Tallies
<1>14. CounterTypes' /\ NewUntracked'
    BY <1>1, <1>6, <1>11, Constants DEF Counted, CounterTypes, NewUntracked
<1>15. EventHand'
    BY <1>3, <1>8, EventHandNext
<1>16. \A i : ToCount(l, i, "system") = 0 /\ ToCount(l, i, "process") = 0
    BY <1>9, NothingToCount
<1>17. Counted'
    BY <1>1, <1>2, <1>3, <1>8, <1>12, <1>13, <1>14, <1>15, <1>16, FreeOfEvents
<1>18. Grows
    <2>1. \A i \in Kinds, k \in Keys : happened[i][k] \in Nat
        BY <1>2 DEF CounterTypes, Bags
    <2>2. \A i \in Kinds : systemWide[i] \in Nat
        BY <1>2 DEF CounterTypes
    <2>3. QED
        BY <1>1, <1>6, <1>7, <1>11, <1>12, <1>13, <2>1, <2>2 DEF Grows
<1>19. QED
    BY <1>17, <1>18

\* The callback goes on with the name of a service, or takes up a thread.
LEMMA NamesNotCounted ==
    ASSUME IndInv, IndInv', Counted, NEW m, loc'["callback"] = m,
           UNCHANGED <<instanceData, counts, happened, systemWide, phase>>,
           \A x \in {"resolve", "process", "system", "publish"} :
                ~Pends(loc["callback"], x) /\ ~Pends(m, x)
    PROVE  Counted' /\ Grows
<1>1. Shapes /\ Shapes' /\ CounterTypes
    BY DEF IndInv, Counted
<1>2. Held' = Held /\ Grows
    BY <1>1, NothingGrows
<1>3. \A i \in Kinds, k \in Keys, x \in Keys : Held'[i][k][x] <= Held[i][k][x]
    BY <1>1, <1>2, HeldType DEF Tallies
<1>4. CounterTypes' /\ NewUntracked' /\ EventHand'
    BY EventHandNext DEF Counted, CounterTypes, NewUntracked
<1>5. \A i : /\ ToCount(loc["callback"], i, "system") = 0
             /\ ToCount(loc["callback"], i, "process") = 0
    BY NothingToCount
<1>6. Counted'
    BY <1>1, <1>3, <1>4, <1>5, FreeOfEvents
<1>7. QED
    BY <1>2, <1>6

LEMMA AddThreadCounted ==
    ASSUME IndInv, IndInv', Counted, NEW p \in Procs, NEW t \in Tags,
           AddThread(p, t)
    PROVE  Counted' /\ Grows
<1> DEFINE m == Resolving(pidToCurrentProcessData[p], t)
<1>1. /\ Free("callback") /\ loc' = [loc EXCEPT !["callback"] = m]
      /\ UNCHANGED <<instanceData, counts, happened, systemWide, phase>>
    BY DEF AddThread, tables
<1>2. loc'["callback"] = m /\ m.todo = <<"tag", "lookup", "name">>
    BY <1>1, Constants DEF IndInv, Shapes, Resolving, Idle
<1> HIDE DEF m
<1>3. /\ \A x : ~Pends(loc["callback"], x)
      /\ \A x : Pends(m, x) <=> x \in {"tag", "lookup", "name"}
    BY <1>1, <1>2, NothingPends, Plans DEF Free
<1>4. QED
    BY <1>1, <1>2, <1>3, NamesNotCounted

LEMMA NamingCounted ==
    ASSUME IndInv, IndInv', Counted, NEW g \in Goroutines,
           StoreTag(g) \/ LookUpService(g) \/ StoreService(g)
    PROVE  Counted' /\ Grows
<1>1. /\ UNCHANGED <<instanceData, counts, happened, systemWide, phase>>
      /\ \E step \in {"tag", "lookup", "name"} : At(g, step)
      /\ loc' = Rest(g) \/ loc' = Stop(g)
    BY DEF StoreTag, LookUpService, StoreService, tables, system
<1>2. Shapes /\ Shapes' /\ CounterTypes
    BY DEF IndInv, Counted
<1>3. CASE g = "callback"
    <2> DEFINE l == loc["callback"]
               rest == [l EXCEPT !.todo = Tail(@)]
    <2>1. PICK step \in {"tag", "lookup", "name"} : At(g, step)
        BY <1>1
    <2>2. /\ l \in Task /\ l.todo # <<>> /\ Head(l.todo) = step
        BY <1>2, <1>3, <2>1, Constants DEF Shapes, At, Free
    <2>3. Pends(l, step) /\ \A x : Pends(rest, x) => Pends(l, x)
        BY <2>2, StepTaken
    <2>4. loc'["callback"] = rest \/ loc'["callback"] = Idle
        BY <1>1, <1>2, <1>3, Constants DEF Rest, Stop, Shapes
    <2> HIDE DEF rest
    <2>5. ASSUME NEW x \in {"resolve", "process", "system", "publish"}
          PROVE  ~Pends(l, x)
        <3>1. ~Pends(l, "publish") /\ ~Pends(l, "resolve")
            BY <2>1, <2>3, Plans DEF IndInv, CallbackHand, Publishing, Naming
        <3>2. ASSUME NEW y \in {"process", "system"}, Pends(l, y) PROVE FALSE
            <4>1. Counting(l, l.kind)
                BY <3>2 DEF Counted, EventHand
            <4>2. QED
                BY <2>1, <2>2, <4>1, EventHeads
        <3>3. QED
            BY <3>1, <3>2
    <2>6. \A x \in {"resolve", "process", "system", "publish"} :
            ~Pends(loc'["callback"], x)
        BY <2>3, <2>4, <2>5, NothingPends
    <2>7. QED
        BY <1>1, <2>5, <2>6, NamesNotCounted
<1>4. CASE g \in Scrapers
    <2>1. loc'["callback"] = loc["callback"]
        BY <1>1, <1>2, <1>4, Constants DEF Rest, Stop, Shapes
    <2>2. Publishing => loc["callback"].proc \in Procs
        BY DEF IndInv, CallbackHand
    <2>3. phase' \in [Procs -> {"new", "live", "ended"}]
        BY <1>1, <1>2 DEF CounterTypes
    <2>4. Counted'
        BY <1>1, <1>2, <2>1, <2>2, <2>3, OthersCounted
    <2>5. QED
        BY <1>1, <1>2, <2>4, NothingGrows
<1>5. QED
    BY <1>3, <1>4, Constants

-----------------------------------------------------------------------------
(* What becomes of a scrape while the callback works.                      *)

LEMMA MapsHave ==
    ASSUME Pool, NEW m \in Maps
    PROVE  /\ maps[m] \in MapsOf
           /\ \A i \in Kinds, k \in Procs : Sums(maps[m], i, k) \in Nat
           /\ \A i \in Kinds : AllSums(maps[m], i) \in Nat
<1>1. maps[m] \in MapsOf
    BY DEF Pool
<1>2. QED
    BY <1>1, SumsType, Constants

LEMMA NothingToCollect ==
    ASSUME NEW s, pc[s] # "collect",
           \A step \in {"total", "hold", "programs"} : ~Pends(loc[s], step)
    PROVE  CollectHand(s)
BY DEF CollectHand

LEMMA WhileCallbackWorks ==
    ASSUME IndInv, Shapes', Counted, Counted', Grows, Pool, NEW s \in Scrapers,
           ScrapeInv(s),
           UNCHANGED <<pc, scrape, maps, aggregatedData, aggregationDataPool>>,
           \/ loc'[s] = loc[s]
           \/ /\ pc[s] \notin AtProcess \union {"collect"}
              /\ \A step \in {"total", "hold", "programs"} : ~Pends(loc'[s], step)
    PROVE  ScrapeInv(s)'
<1>1. OwnMaps(s)' /\ ScrapeTypes(s)'
    BY DEF ScrapeInv, OwnMaps, ScrapeTypes
<1>2. CollectHand(s)'
    BY DEF ScrapeInv, CollectHand, Free, AtProcess
<1>3. Held \in Tallies /\ Held' \in Tallies
    BY HeldType, HeldTypeNext DEF IndInv
<1>4. /\ scrape[s].before \in [Kinds -> Bags]
      /\ \A i \in Kinds, k \in Keys : scrape[s].before[i][k] \in Nat
    BY DEF ScrapeInv, ScrapeTypes, Bags
<1>5. /\ \A i \in Kinds, k \in Keys : Held[i][k] \in [Keys -> Nat]
                                      /\ Held'[i][k] \in [Keys -> Nat]
      /\ \A i \in Kinds, k \in Keys, x \in Keys :
            /\ Held[i][k][x] \in Nat /\ Held'[i][k][x] \in Nat
            /\ Held[i][k][x] <= Held'[i][k][x]
    BY <1>3 DEF Tallies, Grows
<1>6. Procs \subseteq Keys
    BY Constants
<1>7. BeforeVisits(s)'
    <2>1. ASSUME NEW i \in Kinds, NEW k \in Procs, BeforeVisits(s),
                 pc[s] \in {"services", "apply", "get"}
          PROVE  Held'[i][k][k] >= scrape[s].before[i][k]
        BY <1>4, <1>5, <1>6, <2>1 DEF BeforeVisits
    <2>2. QED
        BY <2>1 DEF ScrapeInv, BeforeVisits
<1>8. WhileVisiting(s)'
    <2> SUFFICES ASSUME pc[s] \in Building PROVE WhileVisiting(s)'
        BY DEF WhileVisiting
    <2>1. pc[s] \in AtProcess => loc'[s] = loc[s]
        OBVIOUS
    <2>2. pc[s] \in AtProcess => \E x \in Keys \ scrape[s].toVisit :
                instanceData[x] = loc[s].obj /\ loc[s].obj # None
        BY Constants DEF ScrapeInv, WhileVisiting, IndInv, ScraperHand, AtProcess
    <2>3. pc[s] \in AtProcess => \A x \in Keys :
            instanceData'[x] = loc[s].obj <=> instanceData[x] = loc[s].obj
        BY <2>2 DEF Grows
    <2>4. ToAdd(s)' = ToAdd(s)
        BY <2>1, <2>3 DEF ToAdd
    <2>5. pc[s] \in AtProcess => \E x \in Keys \ scrape[s].toVisit :
                instanceData'[x] = loc'[s].obj
        BY <2>1, <2>2, <2>3
    <2> DEFINE m == maps[scrape[s].building]
    <2>6. scrape[s].building \in Maps
        BY DEF ScrapeInv, OwnMaps
    <2>7. ASSUME NEW i \in Kinds, NEW k \in Procs
          PROVE  /\ \/ k \in ToAdd(s) /\ Held'[i][k][k] >= scrape[s].before[i][k]
                    \/ Sums(m, i, k) >= scrape[s].before[i][k]
                 /\ Sums(m, i, k) <= SumOver(Held'[i][k], Keys \ ToAdd(s))
        <3>1. /\ \/ k \in ToAdd(s) /\ Held[i][k][k] >= scrape[s].before[i][k]
                 \/ Sums(m, i, k) >= scrape[s].before[i][k]
              /\ Sums(m, i, k) <= SumOver(Held[i][k], Keys \ ToAdd(s))
            BY DEF ScrapeInv, WhileVisiting
        <3>2. Sums(m, i, k) \in Nat
            BY <2>6, MapsHave
        <3>3. /\ SumOver(Held[i][k], Keys \ ToAdd(s)) \in Nat
              /\ SumOver(Held'[i][k], Keys \ ToAdd(s)) \in Nat
              /\ SumOver(Held[i][k], Keys \ ToAdd(s))
                    <= SumOver(Held'[i][k], Keys \ ToAdd(s))
            BY <1>5, <1>6, SumOverType, SumOverAtMost
        <3>4. Held[i][k][k] \in Nat /\ Held'[i][k][k] \in Nat
                /\ Held[i][k][k] <= Held'[i][k][k] /\ scrape[s].before[i][k] \in Nat
            BY <1>4, <1>5, <1>6
        <3> HIDE DEF m
        <3>5. Sums(m, i, k) <= SumOver(Held'[i][k], Keys \ ToAdd(s))
            BY <3>1, <3>2, <3>3
        <3>6. QED
            BY <3>1, <3>4, <3>5
    <2>8. QED
        BY <2>4, <2>5, <2>7 DEF WhileVisiting
<1>9. WhileInstalled(s)'
    <2> SUFFICES ASSUME pc[s] \in Frozen PROVE WhileInstalled(s)'
        BY DEF WhileInstalled
    <2> DEFINE m == maps[aggregatedData]
    <2>1. aggregatedData \in Maps
        BY DEF ScrapeInv, OwnMaps
    <2>2. WhileInstalled(s)
        BY DEF ScrapeInv
    <2>3. ASSUME NEW i \in Kinds, NEW k \in Procs
          PROVE  /\ Sums(m, i, k) >= scrape[s].before[i][k]
                 /\ Sums(m, i, k) <= happened'[i][k]
        <3>1. Sums(m, i, k) \in Nat
            BY <2>1, MapsHave
        <3>2. /\ happened[i][k] \in Nat /\ happened'[i][k] \in Nat
              /\ happened[i][k] <= happened'[i][k]
            BY <1>6 DEF Counted, CounterTypes, Bags, Grows
        <3>3. /\ Sums(m, i, k) >= scrape[s].before[i][k]
              /\ Sums(m, i, k) <= happened[i][k]
            BY <2>2 DEF WhileInstalled
        <3> HIDE DEF m
        <3>4. QED
            BY <3>1, <3>2, <3>3
    <2>4. ASSUME NEW i \in Measured
          PROVE  AllSums(m, i) <= systemWide'[i] + Slack(i)
        <3>1. i \in Kinds
            BY DEF Measured
        <3>2. AllSums(m, i) \in Nat
            BY <2>1, <3>1, MapsHave
        <3>3. /\ systemWide[i] \in Nat /\ systemWide'[i] \in Nat
              /\ systemWide[i] <= systemWide'[i]
            BY <3>1 DEF Counted, CounterTypes, Grows
        <3>4. AllSums(m, i) <= systemWide[i] + Slack(i)
            BY <2>2 DEF WhileInstalled
        <3>5. Slack(i) \in Nat
            BY DEF Slack
        <3> HIDE DEF m
        <3>6. QED
            BY <3>2, <3>3, <3>4, <3>5
    <2>5. QED
        BY <2>3, <2>4 DEF WhileInstalled
<1>10. Taken(s)'
    <2>1. \A i, step : Took(s, i, step)' => Took(s, i, step)
        BY DEF Took
    <2>2. QED
        BY <2>1 DEF ScrapeInv, Taken
<1>11. QED
    BY <1>1, <1>2, <1>7, <1>8, <1>9, <1>10 DEF ScrapeInv

-----------------------------------------------------------------------------
(* The steps of a scrape.                                                  *)

\* A scrape counts nothing, and only its cleanup takes a process from the table.
LEMMA ScraperCounts ==
    ASSUME Shapes, NEW s \in Scrapers, AggregateMetrics(s) \/ CollectAndClean(s)
    PROVE  /\ UNCHANGED <<counts, happened, systemWide, phase>>
           /\ loc'["callback"] = loc["callback"]
           /\ ~Untrack(s) => UNCHANGED instanceData
           /\ \A x \in Keys : instanceData'[x] \in {instanceData[x], None}
<1>1. UNCHANGED <<counts, happened, systemWide, phase>>
    <2>1. CASE AggregateMetrics(s)
        BY <2>1 DEF AggregateMetrics, BeginScrape, SnapshotServices,
            ApplyService, ServicesApplied, GetMap, VisitProcess,
            QueryServiceName, StoreQueried, ReadKey, SumCounters, Swap,
            ClearOld, tables, system
    <2>2. CASE CollectAndClean(s)
        BY <2>2 DEF CollectAndClean, Collect, CollectTotal, HoldMap,
            CollectPrograms, BeginCleanup, Untrack, Recycle, EndScrape, tables,
            system
    <2>3. QED
        BY <2>1, <2>2
<1>2. ~Untrack(s) => UNCHANGED instanceData
    <2>1. CASE AggregateMetrics(s)
        BY <2>1 DEF AggregateMetrics, BeginScrape, SnapshotServices,
            ApplyService, ServicesApplied, GetMap, VisitProcess,
            QueryServiceName, StoreQueried, ReadKey, SumCounters, Swap,
            ClearOld, tables
    <2>2. CASE CollectAndClean(s)
        BY <2>2 DEF CollectAndClean, Collect, CollectTotal, HoldMap,
            CollectPrograms, BeginCleanup, Recycle, EndScrape, tables
    <2>3. QED
        BY <2>1, <2>2
<1>3. \A x \in Keys : instanceData'[x] \in {instanceData[x], None}
    <2>1. Untrack(s) => \E p : instanceData' = [instanceData EXCEPT ![p] = None]
        BY DEF Untrack
    <2>2. QED
        BY <1>2, <2>1 DEF Shapes
<1>4. loc'["callback"] = loc["callback"]
    <2>1. s # "callback" /\ "callback" \in Goroutines
        BY Constants
    <2>2. \/ loc' = loc
          \/ \E l : loc' = [loc EXCEPT ![s] = l]
          \/ \E o, t : loc' = [loc EXCEPT ![s].obj = o, ![s].tag = t]
        <3>1. CASE VisitProcess(s)
            BY <3>1 DEF VisitProcess
        <3>2. CASE ApplyService(s)
            BY <3>2 DEF ApplyService
        <3>3. CASE AggregateMetrics(s) /\ ~VisitProcess(s) /\ ~ApplyService(s)
            BY <3>3 DEF AggregateMetrics, BeginScrape, SnapshotServices,
                ServicesApplied, GetMap, QueryServiceName, StoreQueried,
                ReadKey, SumCounters, Swap, ClearOld, Stop
        <3>4. CASE CollectTotal(s) \/ HoldMap(s) \/ CollectPrograms(s)
            <4>1. loc' = [loc EXCEPT ![s] = [loc[s] EXCEPT !.todo = Tail(@)]]
                BY <2>1, <3>4, Constants
                   DEF CollectTotal, HoldMap, CollectPrograms, Rest, Shapes
            <4>2. QED
                BY <4>1
        <3>5. CASE \/ \E kind \in Kinds : Collect(s, kind)
                   \/ Untrack(s) \/ BeginCleanup(s) \/ Recycle(s) \/ EndScrape(s)
            BY <3>5 DEF Collect, Untrack, BeginCleanup, Recycle, EndScrape, Stop
        <3>6. QED
            BY <3>1, <3>2, <3>3, <3>4, <3>5 DEF CollectAndClean
    <2>3. QED
        BY <2>1, <2>2 DEF Shapes
<1>5. QED
    BY <1>1, <1>2, <1>3, <1>4

LEMMA ScraperCounted ==
    ASSUME IndInv, IndInv', Counted, NEW s \in Scrapers,
           AggregateMetrics(s) \/ CollectAndClean(s)
    PROVE  Counted'
<1>1. Shapes /\ Shapes' /\ CounterTypes
    BY DEF IndInv, Counted
<1>2. phase' \in [Procs -> {"new", "live", "ended"}]
    BY <1>1, ScraperCounts DEF CounterTypes
<1>3. Publishing => loc["callback"].proc \in Procs
    BY DEF IndInv, CallbackHand
<1>4. QED
    BY <1>1, <1>2, <1>3, ScraperCounts, OthersCounted

LEMMA ScraperKeeps ==
    ASSUME Shapes, NEW s \in Scrapers, AggregateMetrics(s) \/ CollectAndClean(s),
           ~Untrack(s)
    PROVE  UNCHANGED <<Held, happened, systemWide>>
<1>1. UNCHANGED <<counts, instanceData, happened, systemWide>>
    BY ScraperCounts
<1>2. QED
    BY <1>1 DEF Held

\* Where nothing is asked of a scrape but its types and its hand.
Outside == {"idle", "services", "apply", "get"}
LEMMA ScrapeOutside ==
    ASSUME NEW s \in Scrapers, pc'[s] \in Outside, ScrapeTypes(s)',
           \A step \in {"total", "hold", "programs"} : ~Pends(loc'[s], step),
           BeforeVisits(s)'
    PROVE  ScrapeInv(s)'
<1>1. /\ pc'[s] \notin Building /\ pc'[s] \notin Frozen /\ pc'[s] # "clear"
      /\ pc'[s] \notin {"collect", "cleanup"}
    BY DEF Outside, Building, AtProcess, Frozen
<1>2. OwnMaps(s)' /\ WhileVisiting(s)' /\ WhileInstalled(s)' /\ Taken(s)'
    BY <1>1 DEF OwnMaps, WhileVisiting, WhileInstalled, Taken, Took
<1>3. CollectHand(s)'
    BY <1>1 DEF CollectHand
<1>4. QED
    BY <1>2, <1>3 DEF ScrapeInv

\* A scrape begins with what is recorded then, ...
LEMMA BeginScrapeSums ==
    ASSUME IndInv, NEW s \in Scrapers, BeginScrape(s), ScrapeInv(s)
    PROVE  ScrapeInv(s)'
<1>1. /\ Free(s) /\ UNCHANGED <<instanceData, counts, loc>>
      /\ scrape' = [scrape EXCEPT ![s].before = Recorded]
      /\ pc' = Go(s, "services") \/ pc' = Go(s, "get")
    BY DEF BeginScrape, InScrape, tables
<1>2. pc'[s] \in {"services", "get"}
    BY <1>1 DEF IndInv, Shapes, Go
<1>3. /\ scrape'[s].before = Recorded /\ scrape'[s].system = scrape[s].system
      /\ scrape'[s].programs = scrape[s].programs
    BY <1>1 DEF IndInv, Shapes, NoScrape
<1>4. Held \in Tallies /\ Held' = Held
    BY <1>1, HeldType DEF IndInv, Held
<1>5. ASSUME NEW i \in Kinds, NEW k \in Keys
      PROVE  Recorded[i][k] = Held[i][k][k]
    BY HeldIs DEF Recorded
<1>6. Recorded \in [Kinds -> Bags]
    <2>1. Recorded = [i \in Kinds |-> [k \in Keys |-> Held[i][k][k]]]
        BY HeldIs DEF Recorded
    <2>2. QED
        BY <1>4, <2>1 DEF Bags, Tallies
<1>7. ScrapeTypes(s)'
    BY <1>2, <1>3, <1>6 DEF ScrapeInv, ScrapeTypes
<1>8. BeforeVisits(s)'
    <2>1. \A i \in Kinds, k \in Procs :
            k \in Keys /\ Held[i][k][k] \in Nat /\ Recorded[i][k] = Held[i][k][k]
        BY <1>4, <1>5, Constants DEF Tallies
    <2>2. \A i \in Kinds, k \in Procs : Held[i][k][k] >= Recorded[i][k]
        BY <2>1
    <2>3. QED
        BY <1>3, <1>4, <2>2 DEF BeforeVisits
<1>9. \A step : ~Pends(loc'[s], step)
    BY <1>1, NothingPends DEF Free
<1>10. QED
    BY <1>2, <1>7, <1>8, <1>9, ScrapeOutside DEF Outside

\* ... which is still held when the services have been applied.
LEMMA ServicesSums ==
    ASSUME IndInv, IndInv', NEW s \in Scrapers, ScrapeInv(s),
           SnapshotServices(s) \/ ApplyService(s) \/ ServicesApplied(s)
    PROVE  ScrapeInv(s)'
<1>1. Free(s) /\ pc[s] \in {"services", "apply"}
    BY DEF SnapshotServices, ApplyService, ServicesApplied, InScrape
<1>2. pc'[s] \in {"apply", "get"}
    BY DEF SnapshotServices, ApplyService, ServicesApplied, InScrape, Go, IndInv,
           Shapes
<1>3. /\ scrape'[s].before = scrape[s].before
      /\ scrape'[s].system = scrape[s].system
      /\ scrape'[s].programs = scrape[s].programs
    BY DEF IndInv, Shapes, NoScrape, SnapshotServices, ApplyService,
           ServicesApplied
<1>4. Held' = Held
    BY ScraperKeeps DEF IndInv, AggregateMetrics, Untrack, InScrape,
        SnapshotServices, ApplyService, ServicesApplied
<1>5. ScrapeTypes(s)' /\ BeforeVisits(s)'
    BY <1>1, <1>2, <1>3, <1>4 DEF ScrapeInv, ScrapeTypes, BeforeVisits
<1>6. ASSUME NEW step \in {"total", "hold", "programs"}
      PROVE  ~Pends(loc'[s], step)
    <2>1. ~Pends(loc[s], step)
        BY <1>1, NothingPends DEF Free
    <2>2. CASE loc'[s] = loc[s]
        BY <2>1, <2>2
    <2>3. CASE ApplyService(s) /\ loc'[s] # loc[s]
        <3>1. PICK o, t : loc' = [loc EXCEPT ![s] = Resolving(o, t)]
            BY <2>3 DEF ApplyService
        <3>2. loc'[s].todo = <<"tag", "lookup", "name">>
            BY <3>1, Constants DEF IndInv, Shapes, Resolving, Idle
        <3>3. QED
            BY <3>2, Plans
    <2>4. QED
        BY <2>2, <2>3 DEF SnapshotServices, ServicesApplied
<1>7. QED
    BY <1>2, <1>5, <1>6, ScrapeOutside DEF Outside

\* The next scrape begins anew.
LEMMA EndScrapeSums ==
    ASSUME IndInv, NEW s \in Scrapers, EndScrape(s)
    PROVE  ScrapeInv(s)'
<1>1. Free(s) /\ UNCHANGED loc /\ pc'[s] = "idle" /\ scrape'[s] = NoScrape
    BY DEF EndScrape, InScrape, Go, IndInv, Shapes
<1>2. ScrapeTypes(s)' /\ BeforeVisits(s)'
    BY <1>1 DEF ScrapeTypes, BeforeVisits, NoScrape, NoCounts, NoBag, Bags
<1>3. \A step : ~Pends(loc'[s], step)
    BY <1>1, NothingPends DEF Free
<1>4. QED
    BY <1>1, <1>2, <1>3, ScrapeOutside DEF Outside

-----------------------------------------------------------------------------
(* The map that is built.                                                  *)

LEMMA ScrapeBuilding ==
    ASSUME NEW s \in Scrapers, pc'[s] \in Building, OwnMaps(s)',
           ScrapeTypes(s)', WhileVisiting(s)',
           \A step \in {"total", "hold", "programs"} : ~Pends(loc'[s], step)
    PROVE  ScrapeInv(s)'
<1>1. /\ pc'[s] \notin {"services", "apply", "get", "collect", "cleanup"}
      /\ pc'[s] \notin Frozen
    BY DEF Building, AtProcess, Frozen
<1>2. BeforeVisits(s)' /\ WhileInstalled(s)' /\ Taken(s)'
    BY <1>1 DEF BeforeVisits, WhileInstalled, Taken, Took
<1>3. CollectHand(s)'
    BY <1>1 DEF CollectHand
<1>4. QED
    BY <1>2, <1>3 DEF ScrapeInv

\* The map is empty, and every process is still to be visited.
LEMMA GetMapSums ==
    ASSUME IndInv, Counted, Pool, NEW s \in Scrapers, ScrapeInv(s), GetMap(s)
    PROVE  Pool' /\ ScrapeInv(s)'
<1>1. PICK m \in aggregationDataPool :
        /\ aggregationDataPool' = aggregationDataPool \ {m}
        /\ scrape' = [scrape EXCEPT ![s].building = m, ![s].toVisit = Keys,
                                    ![s].attempted = {}]
    BY DEF GetMap
<1>2. /\ pc[s] = "get" /\ Free(s) /\ pc' = Go(s, "range")
      /\ UNCHANGED <<loc, aggregatedData, maps>>
    BY DEF GetMap, InScrape
<1>3. Held' = Held
    BY ScraperKeeps DEF IndInv, AggregateMetrics, Untrack, InScrape, GetMap
<1>4. /\ pc'[s] = "range" /\ scrape'[s].building = m
      /\ scrape'[s].toVisit = Keys /\ scrape'[s].before = scrape[s].before
      /\ scrape'[s].system = scrape[s].system
      /\ scrape'[s].programs = scrape[s].programs
    BY <1>1, <1>2 DEF IndInv, Shapes, NoScrape, Go
<1>5. Pool'
    BY <1>1, <1>2 DEF Pool
<1>6. OwnMaps(s)' /\ ScrapeTypes(s)'
    <2>1. m \in Maps \ aggregationDataPool' /\ m # aggregatedData
        BY <1>1 DEF Pool
    <2>2. pc'[s] \notin Frozen /\ pc'[s] # "clear" /\ pc'[s] # "sum"
        BY <1>4 DEF Frozen
    <2>3. OwnMaps(s)'
        BY <1>2, <1>4, <2>1, <2>2 DEF OwnMaps
    <2>4. ScrapeTypes(s)'
        BY <1>4, <2>2 DEF ScrapeInv, ScrapeTypes
    <2>5. QED
        BY <2>3, <2>4
<1>7. ToAdd(s)' = Keys
    BY <1>4 DEF ToAdd, AtProcess
<1>8. WhileVisiting(s)'
    <2>1. m \in Maps /\ maps'[m] = NoPrograms
        BY <1>1, <1>2 DEF Pool
    <2>2. ASSUME NEW i \in Kinds, NEW k \in Procs
          PROVE  /\ k \in Keys /\ Held[i][k][k] >= scrape[s].before[i][k]
                 /\ Sums(NoPrograms, i, k) <= SumOver(Held[i][k], Keys \ Keys)
        <3>1. k \in Keys
            BY Constants
        <3>2. Held[i][k] \in [Keys -> Nat]
            BY <3>1, HeldType DEF IndInv, Tallies
        <3>3. SumOver(Held[i][k], Keys \ Keys) \in Nat
            BY <3>2, SumOverType
        <3>4. Sums(NoPrograms, i, k) = 0
            BY <3>1, SumsOfNone
        <3>5. Held[i][k][k] >= scrape[s].before[i][k]
            BY <1>2 DEF ScrapeInv, BeforeVisits
        <3>6. QED
            BY <3>1, <3>3, <3>4, <3>5
    <2>3. pc'[s] \notin AtProcess
        BY <1>4 DEF AtProcess
    <2>4. QED
        BY <1>3, <1>4, <1>7, <2>1, <2>2, <2>3 DEF WhileVisiting
<1>9. \A step : ~Pends(loc'[s], step)
    BY <1>2, NothingPends DEF Free
<1>10. "range" \in Building
    BY DEF Building
<1>11. QED
    BY <1>4, <1>5, <1>6, <1>8, <1>9, <1>10, ScrapeBuilding

\* A process that is not tracked has nothing; one that is comes into hand.
LEMMA VisitProcessSums ==
    ASSUME IndInv, Visits, Counted, Pool, NEW s \in Scrapers, ScrapeInv(s),
           VisitProcess(s)
    PROVE  Pool' /\ ScrapeInv(s)'
<1>1. PICK c \in scrape[s].toVisit :
        LET o == instanceData[c]
            t == info[o].tag
            unnamed == /\ o # None /\ t # None /\ info[o].service = None
                       /\ t \notin scrape[s].attempted
        IN  /\ loc' = IF o = None THEN loc
                      ELSE [loc EXCEPT ![s].obj = o,
                                ![s].tag = IF unnamed THEN t ELSE None]
            /\ scrape' = [scrape EXCEPT ![s].toVisit = @ \ {c},
                    ![s].attempted = IF unnamed THEN @ \union {t} ELSE @]
            /\ pc' = IF o = None THEN pc
                     ELSE Go(s, IF unnamed THEN "query" ELSE "key")
    BY DEF VisitProcess
<1>2. /\ pc[s] = "range" /\ Free(s)
      /\ UNCHANGED <<instanceData, aggregatedData, maps, aggregationDataPool>>
    BY DEF VisitProcess, InScrape, tables, aggregation
<1>3. Held' = Held
    BY ScraperKeeps DEF IndInv, AggregateMetrics, Untrack, InScrape, VisitProcess
<1>4. /\ scrape'[s].building = scrape[s].building
      /\ scrape'[s].toVisit = scrape[s].toVisit \ {c}
      /\ scrape'[s].before = scrape[s].before
      /\ scrape'[s].system = scrape[s].system
      /\ scrape'[s].programs = scrape[s].programs
    BY <1>1 DEF IndInv, Shapes, NoScrape
<1> DEFINE o == instanceData[c]
           T == scrape[s].toVisit
<1>5. \/ o = None /\ pc'[s] = "range" /\ loc'[s] = loc[s]
      \/ /\ o # None /\ pc'[s] \in {"query", "key"}
         /\ loc'[s].obj = o /\ loc'[s].todo = loc[s].todo
    <2>1. loc[s] \in Task /\ s \in Goroutines /\ pc \in [Scrapers -> Places]
            /\ loc \in [Goroutines -> Task]
        BY Constants DEF IndInv, Shapes
    <2>2. CASE o = None
        BY <1>1, <1>2, <2>2
    <2>3. CASE o # None
        <3>1. pc' = Go(s, "query") \/ pc' = Go(s, "key")
            BY <1>1, <2>3
        <3>2. pc'[s] \in {"query", "key"}
            BY <2>1, <3>1 DEF Go
        <3>3. \E t : loc' = [loc EXCEPT ![s].obj = o, ![s].tag = t]
            BY <1>1, <2>3
        <3>4. loc'[s].obj = o /\ loc'[s].todo = loc[s].todo
            BY <2>1, <3>3 DEF Task
        <3>5. QED
            BY <2>3, <3>2, <3>4
    <2>4. QED
        BY <2>2, <2>3
<1>6. c \in Keys /\ T \subseteq Keys
    BY <1>2 DEF Visits, Visited
<1>7. Pool'
    BY <1>2 DEF Pool
<1>8. pc'[s] \in Building /\ pc'[s] \notin Frozen /\ pc'[s] # "clear" /\ pc'[s] # "sum"
    BY <1>5 DEF Building, AtProcess, Frozen
<1>9. OwnMaps(s)' /\ ScrapeTypes(s)'
    BY <1>2, <1>4, <1>8 DEF ScrapeInv, OwnMaps, ScrapeTypes, Building
<1>10. ToAdd(s) = T
    BY <1>2 DEF ToAdd, AtProcess
<1>11. ToAdd(s)' = IF o = None THEN T \ {c} ELSE T
    <2>1. CASE o = None
        BY <1>4, <1>5, <2>1 DEF ToAdd, AtProcess
    <2>2. CASE o # None
        <3>1. {x \in Keys : instanceData[x] = o} = {c}
            BY <1>6, <2>2 DEF IndInv, Owned
        <3>2. pc'[s] \in AtProcess
            BY <1>5, <2>2 DEF AtProcess
        <3>3. ToAdd(s)' = (T \ {c}) \union {c}
            BY <1>2, <1>4, <1>5, <2>2, <3>1, <3>2 DEF ToAdd
        <3>4. QED
            BY <1>1, <2>2, <3>3
    <2>3. QED
        BY <2>1, <2>2
<1> DEFINE m == maps[scrape[s].building]
           X == ToAdd(s)'
<1>12. scrape[s].building \in Maps
    BY <1>2 DEF ScrapeInv, OwnMaps, Building
<1>13. ASSUME NEW i \in Kinds, NEW k \in Procs
       PROVE  /\ \/ k \in X /\ Held[i][k][k] >= scrape[s].before[i][k]
                 \/ Sums(m, i, k) >= scrape[s].before[i][k]
              /\ Sums(m, i, k) <= SumOver(Held[i][k], Keys \ X)
    <2>1. k \in Keys
        BY Constants
    <2>2. Held[i][k] \in [Keys -> Nat]
        BY <2>1, HeldType DEF IndInv, Tallies
    <2>3. /\ \/ k \in T /\ Held[i][k][k] >= scrape[s].before[i][k]
             \/ Sums(m, i, k) >= scrape[s].before[i][k]
          /\ Sums(m, i, k) <= SumOver(Held[i][k], Keys \ T)
        BY <1>2, <1>10 DEF ScrapeInv, WhileVisiting, Building
    <2>4. CASE o # None
        BY <1>11, <2>3, <2>4
    <2>5. CASE o = None
        <3>1. X = T \ {c}
            BY <1>11, <2>5
        <3>2. Sums(m, i, k) \in Nat /\ scrape[s].before[i][k] \in Nat
            BY <1>12, <2>1, MapsHave DEF ScrapeInv, ScrapeTypes, Bags
        <3>3. \A x \in Keys : x \in Keys \ T => x \in Keys \ X
                                /\ Held[i][k][x] <= Held[i][k][x]
            BY <2>2, <3>1
        <3>4. /\ SumOver(Held[i][k], Keys \ T) \in Nat
              /\ SumOver(Held[i][k], Keys \ X) \in Nat
            BY <2>2, SumOverType
        <3>5. SumOver(Held[i][k], Keys \ T) <= SumOver(Held[i][k], Keys \ X)
            BY <2>2, <3>3, SumOverAtMost
        <3>6. Held[i][k][c] = 0
            BY <1>6, <2>1, <2>5, HeldIs
        <3> HIDE DEF m, T, X
        <3>7. Sums(m, i, k) <= SumOver(Held[i][k], Keys \ X)
            BY <2>3, <3>2, <3>4, <3>5
        <3>8. CASE k = c
            BY <2>3, <3>2, <3>6, <3>7, <3>8
        <3>9. CASE k # c
            BY <2>3, <3>1, <3>7, <3>9
        <3>10. QED
            BY <3>8, <3>9
    <2>6. QED
        BY <2>4, <2>5
<1>14. pc'[s] \in AtProcess =>
            \E x \in Keys \ scrape'[s].toVisit : instanceData'[x] = loc'[s].obj
    BY <1>2, <1>4, <1>5, <1>6 DEF AtProcess
<1>15. WhileVisiting(s)'
    BY <1>2, <1>3, <1>4, <1>13, <1>14 DEF WhileVisiting
<1>16. \A step : ~Pends(loc'[s], step)
    BY <1>2, <1>5, NothingPends DEF Free
<1>17. QED
    BY <1>7, <1>8, <1>9, <1>15, <1>16, ScrapeBuilding

\* The query, and the key by which the process is added.
LEMMA ReadKeySums ==
    ASSUME IndInv, OwnServices, Counted, Pool, NEW s \in Scrapers, ScrapeInv(s),
           QueryServiceName(s) \/ StoreQueried(s) \/ ReadKey(s)
    PROVE  Pool' /\ ScrapeInv(s)'
<1>1. /\ pc[s] \in {"query", "store", "key"} /\ Free(s)
      /\ UNCHANGED <<instanceData, loc, aggregatedData, maps, aggregationDataPool>>
    BY DEF QueryServiceName, StoreQueried, ReadKey, InScrape, tables, aggregation
<1>2. Held' = Held
    BY ScraperKeeps DEF IndInv, AggregateMetrics, Untrack, InScrape,
        QueryServiceName, StoreQueried, ReadKey
<1>3. /\ pc'[s] \in {"key", "store", "sum"}
      /\ pc'[s] = "sum" => ReadKey(s)
    BY DEF QueryServiceName, StoreQueried, ReadKey, Go, IndInv, Shapes
<1>4. /\ scrape'[s].building = scrape[s].building
      /\ scrape'[s].toVisit = scrape[s].toVisit
      /\ scrape'[s].before = scrape[s].before
      /\ scrape'[s].system = scrape[s].system
      /\ scrape'[s].programs = scrape[s].programs
    BY DEF QueryServiceName, StoreQueried, ReadKey, IndInv, Shapes, NoScrape
<1>5. Pool'
    BY <1>1 DEF Pool
<1>6. /\ pc[s] \in AtProcess /\ pc[s] \in Building
      /\ pc'[s] \in AtProcess /\ pc'[s] \in Building
      /\ pc'[s] \notin Frozen /\ pc'[s] # "clear"
    BY <1>1, <1>3 DEF Building, AtProcess, Frozen
<1>7. pc'[s] = "sum" => scrape'[s].program \in Programs
    <2> SUFFICES ASSUME pc'[s] = "sum" PROVE scrape'[s].program \in Programs
        OBVIOUS
    <2> DEFINE i == info[loc[s].obj]
    <2>1. scrape'[s].program = <<ProgramOf[i.proc], i.service>>
        BY <1>3 DEF ReadKey, IndInv, Shapes, NoScrape
    <2>2. PICK x \in Keys : instanceData[x] = loc[s].obj
        BY <1>6 DEF ScrapeInv, WhileVisiting
    <2>3. loc[s].obj \in Objs /\ loc[s].obj # None
        BY <1>1, Constants DEF IndInv, ScraperHand
    <2>4. i.proc = x /\ i.service \in Tags \union {None}
        BY <2>2, <2>3 DEF OwnServices, IndInv, Shapes, InfoRec
    <2>5. QED
        BY <2>1, <2>4 DEF Programs
<1>8. OwnMaps(s)' /\ ScrapeTypes(s)'
    BY <1>1, <1>4, <1>6, <1>7 DEF ScrapeInv, OwnMaps, ScrapeTypes
<1>9. ToAdd(s)' = ToAdd(s)
    BY <1>1, <1>4, <1>6 DEF ToAdd
<1>10. WhileVisiting(s)'
    BY <1>1, <1>2, <1>4, <1>6, <1>9 DEF ScrapeInv, WhileVisiting
<1>11. \A step : ~Pends(loc'[s], step)
    BY <1>1, NothingPends DEF Free
<1>12. QED
    BY <1>5, <1>6, <1>8, <1>10, <1>11, ScrapeBuilding

\* What the process in hand has is added to its program, and so it is no longer
\* to be added.
LEMMA SumCountersSums ==
    ASSUME IndInv, Counted, Pool, NEW s \in Scrapers, ScrapeInv(s), SumCounters(s)
    PROVE  Pool' /\ ScrapeInv(s)'
<1> DEFINE b == scrape[s].building
           g == scrape[s].program
           own == counts[loc[s].obj]
           T == scrape[s].toVisit
<1>1. /\ pc[s] = "sum" /\ Free(s) /\ loc' = Stop(s) /\ pc' = Go(s, "range")
      /\ maps' = [maps EXCEPT ![b] = Added(@, g, own)]
      /\ UNCHANGED <<scrape, instanceData, aggregatedData, aggregationDataPool>>
    BY DEF SumCounters, InScrape, tables
<1>2. Held' = Held
    BY ScraperKeeps DEF IndInv, AggregateMetrics, Untrack, InScrape, SumCounters
<1>3. /\ pc[s] \in AtProcess /\ pc[s] \in Building /\ pc'[s] = "range"
      /\ pc'[s] \in Building /\ pc'[s] \notin AtProcess
      /\ pc'[s] \notin Frozen /\ pc'[s] # "clear" /\ pc'[s] # "sum"
    BY <1>1 DEF IndInv, Shapes, Go, Building, AtProcess, Frozen
<1>4. /\ b \in Maps \ aggregationDataPool /\ b # aggregatedData
      /\ g \in Programs
    BY <1>1, <1>3 DEF ScrapeInv, OwnMaps, ScrapeTypes
<1>5. PICK c \in Keys \ T : instanceData[c] = loc[s].obj
    BY <1>3 DEF ScrapeInv, WhileVisiting
<1>6. loc[s].obj \in Objs /\ loc[s].obj # None
    BY <1>1, Constants DEF IndInv, ScraperHand
<1>7. own \in [Kinds -> Bags]
    BY <1>6 DEF IndInv, Shapes
<1>8. maps \in [Maps -> MapsOf] /\ maps[b] \in MapsOf
    BY <1>4 DEF Pool
<1>9. /\ maps'[b] = Added(maps[b], g, own) /\ maps'[b] \in MapsOf
      /\ \A m \in Maps \ {b} : maps'[m] = maps[m]
      /\ maps' \in [Maps -> MapsOf]
    <2>1. Added(maps[b], g, own) \in MapsOf
        BY <1>4, <1>7, <1>8, SumsAdded
    <2> HIDE DEF own, g, b
    <2>2. QED
        BY <1>1, <1>4, <1>8, <2>1
<1>10. \A i \in Kinds, k \in Keys :
            Sums(maps'[b], i, k) = Sums(maps[b], i, k) + own[i][k]
    BY <1>4, <1>7, <1>8, <1>9, SumsAdded
<1>11. Pool'
    BY <1>1, <1>4, <1>9 DEF Pool
<1>12. OwnMaps(s)' /\ ScrapeTypes(s)'
    BY <1>1, <1>3 DEF ScrapeInv, OwnMaps, ScrapeTypes
<1>13. ToAdd(s) = T \union {c}
    <2>1. {x \in Keys : instanceData[x] = loc[s].obj} = {c}
        BY <1>5, <1>6 DEF IndInv, Owned
    <2>2. QED
        BY <1>3, <2>1 DEF ToAdd
<1>14. ToAdd(s)' = T
    BY <1>1, <1>3 DEF ToAdd
<1> HIDE DEF b, g
<1>15. ASSUME NEW i \in Kinds, NEW k \in Procs
       PROVE  /\ \/ k \in T /\ Held[i][k][k] >= scrape[s].before[i][k]
                 \/ Sums(maps'[b], i, k) >= scrape[s].before[i][k]
              /\ Sums(maps'[b], i, k) <= SumOver(Held[i][k], Keys \ T)
    <2>1. k \in Keys
        BY Constants
    <2>2. Held[i][k] \in [Keys -> Nat]
        BY <2>1, HeldType DEF IndInv, Tallies
    <2>3. /\ \/ k \in T \union {c} /\ Held[i][k][k] >= scrape[s].before[i][k]
             \/ Sums(maps[b], i, k) >= scrape[s].before[i][k]
          /\ Sums(maps[b], i, k) <= SumOver(Held[i][k], Keys \ (T \union {c}))
        BY <1>3, <1>13 DEF ScrapeInv, WhileVisiting, b
    <2>4. Held[i][k][c] = own[i][k]
        BY <1>5, <1>6, <2>1, HeldIs
    <2>5. Sums(maps[b], i, k) \in Nat /\ scrape[s].before[i][k] \in Nat
            /\ own[i][k] \in Nat
        BY <1>4, <1>7, <2>1, MapsHave DEF ScrapeInv, ScrapeTypes, Bags
    <2>6. Sums(maps'[b], i, k) = Sums(maps[b], i, k) + own[i][k]
        BY <1>10, <2>1
    <2>7. SumOver(Held[i][k], Keys \ T)
            = SumOver(Held[i][k], Keys \ (T \union {c})) + Held[i][k][c]
        <3>1. c \in Keys /\ c \notin Keys \ (T \union {c})
            BY <1>5
        <3>2. \A x \in Keys :
                x \in Keys \ T <=> x \in Keys \ (T \union {c}) \/ x = c
            BY <1>5
        <3>3. QED
            BY <2>2, <3>1, <3>2, SumOverOneMore
    <2>8. SumOver(Held[i][k], Keys \ (T \union {c})) \in Nat
        BY <2>2, SumOverType
    <2> HIDE DEF own, T
    <2>9. Sums(maps'[b], i, k) <= SumOver(Held[i][k], Keys \ T)
        BY <2>3, <2>4, <2>5, <2>6, <2>7, <2>8
    <2>10. CASE k = c
        BY <2>3, <2>4, <2>5, <2>6, <2>9, <2>10
    <2>11. CASE k # c
        BY <2>3, <2>5, <2>6, <2>9, <2>11
    <2>12. QED
        BY <2>10, <2>11
<1>16. WhileVisiting(s)'
    BY <1>1, <1>2, <1>3, <1>14, <1>15 DEF WhileVisiting, b
<1>17. \A step : ~Pends(loc'[s], step)
    BY <1>1, NothingPends, Constants DEF Stop, IndInv, Shapes
<1>18. QED
    BY <1>3, <1>11, <1>12, <1>16, <1>17, ScrapeBuilding

-----------------------------------------------------------------------------
(* The map that is live.                                                   *)

\* Every process has been added, and what was added has happened and has been
\* counted, or is about to be.
LEMMA SwapSums ==
    ASSUME IndInv, Counted, Pool, NEW s \in Scrapers, ScrapeInv(s), Swap(s)
    PROVE  Pool' /\ ScrapeInv(s)'
<1> DEFINE b == scrape[s].building
           l == loc["callback"]
<1>1. /\ pc[s] = "range" /\ Free(s) /\ scrape[s].toVisit = {}
      /\ aggregatedData' = b /\ scrape' = Installed(s) /\ pc' = Go(s, "clear")
      /\ UNCHANGED <<loc, maps, aggregationDataPool>>
    BY DEF Swap, InScrape
<1>2. UNCHANGED <<Held, happened, systemWide>>
    BY ScraperKeeps DEF IndInv, AggregateMetrics, Untrack, InScrape, Swap
<1>3. /\ pc'[s] = "clear" /\ scrape'[s].old = aggregatedData
      /\ scrape'[s].before = scrape[s].before
      /\ scrape'[s].system = scrape[s].system
      /\ scrape'[s].programs = scrape[s].programs
    BY <1>1 DEF IndInv, Shapes, NoScrape, Installed, Go
<1>4. /\ pc[s] \in Building /\ pc[s] \notin AtProcess
      /\ pc'[s] \notin Building /\ pc'[s] \in Frozen
      /\ pc'[s] \notin {"services", "apply", "get", "collect", "cleanup", "sum"}
    BY <1>1, <1>3 DEF Building, AtProcess, Frozen
<1>5. b \in Maps \ aggregationDataPool /\ b # aggregatedData
    BY <1>4 DEF ScrapeInv, OwnMaps
<1>6. Pool'
    BY <1>1, <1>5 DEF Pool
<1>7. OwnMaps(s)' /\ ScrapeTypes(s)'
    BY <1>1, <1>3, <1>4, <1>5 DEF Pool, ScrapeInv, OwnMaps, ScrapeTypes
<1>8. ToAdd(s) = {}
    BY <1>1, <1>4 DEF ToAdd
<1>9. Held \in Tallies
    BY HeldType DEF IndInv
<1>10. maps[b] \in MapsOf
    BY <1>5, MapsHave
<1>11. ASSUME NEW i \in Kinds, NEW k \in Procs
       PROVE  /\ Sums(maps[b], i, k) >= scrape[s].before[i][k]
              /\ Sums(maps[b], i, k) <= SumOver(Held[i][k], Keys)
    BY <1>4, <1>8 DEF ScrapeInv, WhileVisiting
<1>12. \A i, x : ToCount(l, i, x) \in {0, 1}
    BY DEF ToCount
<1>13. ASSUME NEW i \in Kinds, NEW k \in Procs
       PROVE  Sums(maps[b], i, k) <= happened[i][k]
    <2>1. k \in Keys
        BY Constants
    <2>2. Sums(maps[b], i, k) \in Nat /\ SumOver(Held[i][k], Keys) \in Nat
        BY <1>5, <1>9, <2>1, MapsHave, SumOverType DEF Tallies
    <2>3. happened[i][k] \in Nat
        BY <2>1 DEF Counted, CounterTypes, Bags
    <2>4. ToCountFor(l, i, k) \in {0, 1}
        BY <1>12 DEF ToCountFor
    <2>5. SumOver(Held[i][k], Keys) + ToCountFor(l, i, k) <= happened[i][k]
        BY DEF Counted, AllHappened
    <2> HIDE DEF b, l
    <2>6. QED
        BY <1>11, <2>2, <2>3, <2>4, <2>5
<1>14. ASSUME NEW i \in Measured
       PROVE  AllSums(maps[b], i) <= systemWide[i] + Slack(i)
    <2>1. i \in Kinds
        BY DEF Measured
    <2>2. Held[i] \in [Keys -> [Keys -> Nat]]
        BY <1>9, <2>1 DEF Tallies
    <2>3. AllSums(maps[b], i) <= SumOfAll(Held[i])
        BY <1>10, <1>11, <2>1, <2>2, AllSumsAtMost
    <2>4. /\ AllSums(maps[b], i) \in Nat /\ SumOfAll(Held[i]) \in Nat
          /\ systemWide[i] \in Nat
        <3>1. \A k \in Procs, x \in Keys : Held[i][k][x] <= Held[i][k][x]
            BY <2>2, Constants
        <3>2. SumOfAll(Held[i]) \in Nat
            <4> DEFINE rows == Held[i]
            <4>1. rows \in [Keys -> [Keys -> Nat]]
                    /\ \A k \in Procs, x \in Keys : rows[k][x] <= rows[k][x]
                BY <2>2, <3>1
            <4> HIDE DEF rows
            <4>2. SumOfAll(rows) \in Nat
                BY <4>1, SumOfAllAtMost
            <4>3. QED
                BY <4>2 DEF rows
        <3>3. QED
            BY <1>5, <2>1, <3>2, MapsHave DEF Counted, CounterTypes
    <2>5. SumOfAll(Held[i]) + ToCount(l, i, "process")
            <= systemWide[i] + ToCount(l, i, "system")
        BY DEF Counted, AllMeasured
    <2>6. ToCount(l, i, "system") <= ToCount(l, i, "process") + Slack(i)
        <3>1. CASE i \notin SystemFirst
            <4>1. Slack(i) = 1
                BY <3>1 DEF Slack
            <4>2. QED
                BY <1>12, <4>1
        <3>2. CASE i \in SystemFirst
            <4> DEFINE rest == [todo |-> Tail(l.todo), kind |-> l.kind]
            <4>1. Counting(l, i) /\ Pends(l, "system") => Pends(l, "process")
                <5>1. rest.todo = Tail(l.todo) /\ rest.kind = l.kind
                    OBVIOUS
                <5> HIDE DEF rest
                <5>2. QED
                    BY <2>1, <3>2, <5>1, EventRest
            <4>2. ToCount(l, i, "system") <= ToCount(l, i, "process")
                BY <4>1 DEF ToCount
            <4>3. Slack(i) = 0
                BY <3>2 DEF Slack
            <4>4. QED
                BY <1>12, <4>2, <4>3
        <3>3. QED
            BY <3>1, <3>2
    <2>7. Slack(i) \in Nat
        BY DEF Slack
    <2> HIDE DEF b, l
    <2>8. QED
        BY <1>12, <2>3, <2>4, <2>5, <2>6, <2>7
<1>15. WhileInstalled(s)'
    <2> HIDE DEF b
    <2>1. QED
        BY <1>1, <1>2, <1>3, <1>11, <1>13, <1>14 DEF WhileInstalled, Slack
<1>16. BeforeVisits(s)' /\ WhileVisiting(s)' /\ Taken(s)'
    BY <1>4 DEF BeforeVisits, WhileVisiting, Taken, Took
<1>17. \A step : ~Pends(loc'[s], step)
    BY <1>1, NothingPends DEF Free
<1>18. CollectHand(s)'
    BY <1>4, <1>17 DEF CollectHand
<1>19. QED
    BY <1>6, <1>7, <1>15, <1>16, <1>18 DEF ScrapeInv

\* The map that was live is emptied for the pool.
LEMMA ClearOldSums ==
    ASSUME IndInv, Counted, Pool, NEW s \in Scrapers, ScrapeInv(s), ClearOld(s)
    PROVE  Pool' /\ ScrapeInv(s)'
<1> DEFINE old == scrape[s].old
<1>1. /\ pc[s] = "clear" /\ Free(s) /\ pc' = Go(s, "collect")
      /\ scrape' = [scrape EXCEPT ![s].old = None, ![s].toCollect = Kinds]
      /\ UNCHANGED <<loc, aggregatedData>>
      /\ IF old = None THEN UNCHANGED <<maps, aggregationDataPool>>
         ELSE /\ maps' = [maps EXCEPT ![old] = NoPrograms]
              /\ aggregationDataPool' = aggregationDataPool \union {old}
    BY DEF ClearOld, InScrape, Cleared
<1>2. UNCHANGED <<Held, happened, systemWide>>
    BY ScraperKeeps DEF IndInv, AggregateMetrics, Untrack, InScrape, ClearOld
<1>3. /\ pc'[s] = "collect" /\ scrape'[s].toCollect = Kinds
      /\ scrape'[s].before = scrape[s].before
      /\ scrape'[s].system = scrape[s].system
      /\ scrape'[s].programs = scrape[s].programs
    BY <1>1 DEF IndInv, Shapes, NoScrape, Go
<1>4. /\ pc[s] \in Frozen /\ pc'[s] \in Frozen /\ pc'[s] \notin Building
      /\ pc'[s] \notin {"services", "apply", "get", "clear", "cleanup", "sum"}
    BY <1>1, <1>3 DEF Building, AtProcess, Frozen
<1>5. /\ old \in (Maps \union {None}) \ aggregationDataPool
      /\ old # aggregatedData /\ aggregatedData \in Maps \ aggregationDataPool
    BY <1>1, <1>4 DEF Pool, ScrapeInv, OwnMaps
<1>6. maps'[aggregatedData] = maps[aggregatedData]
    <2> HIDE DEF old
    <2>1. QED
        BY <1>1, <1>5 DEF Pool
<1>7. Pool'
    <2>1. NoPrograms \in MapsOf
        BY SumsOfNone
    <2> HIDE DEF old
    <2>2. CASE old = None
        BY <1>1, <2>2 DEF Pool
    <2>3. CASE old # None
        BY <1>1, <1>5, <2>1, <2>3 DEF Pool
    <2>4. QED
        BY <2>2, <2>3
<1>8. OwnMaps(s)' /\ ScrapeTypes(s)'
    BY <1>1, <1>3, <1>4, <1>5 DEF ScrapeInv, OwnMaps, ScrapeTypes
<1>9. WhileInstalled(s)'
    BY <1>1, <1>2, <1>3, <1>4, <1>6 DEF ScrapeInv, WhileInstalled, Slack
<1>10. BeforeVisits(s)' /\ WhileVisiting(s)' /\ Taken(s)'
    BY <1>3, <1>4 DEF BeforeVisits, WhileVisiting, Taken, Took
<1>11. \A step : ~Pends(loc'[s], step)
    BY <1>1, NothingPends DEF Free
<1>12. CollectHand(s)'
    BY <1>1, <1>3, <1>4, <1>11 DEF CollectHand, Free
<1>13. QED
    BY <1>7, <1>8, <1>9, <1>10, <1>12 DEF ScrapeInv

-----------------------------------------------------------------------------
(* What the collectors read.                                               *)

\* The live map stays what it is while it is read.
LEMMA ScrapeReads ==
    ASSUME IndInv, NEW s \in Scrapers, ScrapeInv(s),
           AggregateMetrics(s) \/ CollectAndClean(s),
           pc[s] \in {"collect", "cleanup"}, pc'[s] \in {"collect", "cleanup"},
           UNCHANGED aggregation, scrape'[s].before = scrape[s].before,
           ScrapeTypes(s)', CollectHand(s)', Taken(s)', Pool
    PROVE  Pool' /\ ScrapeInv(s)'
<1>1. UNCHANGED <<happened, systemWide, aggregatedData, maps, aggregationDataPool>>
    BY ScraperCounts DEF IndInv, aggregation
<1>2. /\ pc[s] \in Frozen /\ pc'[s] \in Frozen
      /\ pc'[s] \notin Building
      /\ pc'[s] \notin {"services", "apply", "get", "clear", "sum"}
    BY DEF Frozen, Building, AtProcess
<1>3. Pool'
    BY <1>1 DEF Pool
<1>4. OwnMaps(s)' /\ BeforeVisits(s)' /\ WhileVisiting(s)'
    BY <1>1, <1>2 DEF ScrapeInv, OwnMaps, BeforeVisits, WhileVisiting
<1>5. WhileInstalled(s)'
    BY <1>1, <1>2 DEF ScrapeInv, WhileInstalled, Slack
<1>6. QED
    BY <1>3, <1>4, <1>5 DEF ScrapeInv

\* What a collector has to read next.
LEMMA CollectRest ==
    ASSUME NEW l, NEW rest, NEW kind, l.todo \in CollectSteps(kind),
           rest.todo = Tail(l.todo)
    PROVE  /\ rest.todo = <<>> \/ rest.todo \in CollectSteps(kind)
           /\ rest.todo = <<>> =>
                \A step \in {"total", "hold", "programs"} : ~Pends(rest, step)
           /\ \A step \in {"total", "hold", "programs"} :
                /\ Head(l.todo) = step => Pends(l, step) /\ ~Pends(rest, step)
                /\ Head(l.todo) # step => (Pends(rest, step) <=> Pends(l, step))
           /\ l.todo # <<>>
<1>1. rest.todo = <<>> => \A x : ~Pends(rest, x)
    BY NothingPends
<1>2. CASE kind = "network"
    <2>1. CASE l.todo = <<"hold", "programs", "total">>
        <3>1. Head(l.todo) = "hold" /\ rest.todo = <<"programs", "total">>
            BY <2>1, Lists
        <3>2. /\ \A x : Pends(l, x) <=> x \in {"hold", "programs", "total"}
              /\ \A x : Pends(rest, x) <=> x \in {"programs", "total"}
            BY <2>1, <3>1, Lists
        <3>3. QED
            BY <1>2, <2>1, <3>1, <3>2 DEF CollectSteps
    <2>2. CASE l.todo = <<"programs", "total">>
        <3>1. Head(l.todo) = "programs" /\ rest.todo = <<"total">>
            BY <2>2, Lists
        <3>2. /\ \A x : Pends(l, x) <=> x \in {"programs", "total"}
              /\ \A x : Pends(rest, x) <=> x = "total"
            BY <2>2, <3>1, Lists
        <3>3. QED
            BY <1>2, <2>2, <3>1, <3>2 DEF CollectSteps
    <2>3. CASE l.todo = <<"total">>
        <3>1. Head(l.todo) = "total" /\ rest.todo = <<>>
            BY <2>3, Lists
        <3>2. \A x : Pends(l, x) <=> x = "total"
            BY <2>3, Lists
        <3>3. QED
            BY <1>1, <2>3, <3>1, <3>2
    <2>4. QED
        BY <1>2, <2>1, <2>2, <2>3 DEF CollectSteps
<1>3. CASE kind # "network"
    <2>1. CASE l.todo = <<"total", "hold", "programs">>
        <3>1. Head(l.todo) = "total" /\ rest.todo = <<"hold", "programs">>
            BY <2>1, Lists
        <3>2. /\ \A x : Pends(l, x) <=> x \in {"total", "hold", "programs"}
              /\ \A x : Pends(rest, x) <=> x \in {"hold", "programs"}
            BY <2>1, <3>1, Lists
        <3>3. QED
            BY <1>3, <2>1, <3>1, <3>2 DEF CollectSteps
    <2>2. CASE l.todo = <<"hold", "programs">>
        <3>1. Head(l.todo) = "hold" /\ rest.todo = <<"programs">>
            BY <2>2, Lists
        <3>2. /\ \A x : Pends(l, x) <=> x \in {"hold", "programs"}
              /\ \A x : Pends(rest, x) <=> x = "programs"
            BY <2>2, <3>1, Lists
        <3>3. QED
            BY <1>3, <2>2, <3>1, <3>2 DEF CollectSteps
    <2>3. CASE l.todo = <<"programs">>
        <3>1. Head(l.todo) = "programs" /\ rest.todo = <<>>
            BY <2>3, Lists
        <3>2. \A x : Pends(l, x) <=> x = "programs"
            BY <2>3, Lists
        <3>3. QED
            BY <1>1, <2>3, <3>1, <3>2
    <2>4. QED
        BY <1>3, <2>1, <2>2, <2>3 DEF CollectSteps
<1>4. QED
    BY <1>2, <1>3

\* A collector begins to read.
LEMMA CollectSums ==
    ASSUME IndInv, Pool, NEW s \in Scrapers, ScrapeInv(s), NEW kind \in Kinds,
           Collect(s, kind)
    PROVE  Pool' /\ ScrapeInv(s)'
<1> DEFINE l == loc'[s]
           T == scrape[s].toCollect
<1>1. /\ pc[s] = "collect" /\ Free(s) /\ kind \in T
      /\ scrape' = [scrape EXCEPT ![s].toCollect = @ \ {kind}]
      /\ loc' = [loc EXCEPT ![s] =
                    [Idle EXCEPT !.todo = CollectOrder(kind), !.kind = kind]]
      /\ UNCHANGED <<pc, aggregation>>
    BY DEF Collect, InScrape
<1>2. /\ scrape'[s].toCollect = T \ {kind}
      /\ scrape'[s].before = scrape[s].before
      /\ scrape'[s].system = scrape[s].system
      /\ scrape'[s].programs = scrape[s].programs
    BY <1>1 DEF IndInv, Shapes, NoScrape
<1>3. l.todo = CollectOrder(kind) /\ l.kind = kind
    BY <1>1, Constants DEF IndInv, Shapes, Idle
<1>4. T \subseteq Kinds
    BY <1>1 DEF ScrapeInv, CollectHand
<1>5. l.todo \in CollectSteps(kind)
    BY <1>3 DEF CollectOrder, CollectSteps
<1>6. \A step \in {"total", "hold", "programs"} : Pends(l, step)
    BY <1>3, Plans
<1>7. CollectHand(s)'
    BY <1>1, <1>2, <1>3, <1>4, <1>5, <1>6 DEF CollectHand
<1>8. ScrapeTypes(s)'
    BY <1>1, <1>2 DEF ScrapeInv, ScrapeTypes
<1>9. \A i \in Kinds, step \in {"total", "hold", "programs"} :
            Took(s, i, step)' => Took(s, i, step)
    <2>1. \A x : ~Pends(loc[s], x)
        BY <1>1, NothingPends DEF Free
    <2>2. QED
        BY <1>1, <1>2, <1>3, <1>6, <2>1 DEF Took
<1>10. UNCHANGED <<aggregatedData, maps>>
    BY <1>1 DEF aggregation
<1>11. Taken(s)'
    BY <1>2, <1>9, <1>10 DEF ScrapeInv, Taken, Slack
<1>12. CollectAndClean(s) /\ pc'[s] = "collect"
    BY <1>1 DEF CollectAndClean
<1>13. QED
    BY <1>1, <1>2, <1>7, <1>8, <1>11, <1>12, ScrapeReads

\* It takes one thing after the other.
LEMMA CollectorGoesOn ==
    ASSUME IndInv, NEW s \in Scrapers, ScrapeInv(s),
           NEW step \in {"total", "hold", "programs"}, At(s, step),
           loc' = Rest(s), UNCHANGED <<pc, aggregatedData>>,
           scrape'[s].toCollect = scrape[s].toCollect,
           step # "hold" /\ Pends(loc'[s], "programs") =>
                scrape'[s].held = scrape[s].held,
           step = "hold" => scrape'[s].held = aggregatedData
    PROVE  /\ pc[s] = "collect" /\ CollectHand(s)' /\ loc[s].kind \in Kinds
           /\ \A i \in Kinds, x \in {"total", "programs"} :
                Took(s, i, x)' => Took(s, i, x) \/ (i = loc[s].kind /\ x = step)
           /\ step = "programs" => scrape[s].held = aggregatedData
<1> DEFINE l == loc[s]
           rest == loc'[s]
<1>1. l \in Task /\ ~Free(s) /\ Pends(l, step) /\ Head(l.todo) = step
    BY AtWork DEF At
<1>2. rest.todo = Tail(l.todo) /\ rest.kind = l.kind
    BY Constants DEF IndInv, Shapes, Rest, Task
<1>3. pc[s] = "collect"
    BY <1>1 DEF ScrapeInv, CollectHand
<1>4. /\ scrape[s].toCollect \subseteq Kinds
      /\ l.kind \in Kinds \ scrape[s].toCollect
      /\ l.todo \in CollectSteps(l.kind)
      /\ Pends(l, "programs") /\ ~Pends(l, "hold") =>
            scrape[s].held = aggregatedData
    BY <1>1, <1>3 DEF ScrapeInv, CollectHand
<1>5. /\ rest.todo = <<>> \/ rest.todo \in CollectSteps(l.kind)
      /\ \A x \in {"total", "hold", "programs"} :
            /\ x = step => ~Pends(rest, x)
            /\ x # step => (Pends(rest, x) <=> Pends(l, x))
    <2>1. /\ l.todo \in CollectSteps(l.kind) /\ rest.todo = Tail(l.todo)
          /\ Head(l.todo) = step
        BY <1>1, <1>2, <1>4
    <2> HIDE DEF l, rest
    <2>2. rest.todo = <<>> \/ rest.todo \in CollectSteps(l.kind)
        BY <2>1, CollectRest
    <2>3. \A x \in {"total", "hold", "programs"} :
            /\ Head(l.todo) = x => ~Pends(rest, x)
            /\ Head(l.todo) # x => (Pends(rest, x) <=> Pends(l, x))
        BY <2>1, CollectRest
    <2>4. QED
        BY <2>1, <2>2, <2>3
<1>6. Pends(rest, "programs") /\ ~Pends(rest, "hold") =>
            scrape'[s].held = aggregatedData
    BY <1>4, <1>5
<1>7. CollectHand(s)'
    <2>1. pc'[s] = "collect"
        BY <1>3
    <2>2. Free(s)' <=> rest.todo = <<>>
        BY DEF Free
    <2>3. QED
        BY <1>2, <1>4, <1>5, <1>6, <2>1, <2>2 DEF CollectHand
<1>8. \A i \in Kinds, x \in {"total", "programs"} :
            Took(s, i, x)' => Took(s, i, x) \/ (i = l.kind /\ x = step)
    BY <1>2, <1>3, <1>5 DEF Took
<1>9. step = "programs" => ~Pends(l, "hold")
    <2>1. CASE step = "programs"
        <3>1. \/ l.todo = <<"programs", "total">> \/ l.todo = <<"programs">>
            <4>1. \A a, b, c : /\ l.todo = <<a, b, c>> => Head(l.todo) = a
                               /\ l.todo = <<a, b>> => Head(l.todo) = a
                               /\ l.todo = <<a>> => Head(l.todo) = a
                BY Lists
            <4>2. \/ l.todo = <<"hold", "programs", "total">>
                  \/ l.todo = <<"programs", "total">> \/ l.todo = <<"total">>
                  \/ l.todo = <<"total", "hold", "programs">>
                  \/ l.todo = <<"hold", "programs">> \/ l.todo = <<"programs">>
                BY <1>4 DEF CollectSteps
            <4> HIDE DEF l
            <4>3. QED
                BY <1>1, <2>1, <4>1, <4>2
        <3>2. QED
            BY <3>1, Lists
    <2>2. QED
        BY <2>1
<1>10. QED
    BY <1>1, <1>3, <1>4, <1>7, <1>8, <1>9

LEMMA CollectTotalSums ==
    ASSUME IndInv, Counted, Pool, NEW s \in Scrapers, ScrapeInv(s), CollectTotal(s)
    PROVE  Pool' /\ ScrapeInv(s)'
<1> DEFINE kind == loc[s].kind
<1>1. /\ At(s, "total") /\ loc' = Rest(s) /\ UNCHANGED <<pc, aggregation>>
      /\ scrape' = [scrape EXCEPT ![s].system[kind] = systemWide[kind]]
    BY DEF CollectTotal
<1>2. /\ scrape'[s].toCollect = scrape[s].toCollect
      /\ scrape'[s].before = scrape[s].before
      /\ scrape'[s].held = scrape[s].held
      /\ scrape'[s].system = [scrape[s].system EXCEPT ![kind] = systemWide[kind]]
      /\ scrape'[s].programs = scrape[s].programs
    <2> HIDE DEF kind
    <2>1. QED
        BY <1>1 DEF IndInv, Shapes, NoScrape
<1>3. UNCHANGED <<aggregatedData, maps>>
    BY <1>1 DEF aggregation
<1>4. /\ pc[s] = "collect" /\ CollectHand(s)' /\ kind \in Kinds
      /\ \A i \in Kinds, x \in {"total", "programs"} :
            Took(s, i, x)' => Took(s, i, x) \/ (i = kind /\ x = "total")
    BY <1>1, <1>2, <1>3, CollectorGoesOn
<1>5. /\ scrape[s].system \in [Kinds -> Nat]
      /\ systemWide \in [Kinds -> Nat]
      /\ scrape[s].before \in [Kinds -> Bags]
      /\ DOMAIN scrape[s].programs = Kinds
    BY DEF ScrapeInv, ScrapeTypes, Counted, CounterTypes
<1>6. ScrapeTypes(s)'
    BY <1>1, <1>2, <1>4, <1>5 DEF ScrapeTypes
<1>7. \A i \in Measured : AllSums(maps[aggregatedData], i) <= systemWide[i] + Slack(i)
    BY <1>4 DEF ScrapeInv, WhileInstalled, Frozen
<1>8. \A i \in Kinds : scrape'[s].system[i] =
            IF i = kind THEN systemWide[kind] ELSE scrape[s].system[i]
    BY <1>2, <1>5
<1>9. Taken(s)'
    <2>1. ASSUME NEW i \in Kinds, Took(s, i, "programs")'
          PROVE  scrape'[s].programs[i] = [g \in DOMAIN maps[aggregatedData] |->
                                            maps[aggregatedData][g][i]]
        <3>1. Took(s, i, "programs")
            BY <1>4, <2>1
        <3>2. QED
            BY <1>2, <3>1 DEF ScrapeInv, Taken
    <2>2. ASSUME NEW i \in Kinds, Took(s, i, "total")', i \in Measured
          PROVE  AllSums(maps[aggregatedData], i) <= scrape'[s].system[i] + Slack(i)
        <3>1. CASE i = kind
            BY <1>7, <1>8, <2>2, <3>1
        <3>2. CASE i # kind
            <4>1. Took(s, i, "total")
                BY <1>4, <2>2, <3>2
            <4>2. AllSums(maps[aggregatedData], i) <= scrape[s].system[i] + Slack(i)
                BY <2>2, <4>1 DEF ScrapeInv, Taken
            <4>3. QED
                BY <1>8, <3>2, <4>2
        <3>3. QED
            BY <3>1, <3>2
    <2>3. QED
        BY <1>3, <2>1, <2>2 DEF Taken, Slack
<1>10. CollectAndClean(s) /\ pc'[s] = "collect"
    BY <1>1, <1>4 DEF CollectAndClean
<1>11. QED
    BY <1>1, <1>2, <1>4, <1>6, <1>9, <1>10, ScrapeReads

LEMMA HoldMapSums ==
    ASSUME IndInv, Counted, Pool, NEW s \in Scrapers, ScrapeInv(s), HoldMap(s)
    PROVE  Pool' /\ ScrapeInv(s)'
<1>1. /\ At(s, "hold") /\ loc' = Rest(s) /\ UNCHANGED <<pc, aggregation>>
      /\ scrape' = [scrape EXCEPT ![s].held = aggregatedData]
    BY DEF HoldMap
<1>2. /\ scrape'[s].toCollect = scrape[s].toCollect
      /\ scrape'[s].before = scrape[s].before
      /\ scrape'[s].held = aggregatedData
      /\ scrape'[s].system = scrape[s].system
      /\ scrape'[s].programs = scrape[s].programs
    BY <1>1 DEF IndInv, Shapes, NoScrape
<1>3. UNCHANGED <<aggregatedData, maps>>
    BY <1>1 DEF aggregation
<1>4. /\ pc[s] = "collect" /\ CollectHand(s)'
      /\ \A i \in Kinds, x \in {"total", "programs"} :
            Took(s, i, x)' => Took(s, i, x)
    BY <1>1, <1>2, <1>3, CollectorGoesOn
<1>5. ScrapeTypes(s)'
    BY <1>1, <1>2 DEF ScrapeInv, ScrapeTypes
<1>6. Taken(s)'
    BY <1>2, <1>3, <1>4 DEF ScrapeInv, Taken, Slack
<1>7. CollectAndClean(s) /\ pc'[s] = "collect"
    BY <1>1, <1>4 DEF CollectAndClean
<1>8. QED
    BY <1>1, <1>2, <1>4, <1>5, <1>6, <1>7, ScrapeReads

LEMMA CollectProgramsSums ==
    ASSUME IndInv, Counted, Pool, NEW s \in Scrapers, ScrapeInv(s),
           CollectPrograms(s)
    PROVE  Pool' /\ ScrapeInv(s)'
<1> DEFINE kind == loc[s].kind
           m == maps[scrape[s].held]
           read == [g \in DOMAIN m |-> m[g][kind]]
<1>1. /\ At(s, "programs") /\ loc' = Rest(s) /\ UNCHANGED <<pc, aggregation>>
      /\ scrape' = [scrape EXCEPT ![s].held = None, ![s].programs[kind] = read]
    BY DEF CollectPrograms
<1>2. /\ scrape'[s].toCollect = scrape[s].toCollect
      /\ scrape'[s].before = scrape[s].before
      /\ scrape'[s].system = scrape[s].system
      /\ scrape'[s].programs = [scrape[s].programs EXCEPT ![kind] = read]
    <2> HIDE DEF kind, read
    <2>1. QED
        BY <1>1 DEF IndInv, Shapes, NoScrape
<1>3. UNCHANGED <<aggregatedData, maps>>
    BY <1>1 DEF aggregation
<1>4. ~Pends(loc'[s], "programs")
    <2>1. /\ loc[s].todo \in CollectSteps(loc[s].kind) /\ Head(loc[s].todo) = "programs"
        BY <1>1, AtWork DEF At, ScrapeInv, CollectHand
    <2>2. loc'[s].todo = Tail(loc[s].todo)
        BY <1>1, Constants DEF IndInv, Shapes, Rest, Task
    <2>3. QED
        BY <2>1, <2>2, CollectRest
<1>5. /\ pc[s] = "collect" /\ CollectHand(s)' /\ kind \in Kinds
      /\ \A i \in Kinds, x \in {"total", "programs"} :
            Took(s, i, x)' => Took(s, i, x) \/ (i = kind /\ x = "programs")
      /\ scrape[s].held = aggregatedData
    BY <1>1, <1>2, <1>3, <1>4, CollectorGoesOn
<1>6. DOMAIN scrape[s].programs = Kinds
    BY DEF ScrapeInv, ScrapeTypes
<1>7. ScrapeTypes(s)'
    BY <1>1, <1>2, <1>5 DEF ScrapeInv, ScrapeTypes
<1>8. \A i \in Kinds : scrape'[s].programs[i] =
            IF i = kind THEN read ELSE scrape[s].programs[i]
    <2> HIDE DEF read, kind
    <2>1. QED
        BY <1>2, <1>6
<1>9. Taken(s)'
    <2>1. ASSUME NEW i \in Kinds, Took(s, i, "programs")'
          PROVE  scrape'[s].programs[i] = [g \in DOMAIN maps[aggregatedData] |->
                                            maps[aggregatedData][g][i]]
        <3>1. CASE i = kind
            BY <1>5, <1>8, <3>1
        <3>2. CASE i # kind
            <4>1. Took(s, i, "programs")
                BY <1>5, <2>1, <3>2
            <4>2. QED
                BY <1>8, <3>2, <4>1 DEF ScrapeInv, Taken
        <3>3. QED
            BY <3>1, <3>2
    <2>2. ASSUME NEW i \in Kinds, Took(s, i, "total")', i \in Measured
          PROVE  AllSums(maps[aggregatedData], i) <= scrape'[s].system[i] + Slack(i)
        <3>1. Took(s, i, "total")
            BY <1>5, <2>2
        <3>2. QED
            BY <1>2, <2>2, <3>1 DEF ScrapeInv, Taken
    <2>3. QED
        BY <1>3, <2>1, <2>2 DEF Taken, Slack
<1>10. CollectAndClean(s) /\ pc'[s] = "collect"
    BY <1>1, <1>5 DEF CollectAndClean
<1>11. QED
    BY <1>1, <1>2, <1>5, <1>7, <1>9, <1>10, ScrapeReads

\* When every collector has read, everything is taken, and the cleanup changes
\* nothing of it.
LEMMA CleanupSums ==
    ASSUME IndInv, IndInv', Counted, Pool, NEW s \in Scrapers, ScrapeInv(s),
           BeginCleanup(s) \/ Untrack(s) \/ Recycle(s)
    PROVE  Pool' /\ ScrapeInv(s)'
<1>1. UNCHANGED aggregation
    BY DEF BeginCleanup, Untrack, Recycle
<1>2. /\ pc[s] \in {"collect", "cleanup"} /\ pc'[s] = "cleanup"
      /\ pc[s] = "collect" => BeginCleanup(s)
    <2>1. Recycle(s) => pc[s] = "cleanup"
        <3>1. Recycle(s) => Recycling(s)
            BY AtWork DEF Recycle, Recycling
        <3>2. QED
            BY <3>1 DEF IndInv, ScraperHand
    <2>2. QED
        BY <2>1 DEF BeginCleanup, Untrack, Recycle, InScrape, Go, IndInv, Shapes
<1>3. /\ scrape'[s].before = scrape[s].before
      /\ scrape'[s].system = scrape[s].system
      /\ scrape'[s].programs = scrape[s].programs
    <2>1. \/ UNCHANGED scrape
          \/ \E T : scrape' = [scrape EXCEPT ![s].toVisit = T]
        <3>1. CASE BeginCleanup(s)
            BY <3>1 DEF BeginCleanup
        <3>2. CASE Untrack(s)
            <4>1. PICK p : scrape' = [scrape EXCEPT ![s].toVisit = @ \ {p}]
                BY <3>2 DEF Untrack
            <4>2. QED
                BY <4>1
        <3>3. CASE Recycle(s)
            BY <3>3 DEF Recycle
        <3>4. QED
            BY <3>1, <3>2, <3>3
    <2>2. DOMAIN scrape = Scrapers /\ DOMAIN scrape[s] = DOMAIN NoScrape
        BY DEF IndInv, Shapes
    <2>3. QED
        BY <2>1, <2>2 DEF NoScrape
<1>4. ScrapeTypes(s)'
    BY <1>2, <1>3 DEF ScrapeInv, ScrapeTypes
<1>5. CollectHand(s)'
    <2>1. Free(s)' \/ Recycling(s)'
        BY <1>2 DEF IndInv, ScraperHand
    <2>2. \A step \in {"total", "hold", "programs"} : ~Pends(loc'[s], step)
        <3>1. CASE Free(s)'
            BY <3>1, NothingPends DEF Free
        <3>2. CASE Recycling(s)'
            <4>1. loc'[s].todo = <<"recycle">>
                BY <3>2 DEF IndInv, ScraperHand
            <4>2. QED
                BY <4>1, Plans
        <3>3. QED
            BY <2>1, <3>1, <3>2
    <2>3. QED
        BY <1>2, <2>2 DEF CollectHand
<1>6. \A i, x : i \in Kinds => Took(s, i, x)
    <2>1. CASE pc[s] = "cleanup"
        BY <2>1 DEF Took
    <2>2. CASE pc[s] = "collect"
        <3>1. Free(s) /\ scrape[s].toCollect = {}
            BY <1>2, <2>2 DEF BeginCleanup, InScrape
        <3>2. \A x : ~Pends(loc[s], x)
            BY <3>1, NothingPends DEF Free
        <3>3. QED
            BY <2>2, <3>1, <3>2 DEF Took
    <2>3. QED
        BY <1>2, <2>1, <2>2
<1>7. Taken(s)'
    BY <1>1, <1>3, <1>6 DEF ScrapeInv, Taken, Slack, aggregation
<1>8. CollectAndClean(s)
    BY DEF CollectAndClean
<1>9. QED
    BY <1>1, <1>2, <1>3, <1>4, <1>5, <1>7, <1>8, ScrapeReads

-----------------------------------------------------------------------------
(* The invariant of the counts.                                            *)

LEMMA InitSums ==
    ASSUME Init, IndInv
    PROVE  SumInv
<1>1. /\ counts = [x \in Objs |-> NoCounts] /\ systemWide = [i \in Kinds |-> 0]
      /\ happened = NoCounts /\ loc = [g \in Goroutines |-> Idle]
      /\ pc = [s \in Scrapers |-> "idle"]
      /\ scrape = [s \in Scrapers |-> NoScrape]
      /\ aggregatedData = None /\ maps = [m \in Maps |-> NoPrograms]
      /\ aggregationDataPool = Maps
      /\ phase = [p \in Procs |-> IF p = SystemProc THEN "live" ELSE "new"]
    BY DEF Init
<1>2. ASSUME NEW g \in Goroutines, NEW step PROVE ~Pends(loc[g], step)
    BY <1>1, NothingPends
<1>3. CounterTypes
    BY <1>1 DEF CounterTypes, NoCounts, NoBag, Bags
<1>4. EventHand
    BY <1>2, Constants DEF EventHand, Publishing
<1>5. NewUntracked
    BY Constants DEF Init, NewUntracked
<1>6. Held \in Tallies /\ \A i \in Kinds, k \in Keys, x \in Keys : Held[i][k][x] = 0
    <2>1. Held \in Tallies
        BY HeldType DEF IndInv
    <2>2. ASSUME NEW i \in Kinds, NEW k \in Keys, NEW x \in Keys
          PROVE  Held[i][k][x] = 0
        BY <1>1, HeldIs DEF IndInv, Shapes, NoCounts, NoBag
    <2>3. QED
        BY <2>1, <2>2
<1>7. ASSUME NEW i \in Kinds, NEW k \in Keys
      PROVE  SumOver(Held[i][k], Keys) = 0
    <2> DEFINE f == [x \in Keys |-> IF x \in Keys THEN Held[i][k][x] ELSE 0]
    <2>1. IsFiniteSet(Keys) /\ f \in [Keys -> Nat] /\ \A x \in Keys : f[x] = 0
        BY <1>6, Finite DEF Tallies
    <2>2. DOMAIN f = Keys
        OBVIOUS
    <2> HIDE DEF f
    <2>3. Total(f) = 0
        BY <2>1, <2>2, SumOfNat, TotalOfNone
    <2>4. QED
        BY <2>3 DEF SumOver, f
<1>8. ASSUME NEW i \in Kinds PROVE SumOfAll(Held[i]) = 0
    <2> DEFINE f == [k \in Procs |-> SumOver(Held[i][k], Keys)]
    <2>1. IsFiniteSet(Procs) /\ f \in [Procs -> Nat] /\ \A x \in Procs : f[x] = 0
        BY <1>7, Finite, Constants
    <2>2. DOMAIN f = Procs
        OBVIOUS
    <2> HIDE DEF f
    <2>3. Total(f) = 0
        BY <2>1, <2>2, SumOfNat, TotalOfNone
    <2>4. QED
        BY <2>3 DEF SumOfAll, f
<1>9. \A i : /\ ToCount(loc["callback"], i, "process") = 0
             /\ ToCount(loc["callback"], i, "system") = 0
             /\ \A k : ToCountFor(loc["callback"], i, k) = 0
    BY <1>2, NothingToCount, Constants
<1>10. AllHappened
    BY <1>1, <1>7, <1>9, Constants DEF AllHappened, NoCounts, NoBag
<1>11. AllMeasured
    BY <1>1, <1>8, <1>9 DEF AllMeasured, Measured
<1>12. Pool
    <2>1. None \notin Maps
        BY ProcsAssumption
    <2>2. NoPrograms \in MapsOf
        BY SumsOfNone
    <2>3. QED
        BY <1>1, <2>1, <2>2 DEF Pool
<1>13. ASSUME NEW s \in Scrapers PROVE ScrapeInv(s)
    <2>1. pc[s] = "idle" /\ scrape[s] = NoScrape
        BY <1>1
    <2>2. /\ pc[s] \notin {"services", "apply", "get", "clear", "collect",
                           "cleanup", "sum"}
          /\ pc[s] \notin Building /\ pc[s] \notin Frozen
        BY <2>1 DEF Building, AtProcess, Frozen
    <2>3. ScrapeTypes(s)
        BY <2>1 DEF ScrapeTypes, NoScrape, NoCounts, NoBag, Bags
    <2>4. CollectHand(s)
        BY <1>2, <2>2, Constants DEF CollectHand
    <2>5. QED
        BY <2>2, <2>3, <2>4 DEF ScrapeInv, OwnMaps, BeforeVisits, WhileVisiting,
            WhileInstalled, Taken, Took
<1>14. QED
    BY <1>3, <1>4, <1>5, <1>10, <1>11, <1>12, <1>13 DEF SumInv, Counted

\* The callback, whatever it does, counts what has happened and leaves the maps
\* alone.
LEMMA CallbackCounted ==
    ASSUME IndInv, IndInv', Counted,
           CallbackStarts \/ CallbackWorks \/ Waiting \/ UNCHANGED vars
    PROVE  Counted' /\ Grows
<1>1. CASE \/ \E p \in Procs : MarkProcessForDeletion(p)
           \/ \E t \in Tags : RegisterServiceTag(t)
           \/ Waiting \/ UNCHANGED vars
    <2>1. UNCHANGED <<instanceData, counts, happened, systemWide, loc>>
        BY <1>1 DEF MarkProcessForDeletion, RegisterServiceTag, Waiting, vars,
            tables, system
    <2>2. /\ phase' \in [Procs -> {"new", "live", "ended"}]
          /\ \A p \in Procs : phase'[p] = "new" <=> phase[p] = "new"
        <3>1. phase \in [Procs -> {"new", "live", "ended"}]
            BY DEF Counted, CounterTypes
        <3>2. CASE \E p \in Procs : MarkProcessForDeletion(p)
            BY <3>1, <3>2 DEF MarkProcessForDeletion
        <3>3. CASE UNCHANGED phase
            BY <3>1, <3>3
        <3>4. QED
            BY <1>1, <3>2, <3>3 DEF RegisterServiceTag, Waiting, vars, system
    <2>3. Publishing => loc["callback"].proc \in Procs
        BY DEF IndInv, CallbackHand
    <2>4. Shapes /\ Shapes' /\ CounterTypes
        BY DEF IndInv, Counted
    <2>5. QED
        BY <2>1, <2>2, <2>3, <2>4, OthersCounted, NothingGrows
<1>2. CASE CallbackWorks
    BY <1>2, ResolveCounted, CountSystemWideCounted, CountForProcessCounted,
       PublishCounted DEF CallbackWorks
<1>3. CASE \/ \E kind \in Kinds, p \in Procs : Event(kind, p)
           \/ \E p \in Procs : AddProcess(p)
           \/ \E p \in Procs, t \in Tags : AddThread(p, t)
    BY <1>3, EventCounted, AddProcessCounted, AddThreadCounted
<1>4. QED
    BY <1>1, <1>2, <1>3 DEF CallbackStarts

LEMMA CallbackAside ==
    ASSUME IndInv, CallbackStarts \/ CallbackWorks \/ Waiting \/ UNCHANGED vars
    PROVE  /\ UNCHANGED <<pc, scrape, maps, aggregatedData, aggregationDataPool>>
           /\ \A s \in Scrapers : loc'[s] = loc[s]
<1>1. UNCHANGED <<pc, scrape, maps, aggregatedData, aggregationDataPool>>
    BY DEF CallbackStarts, CallbackWorks, Event, AddProcess, AddThread,
        MarkProcessForDeletion, RegisterServiceTag, ResolveProcess,
        CountSystemWide, CountForProcess, PublishProcess, Waiting, vars,
        aggregation
<1>2. UNCHANGED loc \/ \E l : loc' = [loc EXCEPT !["callback"] = l]
    <2>1. CASE ResolveProcess
        <3>1. PICK o : loc' = Stop("callback")
                \/ loc' = [Rest("callback") EXCEPT !["callback"].obj = o]
            BY <2>1 DEF ResolveProcess
        <3>2. \E l : Rest("callback") = [loc EXCEPT !["callback"] = l]
            BY Constants DEF Rest, IndInv, Shapes
        <3>3. loc \in [Goroutines -> Task] /\ "callback" \in Goroutines
            BY Constants DEF IndInv, Shapes
        <3>4. QED
            BY <3>1, <3>2, <3>3 DEF Stop
    <2>2. CASE CountSystemWide \/ CountForProcess
        <3>1. loc' = [loc EXCEPT !["callback"].todo = Tail(@)]
            BY <2>2 DEF CountSystemWide, CountForProcess, Rest
        <3>2. QED
            BY <3>1
    <2>3. CASE PublishProcess
        BY <2>3 DEF PublishProcess, Stop
    <2>4. CASE CallbackStarts
        BY <2>4 DEF CallbackStarts, Event, AddProcess, AddThread,
            MarkProcessForDeletion, RegisterServiceTag
    <2>5. CASE Waiting \/ UNCHANGED vars
        BY <2>5 DEF Waiting, vars
    <2>6. QED
        BY <2>1, <2>2, <2>3, <2>4, <2>5 DEF CallbackWorks
<1>3. QED
    BY <1>1, <1>2, Constants DEF IndInv, Shapes

\* A scrape that names a process is neither at a process nor collecting.
LEMMA NamingAside ==
    ASSUME IndInv, Counted, NEW g \in Goroutines, NEW s \in Scrapers,
           ScrapeInv(s), StoreTag(g) \/ LookUpService(g) \/ StoreService(g)
    PROVE  /\ UNCHANGED <<pc, scrape, maps, aggregatedData, aggregationDataPool>>
           /\ \/ loc'[s] = loc[s]
              \/ /\ pc[s] \notin AtProcess \union {"collect"}
                 /\ \A step \in {"total", "hold", "programs"} :
                        ~Pends(loc'[s], step)
<1>1. UNCHANGED <<pc, scrape, maps, aggregatedData, aggregationDataPool>>
    BY DEF StoreTag, LookUpService, StoreService, aggregation
<1>2. loc' = Rest(g) \/ loc' = Stop(g)
    BY DEF StoreTag, LookUpService, StoreService
<1>3. loc \in [Goroutines -> Task]
    BY DEF IndInv, Shapes
<1>4. CASE g # s
    BY <1>1, <1>2, <1>3, <1>4, Constants DEF Rest, Stop
<1>5. CASE g = s
    <2>1. PICK step \in {"tag", "lookup", "name"} : At(s, step)
        BY <1>5 DEF StoreTag, LookUpService, StoreService
    <2>2. loc[s] \in Task /\ ~Free(s) /\ Head(loc[s].todo) = step
        BY <2>1, AtWork DEF At
    <2>3. pc[s] \notin AtProcess
        BY <2>2 DEF IndInv, ScraperHand, AtProcess
    <2>4. pc[s] # "collect"
        <3>1. SUFFICES ASSUME pc[s] = "collect" PROVE FALSE
            OBVIOUS
        <3>2. loc[s].todo \in CollectSteps(loc[s].kind)
            BY <2>2, <3>1 DEF ScrapeInv, CollectHand
        <3>3. \A a, b, c : /\ loc[s].todo = <<a, b, c>> => Head(loc[s].todo) = a
                           /\ loc[s].todo = <<a, b>> => Head(loc[s].todo) = a
                           /\ loc[s].todo = <<a>> => Head(loc[s].todo) = a
            BY Lists
        <3>4. Head(loc[s].todo) \in {"total", "hold", "programs"}
            BY <3>2, <3>3 DEF CollectSteps
        <3>5. QED
            BY <2>2, <3>4
    <2>5. \A x \in {"total", "hold", "programs"} : ~Pends(loc[s], x)
        BY <2>4 DEF ScrapeInv, CollectHand
    <2>6. \A x : Pends(loc'[s], x) => Pends(loc[s], x)
        <3>1. CASE loc' = Stop(g)
            <4>1. loc'[s] = Idle
                BY <1>3, <1>5, <3>1, Constants DEF Stop
            <4>2. QED
                BY <4>1, NothingPends
        <3>2. CASE loc' = Rest(g)
            <4>1. loc'[s] = [loc[s] EXCEPT !.todo = Tail(@)]
                BY <1>3, <1>5, <3>2, Constants DEF Rest
            <4>2. loc[s].todo # <<>>
                BY <2>2 DEF Free
            <4>3. QED
                BY <2>2, <4>1, <4>2, StepTaken
        <3>3. QED
            BY <1>2, <3>1, <3>2
    <2>7. QED
        BY <1>1, <2>3, <2>4, <2>5, <2>6
<1>6. QED
    BY <1>4, <1>5

LEMMA ScraperSums ==
    ASSUME IndInv, IndInv', Visits, OwnServices, Counted, Pool,
           NEW s \in Scrapers, ScrapeInv(s),
           AggregateMetrics(s) \/ CollectAndClean(s)
    PROVE  Pool' /\ ScrapeInv(s)'
<1>1. CASE \/ BeginScrape(s) \/ EndScrape(s) \/ SnapshotServices(s)
           \/ ApplyService(s) \/ ServicesApplied(s)
    <2>1. ScrapeInv(s)'
        BY <1>1, BeginScrapeSums, EndScrapeSums, ServicesSums
    <2>2. UNCHANGED aggregation
        BY <1>1 DEF BeginScrape, EndScrape, SnapshotServices, ApplyService,
            ServicesApplied
    <2>3. QED
        BY <2>1, <2>2 DEF Pool, aggregation
<1>2. CASE AggregateMetrics(s)
    BY <1>1, <1>2, GetMapSums, VisitProcessSums, ReadKeySums, SumCountersSums,
       SwapSums, ClearOldSums DEF AggregateMetrics
<1>3. CASE CollectAndClean(s)
    BY <1>1, <1>3, CollectSums, CollectTotalSums, HoldMapSums,
       CollectProgramsSums, CleanupSums DEF CollectAndClean
<1>4. QED
    BY <1>2, <1>3

LEMMA NextSums ==
    ASSUME OneScraper
    PROVE  IndInv /\ IndInv' /\ Visits /\ OwnServices /\ SumInv /\ [Next]_vars
                => SumInv'
<1> SUFFICES ASSUME IndInv, IndInv', Visits, OwnServices, SumInv, [Next]_vars
             PROVE  SumInv'
    OBVIOUS
<1>1. Counted /\ Pool /\ Shapes' /\ \A s \in Scrapers : ScrapeInv(s)
    BY DEF SumInv, IndInv
<1>2. CASE CallbackStarts \/ CallbackWorks \/ Waiting \/ UNCHANGED vars
    <2>1. Counted' /\ Grows
        BY <1>1, <1>2, CallbackCounted
    <2>2. UNCHANGED <<pc, scrape, maps, aggregatedData, aggregationDataPool>>
        BY <1>2, CallbackAside
    <2>3. ASSUME NEW s \in Scrapers PROVE ScrapeInv(s)'
        <3>1. loc'[s] = loc[s]
            BY <1>2, CallbackAside
        <3>2. QED
            BY <1>1, <2>1, <2>2, <3>1, WhileCallbackWorks
    <2>4. Pool'
        BY <1>1, <2>2 DEF Pool
    <2>5. QED
        BY <2>1, <2>3, <2>4 DEF SumInv
<1>3. CASE \E g \in Goroutines :
            StoreTag(g) \/ LookUpService(g) \/ StoreService(g)
    <2>1. PICK g \in Goroutines :
            StoreTag(g) \/ LookUpService(g) \/ StoreService(g)
        BY <1>3
    <2>2. Counted' /\ Grows
        BY <1>1, <2>1, NamingCounted
    <2>3. ASSUME NEW s \in Scrapers PROVE ScrapeInv(s)'
        BY <1>1, <2>1, <2>2, NamingAside, WhileCallbackWorks
    <2>4. UNCHANGED <<maps, aggregatedData, aggregationDataPool>>
        BY <2>1 DEF StoreTag, LookUpService, StoreService, aggregation
    <2>5. Pool'
        BY <1>1, <2>4 DEF Pool
    <2>6. QED
        BY <2>2, <2>3, <2>5 DEF SumInv
<1>4. CASE \E s \in Scrapers : AggregateMetrics(s) \/ CollectAndClean(s)
    <2>1. PICK s \in Scrapers : AggregateMetrics(s) \/ CollectAndClean(s)
        BY <1>4
    <2>2. Counted'
        BY <1>1, <2>1, ScraperCounted
    <2>3. Pool' /\ ScrapeInv(s)'
        BY <1>1, <2>1, ScraperSums
    <2>4. ASSUME NEW r \in Scrapers PROVE ScrapeInv(r)'
        <3>1. r = s
            BY DEF OneScraper
        <3>2. QED
            BY <2>3, <3>1
    <2>5. QED
        BY <2>2, <2>3, <2>4 DEF SumInv
<1>5. QED
    BY <1>2, <1>3, <1>4 DEF Next

LEMMA SumInvariant ==
    ASSUME OneScraper
    PROVE  Spec => [](IndInv /\ SumInv)
<1>1. Init => ServiceInv
    BY InitServices
<1>2. IndInv /\ Visits /\ ServiceInv /\ [Next]_vars => ServiceInv'
    BY NextServices
<1>3. Init /\ IndInv => SumInv
    BY InitSums
<1>4. ServiceInv => OwnServices
    BY DEF ServiceInv
<1>5. IndInv /\ IndInv' /\ Visits /\ OwnServices /\ SumInv /\ [Next]_vars
            => SumInv'
    BY NextSums
<1>6. QED
    BY <1>1, <1>2, <1>3, <1>4, <1>5, Invariant, PTL DEF Spec

-----------------------------------------------------------------------------
(* What is exported.                                                       *)

\* After the collectors have read, the programs have what the live map has.
LEMMA ExportedIs ==
    ASSUME IndInv, SumInv, NEW s \in Scrapers, HasExported(s)
    PROVE  /\ WhileInstalled(s) /\ pc[s] \in Frozen
           /\ \A i \in Kinds, k \in Procs : /\ Exported(s, i, k) \in Nat
                    /\ Exported(s, i, k) = Sums(maps[aggregatedData], i, k)
           /\ \A i \in Measured : AllSums(maps[aggregatedData], i)
                                    <= scrape[s].system[i] + Slack(i)
<1> DEFINE m == maps[aggregatedData]
<1>1. pc[s] = "cleanup" /\ pc[s] \in Frozen /\ ScrapeInv(s)
    BY DEF HasExported, Frozen, SumInv
<1>2. m \in MapsOf
    BY <1>1, MapsHave DEF ScrapeInv, OwnMaps, SumInv
<1>3. ASSUME NEW i \in Kinds, NEW k \in Procs
      PROVE  Exported(s, i, k) = Sums(m, i, k) /\ Exported(s, i, k) \in Nat
    <2>1. scrape[s].programs[i] = [g \in DOMAIN m |-> m[g][i]]
        BY <1>1 DEF ScrapeInv, Taken, Took
    <2>2. k \in Keys
        BY Constants
    <2> HIDE DEF m
    <2>3. Exported(s, i, k) = Total([g \in DOMAIN m |-> m[g][i][k]])
        <3>1. DOMAIN scrape[s].programs[i] = DOMAIN m
            BY <2>1
        <3>2. [g \in DOMAIN scrape[s].programs[i] |-> scrape[s].programs[i][g][k]]
                = [g \in DOMAIN m |-> m[g][i][k]]
            BY <2>1, <3>1
        <3>3. QED
            BY <3>2 DEF Exported
    <2>4. QED
        BY <1>2, <2>2, <2>3, SumsTaken, SumsType
<1>4. \A i \in Measured : AllSums(m, i) <= scrape[s].system[i] + Slack(i)
    BY <1>1 DEF ScrapeInv, Taken, Took, Measured
<1>5. QED
    BY <1>1, <1>3, <1>4 DEF ScrapeInv

\* With one scrape at a time, it exports everything that had been counted for a
\* tracked process when it began: what the process had is in the map that is
\* built, or the process is still to be added to it, and the live map stays what
\* it is until the collectors have read it.
THEOREM ExportsComplete == OneScraper => (Spec => []ExportComplete)
<1> SUFFICES ASSUME OneScraper PROVE Spec => []ExportComplete
    OBVIOUS
<1>1. IndInv /\ SumInv => ExportComplete
    <2> SUFFICES ASSUME IndInv, SumInv, NEW s \in Scrapers, HasExported(s),
                        NEW i \in Kinds, NEW k \in Procs
                 PROVE  Exported(s, i, k) >= scrape[s].before[i][k]
        BY DEF ExportComplete
    <2>1. QED
        BY ExportedIs DEF WhileInstalled
<1>2. QED
    BY <1>1, SumInvariant, PTL

\* With one scrape at a time, no event is exported twice in it: a process is
\* added once, to a map that was empty, and what it has has happened, because no
\* object is tracked as two processes.
THEOREM ExportsNotInflated == OneScraper => (Spec => []ExportNotInflated)
<1> SUFFICES ASSUME OneScraper PROVE Spec => []ExportNotInflated
    OBVIOUS
<1>1. IndInv /\ SumInv => ExportNotInflated
    <2> SUFFICES ASSUME IndInv, SumInv, NEW s \in Scrapers, HasExported(s),
                        NEW i \in Kinds, NEW k \in Procs
                 PROVE  Exported(s, i, k) <= happened[i][k]
        BY DEF ExportNotInflated
    <2>1. QED
        BY ExportedIs DEF WhileInstalled
<1>2. QED
    BY <1>1, SumInvariant, PTL

\* With one scrape at a time, the programs never add up to more than the
\* system-wide counter exported beside them, but for the one event that is
\* counted for its process first: the map was built before the counter was read,
\* whichever of the two a collector reads first.
THEOREM ProgramsAddUp == OneScraper => (Spec => []ProgramsWithinSystem)
<1> SUFFICES ASSUME OneScraper PROVE Spec => []ProgramsWithinSystem
    OBVIOUS
<1>1. IndInv /\ SumInv => ProgramsWithinSystem
    <2> SUFFICES ASSUME IndInv, SumInv, NEW s \in Scrapers, HasExported(s),
                        NEW i \in Measured
                 PROVE  Total([k \in Procs |-> Exported(s, i, k)])
                            <= scrape[s].system[i] + Slack(i)
        BY DEF ProgramsWithinSystem, Measured, Slack
    <2>1. i \in Kinds
        BY DEF Measured
    <2>2. [k \in Procs |-> Exported(s, i, k)]
            = [k \in Procs |-> Sums(maps[aggregatedData], i, k)]
        BY <2>1, ExportedIs
    <2>3. QED
        BY <2>2, ExportedIs DEF AllSums
<1>2. QED
    BY <1>1, SumInvariant, PTL

-----------------------------------------------------------------------------
(* The types.                                                              *)

\* A map is taken from the pool by the scrape that builds in it, and an object
\* that is tracked, about to be published or visited belongs to a process, so
\* that a program is made of it.
Values ==
    /\ serviceTags \subseteq Tags /\ systemWide \in [Kinds -> Nat]
    /\ serviceListOnce \in {"todo", "running", "done"}
    /\ cleanupMu \in Scrapers \union {None}
    /\ phase \in [Procs -> {"new", "live", "ended"}]
    /\ happened \in [Kinds -> Bags] /\ left \in [Inputs -> Nat]
MapsInPlace ==
    /\ aggregatedData \in Maps \union {None}
    /\ aggregationDataPool \subseteq Maps
    /\ DOMAIN maps = Maps /\ \A m \in Maps : DOMAIN maps[m] \subseteq Programs
MapsOfScrape(s) ==
    /\ scrape[s].building \in Maps <=> pc[s] \in Building
    /\ scrape[s].old \in Maps \union {None}
    /\ pc[s] = "sum" => scrape[s].program \in Programs
Identified(o) == info[o].proc \in Keys
HandsIdentified ==
    /\ \A k \in Keys : instanceData[k] # None => Identified(instanceData[k])
    /\ Publishing => Identified(loc["callback"].obj)
    /\ \A s \in Scrapers : pc[s] \in AtProcess => Identified(loc[s].obj)
TypesInv ==
    /\ Values /\ MapsInPlace /\ HandsIdentified
    /\ \A s \in Scrapers : MapsOfScrape(s)

LEMMA InitTypes == Init => TypesInv
<1> SUFFICES ASSUME Init PROVE TypesInv
    OBVIOUS
<1>1. Values
    BY OptionsAssumption DEF Init, Values, NoCounts, NoBag, Bags
<1>2. MapsInPlace
    BY DEF Init, MapsInPlace, NoPrograms
<1>3. \A s \in Scrapers : MapsOfScrape(s)
    BY ProcsAssumption DEF Init, MapsOfScrape, NoScrape, Building, AtProcess
<1>4. HandsIdentified
    <2>1. \A k \in Keys : instanceData[k] # None => Identified(instanceData[k])
        <3>1. PICK u, o \in Objs :
                /\ u # o
                /\ instanceData = [k \in Keys |-> CASE k = UnknownProc -> u
                                                    [] k = SystemProc -> o
                                                    [] OTHER -> None]
                /\ info = [x \in Objs |->
                        [proc |-> CASE x = u -> UnknownProc
                                    [] x = o -> SystemProc
                                    [] OTHER -> None,
                         tag |-> None, service |-> None]]
            BY DEF Init
        <3>2. QED
            BY <3>1, Constants DEF Identified
    <2>2. /\ loc["callback"] = Idle
          /\ \A s \in Scrapers : pc[s] \notin AtProcess
        BY Constants DEF Init, AtProcess
    <2>3. QED
        BY <2>1, <2>2, NothingPends DEF HandsIdentified, Publishing
<1>5. QED
    BY <1>1, <1>2, <1>3, <1>4 DEF TypesInv

\* The values: a tag is stored for its service only when it is one.
LEMMA UsesTypes ==
    ASSUME Values, NEW input \in Inputs, Uses(input)
    PROVE  left' \in [Inputs -> Nat]
<1>1. left \in [Inputs -> Nat] /\ left[input] - 1 \in Nat
    BY DEF Values, Uses
<1>2. QED
    BY <1>1 DEF Uses

LEMMA NextValues == IndInv /\ Values /\ [Next]_vars => Values'
<1> SUFFICES ASSUME IndInv, Values, [Next]_vars
             PROVE  Values'
    OBVIOUS
<1> DEFINE others == <<systemWide, serviceListOnce, cleanupMu, phase, happened,
                       left>>
<1>1. ASSUME UNCHANGED <<serviceTags, others>> PROVE Values'
    BY <1>1 DEF Values
<1>2. CASE UNCHANGED vars \/ Waiting
    BY <1>1, <1>2 DEF Waiting, vars, system
<1>3. CASE CallbackStarts
    <2>1. ASSUME NEW kind \in Kinds, NEW p \in Procs, Event(kind, p)
          PROVE  Values'
        <3>1. happened' \in [Kinds -> Bags]
            <4>1. [happened[kind] EXCEPT ![p] = @ + 1] \in Bags
                BY Constants DEF Values, Bags
            <4>2. QED
                BY <2>1, <4>1 DEF Event, Values
        <3>2. left' \in [Inputs -> Nat]
            BY <2>1, UsesTypes DEF Inputs, Event
        <3>3. QED
            BY <2>1, <3>1, <3>2 DEF Event, Values
    <2>2. ASSUME NEW p \in Procs, AddProcess(p) \/ MarkProcessForDeletion(p)
          PROVE  Values'
        BY <2>2 DEF AddProcess, MarkProcessForDeletion, Values
    <2>3. ASSUME NEW t \in Tags, RegisterServiceTag(t)
          PROVE  Values'
        BY <2>3, UsesTypes DEF Inputs, RegisterServiceTag, Values
    <2>4. ASSUME NEW p \in Procs, NEW t \in Tags, AddThread(p, t)
          PROVE  Values'
        BY <2>4, UsesTypes DEF Inputs, AddThread, Values
    <2>5. QED
        BY <1>3, <2>1, <2>2, <2>3, <2>4 DEF CallbackStarts
<1>4. CASE CallbackWorks
    <2>1. CASE CountSystemWide
        <3>1. systemWide' \in [Kinds -> Nat]
            <4> DEFINE kind == loc["callback"].kind
            <4>1. kind \in Kinds => systemWide[kind] + 1 \in Nat
                BY DEF Values
            <4>2. \/ systemWide' = systemWide
                  \/ systemWide' = [systemWide EXCEPT ![kind] = @ + 1]
                BY <2>1 DEF CountSystemWide
            <4> HIDE DEF kind
            <4>3. QED
                BY <4>1, <4>2 DEF Values
        <3>2. QED
            BY <2>1, <3>1 DEF CountSystemWide, Values, system
    <2>2. CASE ResolveProcess \/ CountForProcess \/ PublishProcess
        BY <1>1, <2>2 DEF ResolveProcess, CountForProcess, PublishProcess,
            system
    <2>3. QED
        BY <1>4, <2>1, <2>2 DEF CallbackWorks
<1>5. CASE \E g \in Goroutines :
            StoreTag(g) \/ LookUpService(g) \/ StoreService(g)
    BY <1>1, <1>5 DEF StoreTag, LookUpService, StoreService, system
<1>6. ASSUME NEW s \in Scrapers, AggregateMetrics(s)
      PROVE  Values'
    <2>1. CASE BeginScrape(s)
        BY <2>1, UsesTypes DEF Inputs, BeginScrape, Values
    <2>2. CASE ServicesApplied(s)
        BY <2>2 DEF ServicesApplied, Values, system
    <2>3. CASE QueryServiceName(s)
        <3>1. pc[s] = "query" => loc[s].tag \in Tags
            BY DEF IndInv, ScraperHand
        <3>2. QED
            BY <2>3, <3>1 DEF QueryServiceName, InScrape, Values, system
    <2>4. CASE SnapshotServices(s) \/ ApplyService(s) \/ GetMap(s)
        BY <1>1, <2>4 DEF SnapshotServices, ApplyService, GetMap, system
    <2>5. CASE VisitProcess(s) \/ StoreQueried(s) \/ ReadKey(s)
        BY <1>1, <2>5 DEF VisitProcess, StoreQueried, ReadKey, system
    <2>6. CASE SumCounters(s) \/ Swap(s) \/ ClearOld(s)
        BY <1>1, <2>6 DEF SumCounters, Swap, ClearOld, system
    <2>7. QED
        BY <1>6, <2>1, <2>2, <2>3, <2>4, <2>5, <2>6 DEF AggregateMetrics
<1>7. ASSUME NEW s \in Scrapers, CollectAndClean(s)
      PROVE  Values'
    <2>1. CASE BeginCleanup(s) \/ EndScrape(s)
        BY <2>1 DEF BeginCleanup, EndScrape, Values, system
    <2>2. CASE ~(BeginCleanup(s) \/ EndScrape(s))
        BY <1>1, <1>7, <2>2 DEF CollectAndClean, Collect, CollectTotal,
            HoldMap, CollectPrograms, Untrack, Recycle, system
    <2>3. QED
        BY <2>1, <2>2
<1>8. QED
    BY <1>2, <1>3, <1>4, <1>5, <1>6, <1>7 DEF Next

\* The maps.
LEMMA OneScrapesMaps ==
    ASSUME IndInv, \A r \in Scrapers : MapsOfScrape(r), NEW s \in Scrapers,
           NEW x, pc' = Go(s, x), ScrapeOf(s), MapsOfScrape(s)'
    PROVE  \A r \in Scrapers : MapsOfScrape(r)'
BY DEF IndInv, Shapes, Go, ScrapeOf, MapsOfScrape

\* A scrape that stays outside, or inside, of what is built.
LEMMA SameMaps ==
    ASSUME IndInv, \A r \in Scrapers : MapsOfScrape(r), NEW s \in Scrapers,
           NEW x, pc' = Go(s, x), ScrapeOf(s), x # "sum",
           x \in Building <=> pc[s] \in Building,
           scrape'[s].building = scrape[s].building,
           scrape'[s].old = scrape[s].old
    PROVE  \A r \in Scrapers : MapsOfScrape(r)'
<1>1. pc'[s] = x
    BY DEF IndInv, Shapes, Go
<1>2. MapsOfScrape(s)'
    BY <1>1 DEF MapsOfScrape
<1>3. QED
    BY <1>2, OneScrapesMaps

LEMMA NextMaps ==
    ASSUME IndInv, Visits, TypesInv, [Next]_vars
    PROVE  MapsInPlace' /\ \A s \in Scrapers : MapsOfScrape(s)'
<1> USE DEF TypesInv
<1>1. ASSUME UNCHANGED aggregation PROVE MapsInPlace'
    BY <1>1 DEF MapsInPlace, aggregation
<1>2. ASSUME UNCHANGED <<pc, scrape>>
      PROVE  \A s \in Scrapers : MapsOfScrape(s)'
    BY <1>2 DEF MapsOfScrape
<1>3. CASE \/ UNCHANGED vars \/ Waiting \/ CallbackStarts \/ CallbackWorks
           \/ \E g \in Goroutines :
                StoreTag(g) \/ LookUpService(g) \/ StoreService(g)
    <2>1. UNCHANGED <<pc, scrape, aggregation>>
        BY <1>3 DEF vars, Waiting, CallbackStarts, Event, AddProcess,
            MarkProcessForDeletion, RegisterServiceTag, AddThread,
            CallbackWorks, ResolveProcess, CountSystemWide, CountForProcess,
            PublishProcess, StoreTag, LookUpService, StoreService
    <2>2. QED
        BY <1>1, <1>2, <2>1
<1>4. ASSUME NEW s \in Scrapers,
             \/ BeginScrape(s) \/ SnapshotServices(s) \/ ApplyService(s)
             \/ ServicesApplied(s)
      PROVE  MapsInPlace' /\ \A r \in Scrapers : MapsOfScrape(r)'
    <2>1. UNCHANGED aggregation
        BY <1>4 DEF BeginScrape, SnapshotServices, ApplyService,
            ServicesApplied
    <2>2. /\ ScrapeOf(s)
          /\ scrape'[s].building = scrape[s].building
          /\ scrape'[s].old = scrape[s].old
        BY <1>4 DEF ScrapeOf, IndInv, Shapes, NoScrape, BeginScrape,
            SnapshotServices, ApplyService, ServicesApplied
    <2>3. pc = Go(s, pc[s])
        BY DEF Go, IndInv, Shapes
    <2>4. pc[s] \in {"idle", "services", "apply"}
        BY <1>4 DEF BeginScrape, SnapshotServices, ApplyService,
            ServicesApplied, InScrape
    <2>5. \E x \in {"services", "apply", "get"} : pc' = Go(s, x)
        BY <1>4, <2>3 DEF BeginScrape, SnapshotServices, ApplyService,
            ServicesApplied, InScrape
    <2>6. QED
        BY <1>1, <2>1, <2>2, <2>4, <2>5, SameMaps DEF Building, AtProcess
<1>5. ASSUME NEW s \in Scrapers, GetMap(s)
      PROVE  MapsInPlace' /\ \A r \in Scrapers : MapsOfScrape(r)'
    <2>1. PICK m \in aggregationDataPool :
            /\ aggregationDataPool' = aggregationDataPool \ {m}
            /\ scrape' = [scrape EXCEPT ![s].building = m, ![s].toVisit = Keys,
                                        ![s].attempted = {}]
        BY <1>5 DEF GetMap
    <2>2. pc' = Go(s, "range") /\ UNCHANGED <<aggregatedData, maps>>
        BY <1>5 DEF GetMap
    <2>3. MapsInPlace' /\ m \in Maps
        BY <2>1, <2>2 DEF MapsInPlace
    <2>4. /\ ScrapeOf(s)
          /\ scrape'[s].building = m /\ scrape'[s].old = scrape[s].old
        BY <2>1 DEF ScrapeOf, IndInv, Shapes, NoScrape
    <2>5. pc'[s] = "range"
        BY <2>2 DEF Go, IndInv, Shapes
    <2>6. MapsOfScrape(s)'
        BY <2>3, <2>4, <2>5 DEF MapsOfScrape, Building
    <2>7. QED
        BY <2>2, <2>3, <2>4, <2>6, OneScrapesMaps
<1>6. ASSUME NEW s \in Scrapers,
             VisitProcess(s) \/ QueryServiceName(s) \/ StoreQueried(s)
      PROVE  MapsInPlace' /\ \A r \in Scrapers : MapsOfScrape(r)'
    <2>1. UNCHANGED aggregation
        BY <1>6 DEF VisitProcess, QueryServiceName, StoreQueried
    <2>2. /\ ScrapeOf(s)
          /\ scrape'[s].building = scrape[s].building
          /\ scrape'[s].old = scrape[s].old
        <3>1. CASE VisitProcess(s)
            BY <3>1 DEF VisitProcess, ScrapeOf, IndInv, Shapes, NoScrape
        <3>2. CASE QueryServiceName(s) \/ StoreQueried(s)
            BY <3>2 DEF QueryServiceName, StoreQueried, ScrapeOf, IndInv, Shapes
        <3>3. QED
            BY <1>6, <3>1, <3>2
    <2>3. pc = Go(s, pc[s])
        BY DEF Go, IndInv, Shapes
    <2>4. pc[s] \in {"range", "query", "store"}
        BY <1>6 DEF VisitProcess, QueryServiceName, StoreQueried, InScrape
    <2>5. \E x \in {"range", "query", "store", "key"} : pc' = Go(s, x)
        BY <1>6, <2>3, <2>4 DEF VisitProcess, QueryServiceName, StoreQueried
    <2>6. QED
        BY <1>1, <2>1, <2>2, <2>4, <2>5, SameMaps DEF Building, AtProcess
<1>7. ASSUME NEW s \in Scrapers, ReadKey(s)
      PROVE  MapsInPlace' /\ \A r \in Scrapers : MapsOfScrape(r)'
    <2> DEFINE i == info[loc[s].obj]
    <2>1. /\ pc[s] = "key" /\ pc' = Go(s, "sum") /\ UNCHANGED aggregation
          /\ scrape' = [scrape EXCEPT ![s].program =
                            <<ProgramOf[i.proc], i.service>>]
        BY <1>7 DEF ReadKey, InScrape
    <2>2. loc[s].obj \in Objs /\ i.proc \in Keys
        BY <2>1 DEF IndInv, ScraperHand, HandsIdentified, AtProcess, Identified
    <2>3. i.service \in Tags \union {None}
        BY <2>2 DEF IndInv, Shapes, InfoRec
    <2> HIDE DEF i
    <2>4. <<ProgramOf[i.proc], i.service>> \in Programs
        BY <2>2, <2>3 DEF Programs
    <2>5. /\ ScrapeOf(s)
          /\ scrape'[s].building = scrape[s].building
          /\ scrape'[s].old = scrape[s].old
          /\ scrape'[s].program = <<ProgramOf[i.proc], i.service>>
        BY <2>1 DEF ScrapeOf, IndInv, Shapes, NoScrape
    <2>6. pc'[s] = "sum"
        BY <2>1 DEF Go, IndInv, Shapes
    <2>7. MapsOfScrape(s)'
        BY <2>1, <2>4, <2>5, <2>6 DEF MapsOfScrape, Building, AtProcess
    <2>8. QED
        BY <1>1, <2>1, <2>5, <2>7, OneScrapesMaps
<1>8. ASSUME NEW s \in Scrapers, SumCounters(s)
      PROVE  MapsInPlace' /\ \A r \in Scrapers : MapsOfScrape(r)'
    <2> DEFINE m == scrape[s].building
               g == scrape[s].program
               own == counts[loc[s].obj]
    <2>1. /\ pc[s] = "sum" /\ pc' = Go(s, "range")
          /\ UNCHANGED <<scrape, aggregatedData, aggregationDataPool>>
          /\ maps' = [maps EXCEPT ![m] = Added(@, g, own)]
        BY <1>8 DEF SumCounters, InScrape
    <2>2. m \in Maps /\ g \in Programs
        BY <2>1 DEF MapsOfScrape, Building, AtProcess
    <2> HIDE DEF m, g, own
    <2>3. DOMAIN Added(maps[m], g, own) = DOMAIN maps[m] \union {g}
        BY DEF Added
    <2>4. MapsInPlace'
        BY <2>1, <2>2, <2>3 DEF MapsInPlace
    <2>5. ScrapeOf(s)
        BY <2>1 DEF ScrapeOf, IndInv, Shapes
    <2>6. QED
        BY <2>1, <2>4, <2>5, SameMaps DEF Building, AtProcess
<1>9. ASSUME NEW s \in Scrapers, Swap(s)
      PROVE  MapsInPlace' /\ \A r \in Scrapers : MapsOfScrape(r)'
    <2>1. /\ pc[s] = "range" /\ pc' = Go(s, "clear")
          /\ aggregatedData' = scrape[s].building /\ scrape' = Installed(s)
          /\ UNCHANGED <<maps, aggregationDataPool>>
        BY <1>9 DEF Swap, InScrape
    <2>2. scrape[s].building \in Maps
        BY <2>1 DEF MapsOfScrape, Building
    <2>3. MapsInPlace'
        BY <2>1, <2>2 DEF MapsInPlace
    <2>4. /\ ScrapeOf(s)
          /\ scrape'[s].building = None /\ scrape'[s].old = aggregatedData
        BY <2>1 DEF ScrapeOf, Installed, IndInv, Shapes, NoScrape
    <2>5. pc'[s] = "clear" /\ None \notin Maps
        BY <2>1, ProcsAssumption DEF Go, IndInv, Shapes
    <2>6. MapsOfScrape(s)'
        BY <2>4, <2>5 DEF MapsOfScrape, MapsInPlace, Building, AtProcess
    <2>7. QED
        BY <2>1, <2>3, <2>4, <2>6, OneScrapesMaps
<1>10. ASSUME NEW s \in Scrapers, ClearOld(s)
       PROVE  MapsInPlace' /\ \A r \in Scrapers : MapsOfScrape(r)'
    <2>1. /\ pc[s] = "clear" /\ pc' = Go(s, "collect")
          /\ scrape' = [scrape EXCEPT ![s].old = None, ![s].toCollect = Kinds]
          /\ UNCHANGED aggregatedData
        BY <1>10 DEF ClearOld, InScrape
    <2>2. MapsInPlace'
        <3> DEFINE old == scrape[s].old
        <3>1. CASE old = None
            BY <1>10, <2>1, <3>1 DEF ClearOld, MapsInPlace
        <3>2. CASE old # None
            <4>1. old \in Maps
                BY <3>2 DEF MapsOfScrape
            <4>2. /\ maps' = [maps EXCEPT ![old] = NoPrograms]
                  /\ aggregationDataPool' = aggregationDataPool \union {old}
                BY <1>10, <3>2 DEF ClearOld, Cleared
            <4>3. DOMAIN NoPrograms = {}
                BY DEF NoPrograms
            <4> HIDE DEF old
            <4>4. QED
                BY <2>1, <4>1, <4>2, <4>3 DEF MapsInPlace
        <3>3. QED
            BY <3>1, <3>2
    <2>3. /\ ScrapeOf(s) /\ scrape'[s].old = None
          /\ scrape'[s].building = scrape[s].building
        BY <2>1 DEF ScrapeOf, IndInv, Shapes, NoScrape
    <2>4. pc'[s] = "collect"
        BY <2>1 DEF Go, IndInv, Shapes
    <2>5. MapsOfScrape(s)'
        BY <2>1, <2>3, <2>4 DEF MapsOfScrape, Building, AtProcess
    <2>6. QED
        BY <2>1, <2>2, <2>3, <2>5, OneScrapesMaps
<1>11. ASSUME NEW s \in Scrapers, CollectAndClean(s)
       PROVE  MapsInPlace' /\ \A r \in Scrapers : MapsOfScrape(r)'
    <2>1. UNCHANGED aggregation
        BY <1>11 DEF CollectAndClean, Collect, CollectTotal, HoldMap,
            CollectPrograms, BeginCleanup, Untrack, Recycle, EndScrape
    <2>2. ScrapeOf(s)
        BY <1>11 DEF ScrapeOf, IndInv, Shapes, CollectAndClean, Collect,
            CollectTotal, HoldMap, CollectPrograms, BeginCleanup, Untrack,
            Recycle, EndScrape
    <2>3. CASE EndScrape(s)
        <3>1. pc'[s] = "idle" /\ scrape'[s] = NoScrape /\ pc' = Go(s, "idle")
            BY <2>3 DEF EndScrape, Go, IndInv, Shapes
        <3>2. MapsOfScrape(s)'
            BY <3>1, ProcsAssumption
               DEF MapsOfScrape, NoScrape, Building, AtProcess
        <3>3. QED
            BY <1>1, <2>1, <2>2, <3>1, <3>2, OneScrapesMaps
    <2>4. CASE BeginCleanup(s)
        <3>1. /\ pc[s] = "collect" /\ pc' = Go(s, "cleanup")
              /\ scrape'[s].building = scrape[s].building
              /\ scrape'[s].old = scrape[s].old
            BY <2>4 DEF BeginCleanup, InScrape, IndInv, Shapes, NoScrape
        <3>2. QED
            BY <1>1, <2>1, <2>2, <3>1, SameMaps DEF Building, AtProcess
    <2>5. CASE ~(BeginCleanup(s) \/ EndScrape(s))
        <3>1. UNCHANGED pc
            BY <1>11, <2>5 DEF CollectAndClean, Collect, CollectTotal, HoldMap,
                CollectPrograms, Untrack, Recycle
        <3>2. /\ scrape'[s].building = scrape[s].building
              /\ scrape'[s].old = scrape[s].old
              /\ scrape'[s].program = scrape[s].program
            <4>1. CASE \E kind \in Kinds : Collect(s, kind)
                BY <4>1 DEF Collect, IndInv, Shapes, NoScrape
            <4>2. CASE CollectTotal(s) \/ HoldMap(s)
                BY <4>2 DEF CollectTotal, HoldMap, IndInv, Shapes, NoScrape
            <4>3. CASE CollectPrograms(s)
                BY <4>3 DEF CollectPrograms, IndInv, Shapes, NoScrape
            <4>4. CASE Untrack(s)
                BY <4>4 DEF Untrack, IndInv, Shapes, NoScrape
            <4>5. CASE Recycle(s)
                BY <4>5 DEF Recycle
            <4>6. QED
                BY <1>11, <2>5, <4>1, <4>2, <4>3, <4>4, <4>5
                   DEF CollectAndClean
        <3>3. MapsOfScrape(s)' /\ pc' = Go(s, pc[s])
            BY <3>1, <3>2 DEF MapsOfScrape, Go, IndInv, Shapes
        <3>4. QED
            BY <1>1, <2>1, <2>2, <3>3, OneScrapesMaps
    <2>6. QED
        BY <2>3, <2>4, <2>5
<1>12. QED
    BY <1>3, <1>4, <1>5, <1>6, <1>7, <1>8, <1>9, <1>10, <1>11
       DEF Next, AggregateMetrics

\* The objects.  A process that an object belongs to is replaced by another one
\* only.
LEMMA StillIdentified ==
    ASSUME IndInv, [Next]_vars, NEW o \in Objs, Identified(o)
    PROVE  Identified(o)'
<1>1. \/ info' = info
      \/ \E p \in Procs : AddProcess(p)
      \/ \E g \in Goroutines : StoreTag(g) \/ StoreService(g)
      \/ \E s \in Scrapers : StoreQueried(s)
    <2>1. CASE UNCHANGED vars \/ Waiting \/ CallbackStarts \/ CallbackWorks
        BY <2>1 DEF vars, tables, Waiting, CallbackStarts, Event,
            MarkProcessForDeletion, RegisterServiceTag, AddThread,
            CallbackWorks, ResolveProcess, CountSystemWide, CountForProcess,
            PublishProcess
    <2>2. CASE \E g \in Goroutines :
                StoreTag(g) \/ LookUpService(g) \/ StoreService(g)
        <3>1. \A g : LookUpService(g) => info' = info
            BY DEF LookUpService, tables
        <3>2. QED
            BY <2>2, <3>1
    <2>3. CASE \E s \in Scrapers : AggregateMetrics(s)
        <3>1. ASSUME NEW s \in Scrapers, AggregateMetrics(s)
              PROVE  info' = info \/ StoreQueried(s)
            BY <3>1 DEF AggregateMetrics, BeginScrape, SnapshotServices,
                ApplyService, ServicesApplied, GetMap, VisitProcess,
                QueryServiceName, ReadKey, SumCounters, Swap, ClearOld, tables
        <3>2. QED
            BY <2>3, <3>1
    <2>4. CASE \E s \in Scrapers : CollectAndClean(s)
        BY <2>4 DEF CollectAndClean, Collect, CollectTotal, HoldMap,
            CollectPrograms, BeginCleanup, Untrack, Recycle, EndScrape, tables
    <2>5. QED
        BY <2>1, <2>2, <2>3, <2>4 DEF Next
<1>2. CASE info' = info
    BY <1>2 DEF Identified
<1>3. ASSUME NEW p \in Procs, AddProcess(p) PROVE Identified(o)'
    BY <1>3, Constants DEF AddProcess, Identified, IndInv, Shapes, InfoRec
<1>4. ASSUME NEW x, NEW t, \/ info' = [info EXCEPT ![x].tag = t]
                           \/ info' = [info EXCEPT ![x].service = t]
      PROVE  Identified(o)'
    <2>1. info \in [Objs -> InfoRec] /\ info[o] \in InfoRec
        BY DEF IndInv, Shapes
    <2>2. info'[o].proc = info[o].proc
        BY <1>4, <2>1 DEF InfoRec
    <2>3. QED
        BY <2>2 DEF Identified
<1>5. CASE \E g \in Goroutines : StoreTag(g) \/ StoreService(g)
    BY <1>2, <1>4, <1>5 DEF StoreTag, StoreService, Named
<1>6. CASE \E s \in Scrapers : StoreQueried(s)
    BY <1>2, <1>4, <1>6 DEF StoreQueried, Named
<1>7. QED
    BY <1>1, <1>2, <1>3, <1>5, <1>6

\* Nobody begins to publish but AddProcess.
LEMMA RestPublishesNothing ==
    ASSUME IndInv, NEW step, At("callback", step), step # "publish",
           \/ loc'["callback"].todo = Tail(loc["callback"].todo)
           \/ loc'["callback"] = Idle
    PROVE  ~Publishing'
<1> DEFINE l == loc["callback"]
           rest == [l EXCEPT !.todo = Tail(@)]
<1>1. l \in Task /\ ~Publishing /\ l.todo # <<>>
    BY NotPublishing, Constants DEF IndInv, Shapes, Free
<1>2. \A x : Pends(rest, x) => Pends(l, x)
    BY <1>1, StepTaken
<1>3. rest.todo = Tail(l.todo)
    BY <1>1 DEF Task
<1> HIDE DEF rest
<1>4. CASE loc'["callback"].todo = Tail(l.todo)
    BY <1>1, <1>2, <1>3, <1>4 DEF Publishing, Pends
<1>5. CASE loc'["callback"] = Idle
    BY <1>5, NothingPends DEF Publishing
<1>6. QED
    BY <1>4, <1>5

LEMMA CallbackPublishes ==
    ASSUME IndInv, CallbackStarts \/ CallbackWorks
    PROVE  \/ \E p \in Procs : AddProcess(p)
           \/ UNCHANGED loc
           \/ ~Publishing'
<1>1. /\ loc \in [Goroutines -> Task] /\ "callback" \in Goroutines
      /\ loc["callback"] \in Task
    BY Constants DEF IndInv, Shapes
<1>2. CASE \E kind \in Kinds, p \in Procs : Event(kind, p)
    <2>1. \E kind \in Kinds : loc'["callback"].todo = StepsOf(kind)
        BY <1>1, <1>2 DEF Event, Idle
    <2>2. QED
        BY <2>1, Plans DEF Publishing
<1>3. CASE \E p \in Procs, t \in Tags : AddThread(p, t)
    <2>1. loc'["callback"].todo = <<"tag", "lookup", "name">>
        BY <1>1, <1>3 DEF AddThread, Resolving, Idle
    <2>2. QED
        BY <2>1, Plans DEF Publishing
<1>4. CASE ResolveProcess
    <2>1. PICK o : loc' = Stop("callback")
            \/ loc' = [Rest("callback") EXCEPT !["callback"].obj = o]
        BY <1>4 DEF ResolveProcess
    <2>2. \/ loc'["callback"].todo = Tail(loc["callback"].todo)
          \/ loc'["callback"] = Idle
        BY <1>1, <2>1 DEF Stop, Rest, Task
    <2>3. QED
        BY <1>4, <2>2, RestPublishesNothing DEF ResolveProcess
<1>5. CASE CountSystemWide \/ CountForProcess
    <2>1. loc' = Rest("callback")
        BY <1>5 DEF CountSystemWide, CountForProcess
    <2>2. loc'["callback"].todo = Tail(loc["callback"].todo)
        BY <1>1, <2>1 DEF Rest, Task
    <2>3. QED
        BY <1>5, <2>2, RestPublishesNothing
           DEF CountSystemWide, CountForProcess
<1>6. CASE PublishProcess
    <2>1. loc'["callback"] = Idle
        BY <1>1, <1>6 DEF PublishProcess, Stop
    <2>2. QED
        BY <2>1, NothingPends DEF Publishing
<1>7. QED
    BY <1>2, <1>3, <1>4, <1>5, <1>6 DEF CallbackStarts, CallbackWorks,
        MarkProcessForDeletion, RegisterServiceTag

LEMMA NextIdentified ==
    ASSUME IndInv, Visits, HandsIdentified, [Next]_vars
    PROVE  HandsIdentified'
<1> DEFINE Tracked == \A k \in Keys :
                instanceData[k] # None => Identified(instanceData[k])
           InHand(s) == pc[s] \in AtProcess => Identified(loc[s].obj)
           ToPublish == Publishing => Identified(loc["callback"].obj)
<1>1. \A o \in Objs : Identified(o) => Identified(o)'
    BY StillIdentified
<1>2. ASSUME UNCHANGED instanceData PROVE Tracked'
    BY <1>1, <1>2 DEF HandsIdentified, IndInv, Shapes
<1>3. ASSUME NEW s \in Scrapers, pc'[s] \in AtProcess => pc[s] \in AtProcess,
             loc'[s].obj = loc[s].obj
      PROVE  InHand(s)'
    <2>1. pc[s] \in AtProcess => loc[s].obj \in Objs
        BY DEF IndInv, ScraperHand, AtProcess
    <2>2. QED
        BY <1>1, <1>3, <2>1 DEF HandsIdentified
<1>4. ASSUME Publishing' => Publishing,
             loc'["callback"].obj = loc["callback"].obj
      PROVE  ToPublish'
    <2>1. Publishing => loc["callback"].obj \in Objs
        BY DEF IndInv, CallbackHand, Untracked
    <2>2. QED
        BY <1>1, <1>4, <2>1 DEF HandsIdentified
<1>5. ASSUME Tracked', ToPublish', \A s \in Scrapers : InHand(s)'
      PROVE  HandsIdentified'
    BY <1>5 DEF HandsIdentified
<1> HIDE DEF Tracked, ToPublish, InHand
\* A step of the callback.
<1>6. ASSUME UNCHANGED <<pc, instanceData>>,
             \A s \in Scrapers : loc'[s].obj = loc[s].obj, ToPublish'
      PROVE  HandsIdentified'
    <2>1. \A s \in Scrapers : InHand(s)'
        BY <1>3, <1>6
    <2>2. QED
        BY <1>2, <1>5, <1>6, <2>1
\* A step of a scrape.
<1>7. ASSUME NEW s \in Scrapers, NEW x, pc' = Go(s, x),
             \A g \in Goroutines \ {s} : loc'[g] = loc[g],
             Tracked', InHand(s)'
      PROVE  HandsIdentified'
    <2>1. \A r \in Scrapers \ {s} : InHand(r)'
        <3>1. \A r \in Scrapers \ {s} : pc'[r] = pc[r]
            BY <1>7 DEF Go, IndInv, Shapes
        <3>2. QED
            BY <1>3, <1>7, <3>1, Constants
    <2>2. ToPublish'
        <3>1. loc'["callback"] = loc["callback"]
            BY <1>7, Constants
        <3>2. QED
            BY <1>4, <3>1 DEF Publishing, Pends
    <2>3. QED
        BY <1>5, <1>7, <2>1, <2>2
<1>8. CASE UNCHANGED vars \/ Waiting
    <2>1. UNCHANGED <<pc, instanceData, loc>>
        BY <1>8 DEF Waiting, vars, tables
    <2>2. ToPublish'
        BY <1>4, <2>1 DEF Publishing, Pends
    <2>3. QED
        BY <1>6, <2>1, <2>2
<1>9. CASE CallbackStarts \/ CallbackWorks
    <2>1. UNCHANGED pc /\ \A s \in Scrapers : loc'[s] = loc[s]
        BY <1>9, CallbackAside
    <2>2. Tracked'
        <3>1. CASE PublishProcess
            <4>1. Publishing
                <5>1. /\ loc["callback"] \in Task /\ loc["callback"].todo # <<>>
                      /\ Head(loc["callback"].todo) = "publish"
                    BY <3>1, Constants
                       DEF PublishProcess, At, Free, IndInv, Shapes
                <5>2. QED
                    BY <5>1, StepTaken DEF Publishing
            <4>2. UNCHANGED info /\ instanceData' = [instanceData EXCEPT
                        ![loc["callback"].proc] = loc["callback"].obj]
                BY <3>1 DEF PublishProcess
            <4>3. Identified(loc["callback"].obj)
                BY <4>1 DEF HandsIdentified
            <4>4. QED
                BY <4>2, <4>3 DEF Tracked, HandsIdentified, Identified, IndInv,
                    Shapes
        <3>2. CASE ~PublishProcess
            <4>1. UNCHANGED instanceData
                BY <1>9, <3>2 DEF CallbackStarts, CallbackWorks, Event,
                    AddProcess, AddThread, MarkProcessForDeletion,
                    RegisterServiceTag, ResolveProcess, CountSystemWide,
                    CountForProcess, tables
            <4>2. QED
                BY <1>2, <4>1
        <3>3. QED
            BY <3>1, <3>2
    <2>3. ToPublish'
        <3>1. CASE \E p \in Procs : AddProcess(p)
            <4>1. PICK p \in Procs, o \in processDataPool :
                    /\ info' = [info EXCEPT ![o] =
                            [proc |-> p, tag |-> None, service |-> None]]
                    /\ loc' = [loc EXCEPT !["callback"] = [Idle EXCEPT
                            !.todo = <<"publish">>, !.proc = p, !.obj = o]]
                BY <3>1 DEF AddProcess
            <4>2. o \in Objs /\ p \in Keys
                BY Constants DEF IndInv, Shapes
            <4>3. loc'["callback"].obj = o
                BY <4>1, Constants DEF IndInv, Shapes, Idle
            <4>4. info'[o].proc = p
                BY <4>1, <4>2 DEF IndInv, Shapes
            <4>5. QED
                BY <4>2, <4>3, <4>4 DEF ToPublish, Identified
        <3>2. CASE UNCHANGED loc
            BY <1>4, <3>2 DEF Publishing, Pends
        <3>3. CASE ~Publishing'
            BY <3>3 DEF ToPublish
        <3>4. QED
            BY <1>9, <3>1, <3>2, <3>3, CallbackPublishes
    <2>4. \A s \in Scrapers : InHand(s)'
        BY <1>3, <2>1
    <2>5. QED
        BY <1>5, <2>2, <2>3, <2>4
<1>10. CASE \E g \in Goroutines :
            StoreTag(g) \/ LookUpService(g) \/ StoreService(g)
    <2>1. UNCHANGED <<pc, instanceData>>
        BY <1>10 DEF StoreTag, LookUpService, StoreService, tables
    <2>2. PICK g \in Goroutines, step \in {"tag", "lookup", "name"} :
            At(g, step) /\ (loc' = Rest(g) \/ loc' = Stop(g))
        BY <1>10 DEF StoreTag, LookUpService, StoreService
    <2>3. /\ \A h \in Goroutines \ {g} : loc'[h] = loc[h]
          /\ \/ loc'[g].todo = Tail(loc[g].todo)
             \/ loc'[g] = Idle
        <3>1. loc \in [Goroutines -> Task] /\ loc[g] \in Task
            BY DEF IndInv, Shapes
        <3>2. QED
            BY <2>2, <3>1 DEF Rest, Stop, Task
    <2>4. ToPublish'
        <3>1. CASE g = "callback"
            BY <2>2, <2>3, <3>1, RestPublishesNothing DEF ToPublish
        <3>2. CASE g # "callback"
            BY <1>4, <2>3, <3>2, Constants DEF Publishing, Pends
        <3>3. QED
            BY <3>1, <3>2
    <2>5. ASSUME NEW s \in Scrapers PROVE InHand(s)'
        <3>1. CASE s = g
            <4>1. pc[s] \notin AtProcess
                BY <2>2, <3>1 DEF At, IndInv, ScraperHand, AtProcess
            <4>2. QED
                BY <2>1, <4>1 DEF InHand
        <3>2. CASE s # g
            BY <1>3, <2>1, <2>3, <3>2, Constants
        <3>3. QED
            BY <3>1, <3>2
    <2>6. QED
        BY <1>2, <1>5, <2>1, <2>4, <2>5
<1>11. ASSUME NEW s \in Scrapers, NEW x \in Places, pc' = Go(s, x)
       PROVE  pc'[s] = x
    BY <1>11 DEF Go, IndInv, Shapes
<1>12. ASSUME NEW s \in Scrapers, AggregateMetrics(s)
       PROVE  HandsIdentified'
    <2>1. Tracked'
        <3>1. UNCHANGED instanceData
            BY <1>12 DEF AggregateMetrics, BeginScrape, SnapshotServices,
                ApplyService, ServicesApplied, GetMap, VisitProcess,
                QueryServiceName, StoreQueried, ReadKey, SumCounters, Swap,
                ClearOld, tables
        <3>2. QED
            BY <1>2, <3>1
    <2>2. \A g \in Goroutines \ {s} : loc'[g] = loc[g]
        <3>1. CASE VisitProcess(s)
            <4>1. PICK k, t : loc' = loc \/ loc' =
                    [loc EXCEPT ![s].obj = instanceData[k], ![s].tag = t]
                BY <3>1 DEF VisitProcess
            <4>2. QED
                BY <4>1 DEF IndInv, Shapes
        <3>2. CASE ApplyService(s)
            BY <3>2 DEF ApplyService, IndInv, Shapes
        <3>3. CASE ~(VisitProcess(s) \/ ApplyService(s))
            BY <1>12, <3>3 DEF AggregateMetrics, BeginScrape,
                SnapshotServices, ServicesApplied, GetMap, QueryServiceName,
                StoreQueried, ReadKey, SumCounters, Swap, ClearOld, Stop,
                IndInv, Shapes
        <3>4. QED
            BY <3>1, <3>2, <3>3
    <2>3. CASE VisitProcess(s)
        <3>1. PICK k \in scrape[s].toVisit : \/ UNCHANGED <<loc, pc>>
                \/ \E t, x : /\ instanceData[k] # None
                             /\ loc' = [loc EXCEPT ![s].obj = instanceData[k],
                                                   ![s].tag = t]
                             /\ pc' = Go(s, x)
            BY <2>3 DEF VisitProcess
        <3>2. CASE UNCHANGED <<loc, pc>>
            <4>1. pc' = Go(s, pc[s])
                BY <3>2 DEF Go, IndInv, Shapes
            <4>2. InHand(s)'
                BY <1>3, <3>2
            <4>3. QED
                BY <1>7, <2>1, <2>2, <4>1, <4>2
        <3>3. CASE ~UNCHANGED <<loc, pc>>
            <4>1. PICK t, x : /\ instanceData[k] # None
                              /\ loc' = [loc EXCEPT ![s].obj = instanceData[k],
                                                    ![s].tag = t]
                              /\ pc' = Go(s, x)
                BY <3>1, <3>3
            <4>2. k \in Keys
                BY <2>3 DEF VisitProcess, InScrape, Visits, Visited
            <4>3. instanceData[k] \in Objs /\ Identified(instanceData[k])
                BY <4>1, <4>2 DEF IndInv, Shapes, HandsIdentified
            <4>4. loc'[s].obj = instanceData[k]
                BY <4>1, Constants DEF IndInv, Shapes, Task
            <4>5. InHand(s)'
                BY <1>1, <4>3, <4>4 DEF InHand
            <4>6. QED
                BY <1>7, <2>1, <2>2, <4>1, <4>5
        <3>4. QED
            BY <3>2, <3>3
    <2>4. CASE QueryServiceName(s) \/ StoreQueried(s) \/ ReadKey(s)
        <3>1. pc[s] \in AtProcess /\ UNCHANGED loc /\ \E x : pc' = Go(s, x)
            BY <2>4 DEF QueryServiceName, StoreQueried, ReadKey, InScrape,
                AtProcess
        <3>2. InHand(s)'
            BY <1>3, <3>1
        <3>3. QED
            BY <1>7, <2>1, <2>2, <3>1, <3>2
    <2>5. CASE ~(\/ VisitProcess(s) \/ QueryServiceName(s) \/ StoreQueried(s)
                 \/ ReadKey(s))
        <3>1. \E x \in Places \ AtProcess : pc' = Go(s, x)
            <4>1. CASE ApplyService(s)
                BY <4>1 DEF ApplyService, InScrape, Go, IndInv, Shapes, Places,
                    AtProcess
            <4>2. CASE ~ApplyService(s)
                BY <1>12, <2>5, <4>2 DEF AggregateMetrics, BeginScrape,
                    SnapshotServices, ServicesApplied, GetMap, SumCounters,
                    Swap, ClearOld, Places, AtProcess
            <4>3. QED
                BY <4>1, <4>2
        <3>2. PICK x \in Places \ AtProcess : pc' = Go(s, x)
            BY <3>1
        <3>3. InHand(s)'
            BY <1>11, <3>2 DEF InHand
        <3>4. QED
            BY <1>7, <2>1, <2>2, <3>2, <3>3
    <2>6. QED
        BY <2>3, <2>4, <2>5
<1>13. ASSUME NEW s \in Scrapers, CollectAndClean(s)
       PROVE  HandsIdentified'
    <2>1. Tracked'
        <3>1. CASE Untrack(s)
            <4>1. PICK p : instanceData' = [instanceData EXCEPT ![p] = None]
                BY <3>1 DEF Untrack
            <4>2. QED
                BY <1>1, <4>1 DEF Tracked, HandsIdentified, IndInv, Shapes
        <3>2. CASE ~Untrack(s)
            <4>1. UNCHANGED instanceData
                BY <1>13, <3>2 DEF CollectAndClean, Collect, CollectTotal,
                    HoldMap, CollectPrograms, BeginCleanup, Recycle, EndScrape,
                    tables
            <4>2. QED
                BY <1>2, <4>1
        <3>3. QED
            BY <3>1, <3>2
    <2>2. \A g \in Goroutines \ {s} : loc'[g] = loc[g]
        BY <1>13 DEF CollectAndClean, Collect, CollectTotal, HoldMap,
            CollectPrograms, BeginCleanup, Untrack, Recycle, EndScrape, Rest,
            Stop, IndInv, Shapes
    <2>3. \E x \in Places \ AtProcess : pc' = Go(s, x)
        <3>1. CASE BeginCleanup(s) \/ EndScrape(s)
            BY <3>1 DEF BeginCleanup, EndScrape, Places, AtProcess
        <3>2. CASE ~(BeginCleanup(s) \/ EndScrape(s))
            <4>1. pc' = Go(s, pc[s]) /\ pc[s] \in Places
                BY <1>13, <3>2 DEF CollectAndClean, Collect, CollectTotal,
                    HoldMap, CollectPrograms, Untrack, Recycle, Go, IndInv,
                    Shapes
            <4>2. pc[s] \notin AtProcess
                <5>1. \/ InScrape(s, "collect") \/ InScrape(s, "cleanup")
                      \/ \E step : At(s, step)
                    BY <1>13, <3>2 DEF CollectAndClean, Collect, CollectTotal,
                        HoldMap, CollectPrograms, Untrack, Recycle
                <5>2. QED
                    BY <5>1 DEF InScrape, At, IndInv, ScraperHand, AtProcess
            <4>3. QED
                BY <4>1, <4>2
        <3>3. QED
            BY <3>1, <3>2
    <2>4. PICK x \in Places \ AtProcess : pc' = Go(s, x)
        BY <2>3
    <2>5. InHand(s)'
        BY <1>11, <2>4 DEF InHand
    <2>6. QED
        BY <1>7, <2>1, <2>2, <2>4, <2>5
<1>14. QED
    BY <1>8, <1>9, <1>10, <1>12, <1>13 DEF Next

\* Every variable of the aggregation keeps its type, however many scrapes there
\* are: a program is made of the process that an object belongs to, which it
\* does until AddProcess gives it to another one, and a scrape builds in a map
\* from GetMap to Swap.
THEOREM TypeCorrect == Spec => []TypeOK
<1>1. Init => TypesInv
    BY InitTypes
<1>2. IndInv /\ Visits /\ TypesInv /\ [Next]_vars => TypesInv'
    BY NextValues, NextMaps, NextIdentified DEF TypesInv
<1>3. IndInv /\ TypesInv => TypeOK
    <2> SUFFICES ASSUME IndInv, TypesInv PROVE TypeOK
        OBVIOUS
    <2>1. ASSUME NEW g \in Goroutines
          PROVE  /\ loc[g].kind \in Kinds \union {None}
                 /\ loc[g].proc \in Procs \union {None}
                 /\ loc[g].obj \in Objs \union {None}
                 /\ loc[g].tag \in Tags \union {None}
        <3>1. loc[g] \in Task
            BY DEF IndInv, Shapes
        <3>2. QED
            BY <3>1 DEF Task
    <2>2. ASSUME NEW s \in Scrapers
          PROVE  /\ pc[s] \in Places
                 /\ pc[s] \in {"query", "store", "key", "sum"} =>
                        loc[s].obj \in Objs
                 /\ scrape[s].building \in Maps <=> pc[s] \in
                        {"range", "query", "store", "key", "sum"}
        <3>1. pc[s] \in Places /\ ScraperHand(s) /\ MapsOfScrape(s)
            BY DEF IndInv, Shapes, TypesInv
        <3>2. Building = {"range", "query", "store", "key", "sum"}
            BY DEF Building, AtProcess
        <3>3. QED
            BY <3>1, <3>2 DEF ScraperHand, MapsOfScrape
    <2>3. Shapes /\ Values /\ MapsInPlace
        BY DEF IndInv, TypesInv
    <2>4. QED
        BY <2>1, <2>2, <2>3 DEF Shapes, InfoRec, Values, MapsInPlace, TypeOK
<1>4. QED
    BY <1>1, <1>2, <1>3, Invariant, PTL DEF Spec
=============================================================================
