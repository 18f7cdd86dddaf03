------------------------ MODULE ThreadCollector_proofs -----------------------
(***************************************************************************)
(* What the context-switch collector counts, for any number of CPUs, of    *)
(* objects and of scrapes that overlap.                                    *)
(*                                                                         *)
(* First sums are put in a form that can be reasoned about; then each      *)
(* object is shown to have one owner at a time; and from that, what an     *)
(* interval is worth wherever it is on its way from the callback to the    *)
(* totals is shown to be kept by every step of a scrape.                   *)
(***************************************************************************)
EXTENDS ThreadCollector, Integers, FiniteSetTheorems, WellFoundedInduction,
        TLAPS

-----------------------------------------------------------------------------
(* Sums of finite functions.                                               *)

\* The elements are added up in the order CHOOSE takes them: Part[s] is the sum over s.
First(s) == CHOOSE x \in s : TRUE
Sum(f, g, s) == IF s = {} THEN 0 ELSE f[First(s)] + g[s \ {First(s)}]
Part(f) == CHOOSE g : g = [s \in SUBSET DOMAIN f |-> Sum(f, g, s)]

LEMMA TotalIsPart == \A f : Total(f) = Part(f)[DOMAIN f]
  BY DEF Total, FoldFunction, FoldFunctionOnSet, MapThenFoldSet, Part, Sum, First

LEMMA LeastNat ==
    ASSUME NEW A \in SUBSET Nat, A # {}
    PROVE  \E n \in A : \A m \in A : n <= m
<1>1. PICK n \in A : \A m \in A : <<m, n>> \notin OpToRel(<, Nat)
    BY NatLessThanWellFounded, WFMin, Zenon
<1>2. \A m \in A : ~(m < n)
    BY <1>1 DEF OpToRel
<1>3. QED
    BY <1>2

LEMMA LeastSet ==
    ASSUME NEW S, IsFiniteSet(S), NEW A \in SUBSET SUBSET S, A # {}
    PROVE  \E T \in A : \A x \in T : T \ {x} \notin A
<1>1. IsWellFoundedOn(StrictSubsetOrdering(S), SUBSET S)
    BY FS_StrictSubsetOrderingWellFounded, FS_FiniteSubsetsOfFinite
<1>2. PICK T \in A : \A U \in A : <<U, T>> \notin StrictSubsetOrdering(S)
    BY <1>1, WFMin
<1>3. ASSUME NEW x \in T, T \ {x} \in A PROVE FALSE
    <2>1. <<T \ {x}, T>> \in StrictSubsetOrdering(S)
        BY <1>3 DEF StrictSubsetOrdering
    <2>2. QED
        BY <1>2, <1>3, <2>1
<1>4. QED
    BY <1>3

\* A finite sum is defined.
LEMMA PartDefined ==
    ASSUME NEW f, IsFiniteSet(DOMAIN f)
    PROVE  \E g : g = [s \in SUBSET DOMAIN f |-> Sum(f, g, s)]
<1> DEFINE D == DOMAIN f
           Fits(g, n) == \A s \in SUBSET D : Cardinality(s) <= n => g[s] = Sum(f, g, s)
           A == {n \in Nat : ~\E g : Fits(g, n)}
<1>1. \A s \in SUBSET D : IsFiniteSet(s) /\ Cardinality(s) \in Nat /\ Cardinality(s) <= Cardinality(D)
    BY FS_Subset, FS_CardinalityType
<1>2. Cardinality(D) \in Nat
    BY FS_CardinalityType
<1>3. ASSUME A # {} PROVE FALSE
    <2>1. PICK n \in A : \A m \in A : n <= m
        BY <1>3, LeastNat
    <2>2. n # 0
        <3>1. \A s \in SUBSET D : Cardinality(s) <= 0 => s = {}
            BY <1>1, FS_EmptySet
        <3> DEFINE g == [s \in SUBSET D |-> 0]
        <3>2. \A s \in SUBSET D : Cardinality(s) <= 0 => g[s] = Sum(f, g, s)
            BY <3>1 DEF Sum
        <3>3. QED
            BY <3>2
    <2>3. n - 1 \in Nat /\ n - 1 \notin A
        BY <2>1, <2>2
    <2>4. PICK g : Fits(g, n - 1)
        BY <2>3
    <2> DEFINE h == [s \in SUBSET D |-> Sum(f, g, s)]
    <2>5. ASSUME NEW s \in SUBSET D, Cardinality(s) <= n
          PROVE  h[s] = Sum(f, h, s)
        <3>1. CASE s = {}
            BY <3>1 DEF Sum
        <3>2. CASE s # {}
            <4> DEFINE x == First(s)
                       t == s \ {x}
            <4>1. x \in s
                BY <3>2 DEF First
            <4>2. t \in SUBSET D /\ Cardinality(t) <= n - 1
                BY <4>1, <1>1, <2>3, <2>5, FS_RemoveElement
            <4>3. g[t] = Sum(f, g, t)
                BY <2>4, <4>2
            <4>4. h[t] = g[t]
                BY <4>2, <4>3
            <4>5. QED
                BY <3>2, <4>4 DEF Sum
        <3>3. QED
            BY <3>1, <3>2
    <2>6. QED
        BY <2>1, <2>5
<1>4. PICK g : Fits(g, Cardinality(D))
    BY <1>2, <1>3
<1> DEFINE h == [s \in SUBSET D |-> g[s]]
<1>5. ASSUME NEW s \in SUBSET D PROVE h[s] = Sum(f, h, s)
    <2>1. s # {} => s \ {First(s)} \in SUBSET D
        OBVIOUS
    <2>2. g[s] = Sum(f, g, s)
        BY <1>1, <1>4
    <2>3. QED
        BY <2>1, <2>2 DEF Sum
<1>6. QED
    BY <1>5

LEMMA PartSum ==
    ASSUME NEW f, IsFiniteSet(DOMAIN f), NEW s \in SUBSET DOMAIN f
    PROVE  Part(f)[s] = Sum(f, Part(f), s)
<1>1. Part(f) = [t \in SUBSET DOMAIN f |-> Sum(f, Part(f), t)]
    BY PartDefined DEF Part
<1>2. QED
    BY <1>1

\* Finite sums of integers.
Summable(f) == IsFiniteSet(DOMAIN f) /\ f \in [DOMAIN f -> Int]

LEMMA PartType ==
    ASSUME NEW f, Summable(f)
    PROVE  \A s \in SUBSET DOMAIN f : Part(f)[s] \in Int
<1> DEFINE A == {s \in SUBSET DOMAIN f : Part(f)[s] \notin Int}
<1>1. ASSUME A # {} PROVE FALSE
    <2>1. PICK s \in A : \A x \in s : s \ {x} \notin A
        BY <1>1, LeastSet DEF Summable
    <2>2. Part(f)[s] = Sum(f, Part(f), s)
        BY PartSum DEF Summable
    <2>3. s # {}
        BY <2>2 DEF Sum
    <2>4. First(s) \in s
        BY <2>3 DEF First
    <2>5. Part(f)[s \ {First(s)}] \in Int /\ f[First(s)] \in Int
        BY <2>1, <2>4 DEF Summable
    <2>6. QED
        BY <2>2, <2>3, <2>5 DEF Sum
<1>2. QED
    BY <1>1

LEMMA TotalType ==
    ASSUME NEW f, Summable(f)
    PROVE  Total(f) \in Int
BY PartType, TotalIsPart

\* Sums are added up element by element.
LEMMA TotalPlus ==
    ASSUME NEW f, NEW g, NEW h, Summable(f), Summable(g), Summable(h),
           DOMAIN g = DOMAIN f, DOMAIN h = DOMAIN f,
           \A x \in DOMAIN f : h[x] = f[x] + g[x]
    PROVE  Total(h) = Total(f) + Total(g)
<1> DEFINE D == DOMAIN f
           A == {s \in SUBSET D : Part(h)[s] # Part(f)[s] + Part(g)[s]}
<1>1. ASSUME A # {} PROVE FALSE
    <2>1. PICK s \in A : \A x \in s : s \ {x} \notin A
        BY <1>1, LeastSet DEF Summable
    <2>2. /\ Part(f)[s] = Sum(f, Part(f), s)
          /\ Part(g)[s] = Sum(g, Part(g), s)
          /\ Part(h)[s] = Sum(h, Part(h), s)
        BY PartSum DEF Summable
    <2>3. s # {}
        BY <2>2 DEF Sum
    <2> DEFINE x == First(s)
               t == s \ {x}
    <2>4. x \in s
        BY <2>3 DEF First
    <2>5. Part(h)[t] = Part(f)[t] + Part(g)[t] /\ h[x] = f[x] + g[x]
        BY <2>1, <2>4
    <2>6. /\ Part(f)[t] \in Int /\ Part(g)[t] \in Int
          /\ f[x] \in Int /\ g[x] \in Int
        BY <2>4, PartType DEF Summable
    <2>7. /\ Part(f)[s] = f[x] + Part(f)[t]
          /\ Part(g)[s] = g[x] + Part(g)[t]
          /\ Part(h)[s] = h[x] + Part(h)[t]
        BY <2>2, <2>3 DEF Sum
    <2> HIDE DEF x, t
    <2>8. QED
        BY <2>1, <2>5, <2>6, <2>7
<1>2. QED
    BY <1>1, TotalIsPart

\* A sum with one term that is not zero.
LEMMA TotalOfOne ==
    ASSUME NEW f, Summable(f), NEW c \in DOMAIN f,
           \A x \in DOMAIN f : x # c => f[x] = 0
    PROVE  Total(f) = f[c]
<1> DEFINE D == DOMAIN f
           A == {s \in SUBSET D : Part(f)[s] # IF c \in s THEN f[c] ELSE 0}
<1>1. ASSUME A # {} PROVE FALSE
    <2>1. PICK s \in A : \A x \in s : s \ {x} \notin A
        BY <1>1, LeastSet DEF Summable
    <2>2. Part(f)[s] = Sum(f, Part(f), s)
        BY PartSum DEF Summable
    <2>3. s # {}
        BY <2>2 DEF Sum
    <2> DEFINE x == First(s)
               t == s \ {x}
    <2>4. x \in s /\ x \in D
        BY <2>3 DEF First
    <2>5. Part(f)[t] = IF c \in t THEN f[c] ELSE 0
        BY <2>1, <2>4
    <2>6. f[c] \in Int /\ f[x] \in Int
        BY <2>4 DEF Summable
    <2>7. Part(f)[s] = f[x] + Part(f)[t]
        BY <2>2, <2>3 DEF Sum
    <2>8. c \in t <=> c \in s /\ c # x
        OBVIOUS
    <2> HIDE DEF x, t
    <2>9. QED
        BY <2>1, <2>4, <2>5, <2>6, <2>7, <2>8
<1>2. QED
    BY <1>1, TotalIsPart

LEMMA TotalOfNone ==
    ASSUME NEW f, Summable(f), \A x \in DOMAIN f : f[x] = 0
    PROVE  Total(f) = 0
<1>1. PICK n \in Int : Total(f) = n /\ n = n + n
    <2>1. \A x \in DOMAIN f : f[x] = f[x] + f[x]
        OBVIOUS
    <2>2. Total(f) = Total(f) + Total(f)
        BY <2>1, TotalPlus
    <2>3. QED
        BY <2>2, TotalType
<1>2. QED
    BY <1>1

\* What one term changes by, the sum changes by.
LEMMA TotalChanges ==
    ASSUME NEW f, NEW g, Summable(f), Summable(g), DOMAIN g = DOMAIN f,
           NEW c \in DOMAIN f, \A x \in DOMAIN f : x # c => g[x] = f[x]
    PROVE  Total(g) = Total(f) + (g[c] - f[c])
<1> DEFINE d == [x \in DOMAIN f |-> g[x] - f[x]]
<1>1. Summable(d) /\ DOMAIN d = DOMAIN f
    BY DEF Summable
<1>2. Total(d) = d[c]
    <2>1. \A x \in DOMAIN d : x # c => d[x] = 0
        BY DEF Summable
    <2>2. QED
        BY <1>1, <2>1, TotalOfOne
<1>3. Total(g) = Total(f) + Total(d)
    <2>1. \A x \in DOMAIN f : g[x] = f[x] + d[x]
        BY DEF Summable
    <2>2. QED
        BY <1>1, <2>1, TotalPlus
<1>4. QED
    BY <1>2, <1>3

LEMMA TotalGrows ==
    ASSUME NEW f, NEW g, Summable(f), Summable(g), DOMAIN g = DOMAIN f,
           NEW c \in DOMAIN f, NEW n \in Int, g[c] = f[c] + n,
           \A x \in DOMAIN f : x # c => g[x] = f[x]
    PROVE  Total(g) = Total(f) + n
<1>1. Total(g) = Total(f) + (g[c] - f[c])
    BY TotalChanges
<1>2. g[c] - f[c] = n
    BY DEF Summable
<1>3. QED
    BY <1>1, <1>2

\* The sum of natural numbers is one.
LEMMA TotalNat ==
    ASSUME NEW f, Summable(f), \A x \in DOMAIN f : f[x] >= 0
    PROVE  Total(f) \in Nat
<1> DEFINE D == DOMAIN f
           A == {s \in SUBSET D : Part(f)[s] \notin Nat}
<1>1. ASSUME A # {} PROVE FALSE
    <2>1. PICK s \in A : \A x \in s : s \ {x} \notin A
        BY <1>1, LeastSet DEF Summable
    <2>2. Part(f)[s] = Sum(f, Part(f), s)
        BY PartSum DEF Summable
    <2>3. s # {}
        BY <2>2 DEF Sum
    <2>4. First(s) \in s
        BY <2>3 DEF First
    <2>5. Part(f)[s \ {First(s)}] \in Nat /\ f[First(s)] \in Nat
        BY <2>1, <2>4 DEF Summable
    <2>6. QED
        BY <2>2, <2>3, <2>5 DEF Sum
<1>2. QED
    BY <1>1, TotalIsPart

LEMMA SumOfNat ==
    ASSUME NEW S, IsFiniteSet(S), NEW f \in [S -> Nat]
    PROVE  Summable(f) /\ Total(f) \in Nat
<1>1. Summable(f)
    BY DEF Summable
<1>2. QED
    BY <1>1, TotalNat

\* A sum is at most the sum of terms that are as large.
LEMMA TotalAtMost ==
    ASSUME NEW f, NEW g, Summable(f), Summable(g), DOMAIN g = DOMAIN f,
           \A x \in DOMAIN f : f[x] <= g[x]
    PROVE  Total(f) <= Total(g)
<1> DEFINE d == [x \in DOMAIN f |-> g[x] - f[x]]
<1>1. Summable(d) /\ DOMAIN d = DOMAIN f
    BY DEF Summable
<1>2. Total(d) \in Nat
    <2>1. \A x \in DOMAIN d : d[x] >= 0
        BY DEF Summable
    <2>2. QED
        BY <1>1, <2>1, TotalNat
<1>3. Total(g) = Total(f) + Total(d)
    <2>1. \A x \in DOMAIN f : g[x] = f[x] + d[x]
        BY DEF Summable
    <2>2. QED
        BY <1>1, <2>1, TotalPlus
<1>4. QED
    BY <1>2, <1>3, TotalType

\* No term of natural numbers is more than the sum.
LEMMA TermAtMost ==
    ASSUME NEW S, IsFiniteSet(S), NEW f \in [S -> Nat], NEW c \in S
    PROVE  f[c] <= Total(f)
<1> DEFINE g == [x \in S |-> IF x = c THEN f[c] ELSE 0]
<1>1. g \in [S -> Nat] /\ Summable(f)
    BY SumOfNat
<1>2. Summable(g) /\ \A x \in S : g[x] <= f[x]
    BY <1>1, SumOfNat
<1>3. Total(g) = g[c]
    BY <1>1, <1>2, TotalOfOne
<1>4. Total(g) <= Total(f)
    BY <1>1, <1>2, TotalAtMost
<1>5. QED
    BY <1>3, <1>4

-----------------------------------------------------------------------------
(* Where the objects are.                                                  *)

USE DEF Range, recorded, history

\* What Collect has in hand has the right shape, and the objects it is to
\* merge are there: in phase 1 those of the CPUs before the present one, in
\* phase 2 those from the present one on.
FieldName == {"count", "sum", "buckets"}
Todos == {Fields, <<"sum", "buckets">>, <<"buckets">>, <<>>}
Pends(todo, f) == \E i \in DOMAIN todo : todo[i] = f
Local == [phase : {"idle", "get", "swap", "merge"}, cpu : Cpus,
          todo : Todos, fresh : Stats \union {None},
          old : [Cpus -> Stats \union {None}]]
Ready(local) ==
    /\ local.phase = "idle" => local = NoCollect
    /\ local.phase = "get" => local.todo = <<>>
    /\ local.phase = "swap" => local.fresh # None
    /\ local.phase \in {"get", "swap"} =>
            \A c \in Cpus : c < local.cpu => local.old[c] # None
    /\ local.phase = "merge" =>
            \A c \in Cpus : local.cpu <= c => local.old[c] # None
Locals ==
    /\ contextSwitchIntervals \in [Cpus -> Stats]
    /\ intervalStatsPool \subseteq Stats
    /\ collect \in [Scrapers -> Local]
    /\ \A s \in Scrapers : Ready(collect[s])

\* Each object has one place: with a CPU, in the pool, or in one of the hands
\* of one scrape.
CpusApart ==
    /\ \A c, d \in Cpus :
        c # d => contextSwitchIntervals[c] # contextSwitchIntervals[d]
    /\ \A c \in Cpus : contextSwitchIntervals[c] \notin intervalStatsPool
OldApart ==
    \A s \in Scrapers, c \in Cpus :
        /\ collect[s].old[c] \notin intervalStatsPool
        /\ \A d \in Cpus : collect[s].old[c] # contextSwitchIntervals[d]
FreshApart ==
    \A s \in Scrapers :
        /\ collect[s].fresh \notin intervalStatsPool
        /\ \A d \in Cpus : collect[s].fresh # contextSwitchIntervals[d]
OldDiffer ==
    \A s, r \in Scrapers, c, d \in Cpus :
        (s # r \/ c # d) /\ collect[s].old[c] # None =>
            collect[s].old[c] # collect[r].old[d]
FreshNotOld ==
    \A s, r \in Scrapers, c \in Cpus :
        collect[s].fresh # None => collect[s].fresh # collect[r].old[c]
FreshDiffer ==
    \A s, r \in Scrapers :
        s # r /\ collect[s].fresh # None => collect[s].fresh # collect[r].fresh
OnePlace == /\ CpusApart /\ OldApart /\ FreshApart
            /\ OldDiffer /\ FreshNotOld /\ FreshDiffer

IndInv == Locals /\ OnePlace

\* The CPUs are the numbers up to LastCpu.
LEMMA CpuNumbers == LastCpu \in Nat /\ Cpus = 0..LastCpu
<1>1. Cardinality(Cpus) \in Nat
    BY CollectorAssumption, FS_CardinalityType DEF CollectorAssumption
<1>2. Cardinality(Cpus) # 0
    BY CollectorAssumption, FS_EmptySet DEF CollectorAssumption
<1>3. QED
    BY <1>1, <1>2, CollectorAssumption DEF CollectorAssumption, LastCpu

\* All fields are named at first, none at last, nor by the other things the
\* callback may have to do.
LEMMA FieldsPend ==
    /\ \A f \in FieldName : Pends(Fields, f)
    /\ \A f \in FieldName : Pends(<<"sum", "buckets">>, f) <=> f # "count"
    /\ \A f \in FieldName : Pends(<<"buckets">>, f) <=> f = "buckets"
    /\ \A f : ~Pends(<<>>, f)
    /\ \A f \in FieldName : ~Pends(<<"switch">>, f) /\ ~Pends(<<"load">>, f)
    /\ Fields \in Todos /\ <<>> \in Todos /\ Fields # <<>>
<1>1. DOMAIN Fields = {1, 2, 3} /\ Fields # <<>>
    BY DEF Fields
<1>2. \A f \in FieldName : Pends(Fields, f)
    BY <1>1 DEF Pends, FieldName, Fields
<1>3. \A f \in FieldName : Pends(<<"sum", "buckets">>, f) <=> f # "count"
    BY DEF Pends, FieldName
<1>4. \A f \in FieldName : Pends(<<"buckets">>, f) <=> f = "buckets"
    BY DEF Pends, FieldName
<1>5. \A f : ~Pends(<<>>, f)
    BY DEF Pends
<1>6. \A f \in FieldName : ~Pends(<<"switch">>, f) /\ ~Pends(<<"load">>, f)
    BY DEF Pends, FieldName
<1>7. QED
    BY <1>1, <1>2, <1>3, <1>4, <1>5, <1>6 DEF Todos

\* What is left of a list of fields, and what it names.
LEMMA FieldsLeft ==
    ASSUME NEW todo \in Todos, todo # <<>>
    PROVE  /\ Head(todo) \in FieldName /\ Tail(todo) \in Todos
           /\ Pends(todo, Head(todo)) /\ ~Pends(Tail(todo), "count")
           /\ Tail(todo) = <<>> <=> Len(todo) = 1
           /\ \A f \in FieldName :
                Pends(Tail(todo), f) <=> Pends(todo, f) /\ f # Head(todo)
           /\ Pends(todo, "count") <=> Head(todo) = "count"
           /\ Tail(todo) = <<>> <=> Head(todo) = "buckets"
<1>1. CASE todo = Fields
  <2>1. Head(todo) = "count" /\ Tail(todo) = <<"sum", "buckets">>
        /\ Len(todo) = 3 /\ Tail(todo) # <<>>
    BY <1>1 DEF Fields
  <2>2. /\ \A f \in FieldName : Pends(todo, f)
        /\ \A f \in FieldName : Pends(Tail(todo), f) <=> f # "count"
    BY <1>1, <2>1, FieldsPend
  <2>3. Head(todo) \in FieldName /\ Tail(todo) \in Todos
    BY <2>1 DEF FieldName, Todos
  <2>4. QED
    BY <2>1, <2>2, <2>3 DEF FieldName
<1>2. CASE todo = <<"sum", "buckets">>
  <2>1. Head(todo) = "sum" /\ Tail(todo) = <<"buckets">> /\ Len(todo) = 2
        /\ Tail(todo) # <<>>
    BY <1>2
  <2>2. QED
    BY <1>2, <2>1, FieldsPend DEF FieldName, Todos
<1>3. CASE todo = <<"buckets">>
  <2>1. Head(todo) = "buckets" /\ Tail(todo) = <<>> /\ Len(todo) = 1
    BY <1>3
  <2>2. QED
    BY <1>3, <2>1, FieldsPend DEF FieldName, Todos
<1>4. QED
    BY <1>1, <1>2, <1>3 DEF Todos

\* A scrape that is not at work has nothing in hand.
LEMMA NoCollectLocal == NoCollect \in Local /\ Ready(NoCollect)
<1>1. 0 \in Cpus
    BY CpuNumbers
<1>2. NoCollect \in Local
    BY <1>1, FieldsPend DEF NoCollect, Local
<1>3. Ready(NoCollect)
    BY CpuNumbers DEF NoCollect, Ready
<1>4. QED
    BY <1>2, <1>3

\* Each CPU has an object of its own, the pool is empty.
LEMMA InitInv == ASSUME Init PROVE IndInv
<1>1. contextSwitchIntervals \in Injection(Cpus, Stats)
    BY DEF Init, AnyOf
<1>2. Locals
    BY <1>1, NoCollectLocal DEF Init, Locals, Injection, IsInjective
<1>3. OnePlace
    BY <1>1, CollectorAssumption
    DEF Init, OnePlace, CpusApart, OldApart, FreshApart, OldDiffer,
        FreshNotOld, FreshDiffer, Injection, IsInjective, NoCollect,
        CollectorAssumption
<1>4. QED
    BY <1>2, <1>3 DEF IndInv

\* What leaves the objects where they are preserves the invariant.
LEMMA NothingMoves ==
    ASSUME IndInv,
           UNCHANGED <<contextSwitchIntervals, intervalStatsPool, collect>>
    PROVE  IndInv'
BY DEF IndInv, Locals, OnePlace, CpusApart, OldApart, FreshApart, OldDiffer,
       FreshNotOld, FreshDiffer

\* When one scrape goes on, only what it then has in hand is to be looked at.
LEMMA OthersReady ==
    ASSUME Locals, NEW s \in Scrapers, NEW local \in Local, Ready(local),
           collect' = [collect EXCEPT ![s] = local],
           contextSwitchIntervals' \in [Cpus -> Stats],
           intervalStatsPool' \subseteq Stats
    PROVE  Locals'
<1>1. collect' \in [Scrapers -> Local]
    BY DEF Locals
<1>2. \A r \in Scrapers : Ready(collect'[r])
    BY DEF Locals
<1>3. QED
    BY <1>1, <1>2 DEF Locals, Local, Ready, NoCollect

\* A scrape that moves no object: it begins, or goes on to the next field.
LEMMA SameHands ==
    ASSUME IndInv, NEW s \in Scrapers, NEW local \in Local, Ready(local),
           local.fresh = collect[s].fresh, local.old = collect[s].old,
           collect' = [collect EXCEPT ![s] = local],
           UNCHANGED <<contextSwitchIntervals, intervalStatsPool>>
    PROVE  IndInv'
<1>1. Locals'
    BY OthersReady DEF IndInv, Locals
<1>2. \A r \in Scrapers : collect'[r].fresh = collect[r].fresh
                       /\ collect'[r].old = collect[r].old
    BY DEF IndInv, Locals
<1>3. OnePlace'
    BY <1>2 DEF IndInv, OnePlace, CpusApart, OldApart, FreshApart, OldDiffer,
       FreshNotOld, FreshDiffer
<1>4. QED
    BY <1>1, <1>3 DEF IndInv

\* A scrape begins.
LEMMA BeginCollectInv ==
    ASSUME IndInv, NEW s \in Scrapers, BeginCollect(s)
    PROVE  IndInv'
<1> DEFINE local == [NoCollect EXCEPT !.phase = "get"]
<1>1. collect[s] = NoCollect
    BY DEF IndInv, Locals, Ready, BeginCollect, In
<1>2. collect' = [collect EXCEPT ![s] = local]
    BY <1>1 DEF BeginCollect, IndInv, Locals
<1>3. local \in Local /\ Ready(local)
  <2>1. local \in Local
    BY NoCollectLocal DEF Local
  <2>2. local.phase = "get" /\ local.cpu = 0 /\ local.todo = <<>>
    BY DEF NoCollect
  <2>3. Ready(local)
    BY <2>2, CpuNumbers DEF Ready
  <2>4. QED
    BY <2>1, <2>3
<1>4. local.fresh = collect[s].fresh /\ local.old = collect[s].old
    BY <1>1 DEF NoCollect
<1>5. UNCHANGED <<contextSwitchIntervals, intervalStatsPool>>
    BY DEF BeginCollect
<1>6. QED
  <2> HIDE DEF local
  <2> QED
    BY <1>2, <1>3, <1>4, <1>5, SameHands

\* An object from the pool, or one that is nowhere else, comes into the hands
\* of one scrape.
LEMMA GetStatsInv ==
    ASSUME IndInv, NEW s \in Scrapers, GetStats(s)
    PROVE  IndInv'
<1>1. PICK o \in Stats :
        /\ o \in intervalStatsPool \/ o \in Fresh
        /\ intervalStatsPool' = intervalStatsPool \ {o}
        /\ collect' = [collect EXCEPT ![s].phase = "swap", ![s].fresh = o,
                                      ![s].todo = Fields]
    BY DEF GetStats, AnyOf, Fresh, IndInv, Locals
<1> DEFINE local == [collect[s] EXCEPT !.phase = "swap", !.fresh = o,
                                       !.todo = Fields]
<1>2. collect' = [collect EXCEPT ![s] = local]
    BY <1>1 DEF IndInv, Locals, Local
<1>3. collect[s] \in Local /\ Ready(collect[s]) /\ collect[s].phase = "get"
    BY DEF IndInv, Locals, GetStats, In
<1>4. local \in Local
    BY <1>3, FieldsPend DEF Local
<1>5. Ready(local)
    BY <1>3, CollectorAssumption DEF Local, Ready, CollectorAssumption
<1>6. UNCHANGED contextSwitchIntervals
    BY DEF GetStats
<1>7. Locals'
  <2> HIDE DEF local
  <2> QED
    BY <1>1, <1>2, <1>4, <1>5, <1>6, OthersReady DEF IndInv, Locals
<1>8. /\ collect'[s].fresh = o
      /\ \A r \in Scrapers : r # s => collect'[r].fresh = collect[r].fresh
      /\ \A r \in Scrapers : collect'[r].old = collect[r].old
    BY <1>2, <1>3 DEF IndInv, Locals, Local
<1>9. /\ \A d \in Cpus : o # contextSwitchIntervals[d]
      /\ \A r \in Scrapers : o # collect[r].fresh
      /\ \A r \in Scrapers, d \in Cpus : o # collect[r].old[d]
  <2>1. CASE o \in intervalStatsPool
    BY <2>1 DEF IndInv, OnePlace, CpusApart, OldApart, FreshApart, OldDiffer,
       FreshNotOld, FreshDiffer
  <2>2. CASE o \in Fresh
    <3>1. \A r \in Scrapers : /\ o # collect[r].fresh
                              /\ o \notin Range(collect[r].old)
        BY <2>2 DEF Fresh
    <3>2. \A r \in Scrapers : DOMAIN collect[r].old = Cpus
        BY DEF IndInv, Locals, Local
    <3>3. DOMAIN contextSwitchIntervals = Cpus
        BY DEF IndInv, Locals
    <3>4. \A d \in Cpus : o # contextSwitchIntervals[d]
        BY <2>2, <3>3 DEF Fresh
    <3>5. QED
        BY <3>1, <3>2, <3>4
  <2>3. QED
    BY <1>1, <2>1, <2>2
<1>10. \A x : x \in intervalStatsPool' <=> x \in intervalStatsPool /\ x # o
    BY <1>1
<1>11. OnePlace'
  <2>1. CpusApart'
    BY <1>6, <1>8, <1>9, <1>10
    DEF IndInv, OnePlace, CpusApart
  <2>2. OldApart'
    BY <1>6, <1>8, <1>9, <1>10
    DEF IndInv, OnePlace, OldApart
  <2>3. FreshApart'
    BY <1>6, <1>8, <1>9, <1>10
    DEF IndInv, OnePlace, FreshApart
  <2>4. OldDiffer'
    BY <1>6, <1>8, <1>9, <1>10
    DEF IndInv, OnePlace, OldDiffer
  <2>5. FreshNotOld'
    BY <1>6, <1>8, <1>9, <1>10
    DEF IndInv, OnePlace, FreshNotOld
  <2>6. FreshDiffer'
    BY <1>6, <1>8, <1>9, <1>10
    DEF IndInv, OnePlace, FreshDiffer
  <2>7. QED
    BY <2>1, <2>2, <2>3, <2>4, <2>5, <2>6 DEF OnePlace
<1>12. QED
    BY <1>7, <1>11 DEF IndInv

\* The reset of an object, a field at a time, moves none.
LEMMA ResetStatsInv ==
    ASSUME IndInv, NEW s \in Scrapers, ResetStats(s)
    PROVE  IndInv'
<1> DEFINE local == [collect[s] EXCEPT !.todo = Tail(@)]
<1>1. collect' = [collect EXCEPT ![s] = local]
    BY DEF ResetStats, IndInv, Locals
<1>2. collect[s] \in Local /\ Ready(collect[s])
        /\ collect[s].phase = "swap" /\ collect[s].todo # <<>>
    BY DEF IndInv, Locals, ResetStats
<1>3. local \in Local /\ Ready(local)
  <2>1. Tail(collect[s].todo) \in Todos
    BY <1>2, FieldsLeft DEF Local
  <2>2. local \in Local
    BY <1>2, <2>1 DEF Local
  <2>3. Ready(local)
    BY <1>2 DEF Local, Ready
  <2>4. QED
    BY <2>2, <2>3
<1>4. local.fresh = collect[s].fresh /\ local.old = collect[s].old
    BY <1>2 DEF Local
<1>5. UNCHANGED <<contextSwitchIntervals, intervalStatsPool>>
    BY DEF ResetStats
<1>6. QED
  <2> HIDE DEF local
  <2> QED
    BY <1>1, <1>3, <1>4, <1>5, SameHands

\* Nor does the merge.
LEMMA MergeStatsInv ==
    ASSUME IndInv, NEW s \in Scrapers, MergeStats(s)
    PROVE  IndInv'
<1> DEFINE local == [collect[s] EXCEPT !.todo = Tail(@)]
<1>1. collect' = [collect EXCEPT ![s] = local]
    BY DEF MergeStats, IndInv, Locals
<1>2. collect[s] \in Local /\ Ready(collect[s])
        /\ collect[s].phase = "merge" /\ collect[s].todo # <<>>
    BY DEF IndInv, Locals, MergeStats
<1>3. local \in Local /\ Ready(local)
  <2>1. Tail(collect[s].todo) \in Todos
    BY <1>2, FieldsLeft DEF Local
  <2>2. local \in Local
    BY <1>2, <2>1 DEF Local
  <2>3. Ready(local)
    BY <1>2 DEF Local, Ready
  <2>4. QED
    BY <2>2, <2>3
<1>4. local.fresh = collect[s].fresh /\ local.old = collect[s].old
    BY <1>2 DEF Local
<1>5. UNCHANGED <<contextSwitchIntervals, intervalStatsPool>>
    BY DEF MergeStats
<1>6. QED
  <2> HIDE DEF local
  <2> QED
    BY <1>1, <1>3, <1>4, <1>5, SameHands

\* A scrape gives the CPU the object it has fresh, and takes its old one.
LEMMA SwapStatsInv ==
    ASSUME IndInv, NEW s \in Scrapers, SwapStats(s)
    PROVE  IndInv'
<1> DEFINE c == collect[s].cpu
           taken == contextSwitchIntervals[c]
           local == [collect[s] EXCEPT
                    !.old[c] = taken, !.fresh = None,
                    !.phase = IF c = LastCpu THEN "merge" ELSE "get",
                    !.todo = IF c = LastCpu THEN Fields ELSE <<>>,
                    !.cpu = IF c = LastCpu THEN 0 ELSE c + 1]
<1>1. collect' = [collect EXCEPT ![s] = local]
    BY DEF SwapStats
<1>2. collect[s] \in Local /\ Ready(collect[s]) /\ collect[s].phase = "swap"
    BY DEF IndInv, Locals, SwapStats, In
<1>3. c \in Cpus /\ taken \in Stats /\ taken # None
      /\ collect[s].fresh \in Stats /\ collect[s].fresh # None
    BY <1>2, CollectorAssumption
    DEF IndInv, Locals, Local, Ready, CollectorAssumption
<1>4. /\ contextSwitchIntervals' =
            [contextSwitchIntervals EXCEPT ![c] = collect[s].fresh]
      /\ UNCHANGED intervalStatsPool
    BY DEF SwapStats, Swapped
<1>5. local \in Local
  <2>1. [collect[s].old EXCEPT ![c] = taken] \in [Cpus -> Stats \union {None}]
    BY <1>2, <1>3 DEF Local
  <2>2. (IF c = LastCpu THEN 0 ELSE c + 1) \in Cpus
    BY <1>3, CpuNumbers
  <2>3. (IF c = LastCpu THEN Fields ELSE <<>>) \in Todos
    BY FieldsPend
  <2>4. QED
    BY <1>2, <2>1, <2>2, <2>3 DEF Local
<1>6. Ready(local)
    BY <1>2, <1>3, CpuNumbers DEF Local, Ready
<1>7. Locals'
  <2> HIDE DEF local
  <2> QED
    BY <1>1, <1>3, <1>4, <1>5, <1>6, OthersReady DEF IndInv, Locals
<1>8. /\ \A r \in Scrapers : \A d \in Cpus :
            collect'[r].old[d] = IF r = s /\ d = c THEN taken
                                 ELSE collect[r].old[d]
      /\ \A r \in Scrapers :
            collect'[r].fresh = IF r = s THEN None ELSE collect[r].fresh
      /\ \A d \in Cpus :
            contextSwitchIntervals'[d] = IF d = c THEN collect[s].fresh
                                         ELSE contextSwitchIntervals[d]
    BY <1>1, <1>2, <1>3, <1>4 DEF IndInv, Locals, Local
<1> HIDE DEF local
<1>9. OnePlace'
  <2>1. CpusApart'
    BY <1>3, <1>4, <1>8, CollectorAssumption
    DEF IndInv, OnePlace, Locals, CollectorAssumption, CpusApart, CpusApart,
        OldApart, FreshApart, FreshNotOld, FreshDiffer
  <2>2. OldApart'
    BY <1>3, <1>4, <1>8, CollectorAssumption
    DEF IndInv, OnePlace, Locals, CollectorAssumption, OldApart, CpusApart,
        OldApart, FreshApart, FreshNotOld, FreshDiffer
  <2>3. FreshApart'
    BY <1>3, <1>4, <1>8, CollectorAssumption
    DEF IndInv, OnePlace, Locals, CollectorAssumption, FreshApart, CpusApart,
        OldApart, FreshApart, FreshNotOld, FreshDiffer
  <2>4. OldDiffer'
    BY <1>3, <1>4, <1>8, CollectorAssumption
    DEF IndInv, OnePlace, Locals, CollectorAssumption, OldDiffer, CpusApart,
        OldApart, FreshApart, FreshNotOld, FreshDiffer
  <2>5. FreshNotOld'
    BY <1>3, <1>4, <1>8, CollectorAssumption
    DEF IndInv, OnePlace, Locals, CollectorAssumption, FreshNotOld, CpusApart,
        OldApart, FreshApart, FreshNotOld, FreshDiffer
  <2>6. FreshDiffer'
    BY <1>3, <1>4, <1>8, CollectorAssumption
    DEF IndInv, OnePlace, Locals, CollectorAssumption, FreshDiffer, CpusApart,
        OldApart, FreshApart, FreshNotOld, FreshDiffer
  <2>7. QED
    BY <2>1, <2>2, <2>3, <2>4, <2>5, <2>6 DEF OnePlace
<1>10. QED
    BY <1>7, <1>9 DEF IndInv

\* An object that was merged goes back to the pool, and out of hand.
LEMMA PutStatsInv ==
    ASSUME IndInv, NEW s \in Scrapers, PutStats(s)
    PROVE  IndInv'
<1> DEFINE c == collect[s].cpu
           local == IF c = LastCpu THEN NoCollect
                    ELSE [collect[s] EXCEPT !.cpu = c + 1, !.todo = Fields,
                                            !.old[c] = None]
<1>1. collect' = [collect EXCEPT ![s] = local]
    BY DEF PutStats
<1>2. collect[s] \in Local /\ Ready(collect[s]) /\ collect[s].phase = "merge"
    BY DEF IndInv, Locals, PutStats, In
<1>3. c \in Cpus /\ collect[s].old[c] \in Stats
  <2>1. c \in Cpus
    BY <1>2 DEF Local
  <2>2. collect[s].old[c] # None
    BY <1>2, <2>1, CpuNumbers DEF Ready
  <2>3. QED
    BY <1>2, <2>1, <2>2 DEF Local
<1>4. /\ intervalStatsPool' = intervalStatsPool \union {collect[s].old[c]}
      /\ UNCHANGED contextSwitchIntervals
    BY DEF PutStats
<1>5. local \in Local
  <2>1. CASE c = LastCpu
    BY <2>1, NoCollectLocal
  <2>2. CASE c # LastCpu
    <3>1. [collect[s].old EXCEPT ![c] = None] \in [Cpus -> Stats \union {None}]
        BY <1>2, <1>3 DEF Local
    <3>2. c + 1 \in Cpus
        BY <1>3, <2>2, CpuNumbers
    <3>3. QED
        BY <1>2, <2>2, <3>1, <3>2, FieldsPend DEF Local
  <2>3. QED
    BY <2>1, <2>2
<1>6. Ready(local)
    BY <1>2, <1>3, NoCollectLocal, CpuNumbers DEF Local, Ready
<1>7. Locals'
  <2> HIDE DEF local
  <2> QED
    BY <1>1, <1>3, <1>4, <1>5, <1>6, OthersReady DEF IndInv, Locals
<1>8. /\ \A r \in Scrapers : \A d \in Cpus :
            \/ collect'[r].old[d] = None
            \/ ~(r = s /\ d = c) /\ collect'[r].old[d] = collect[r].old[d]
      /\ \A r \in Scrapers : \/ collect'[r].fresh = None
                             \/ collect'[r].fresh = collect[r].fresh
      /\ \A x : x \in intervalStatsPool' <=>
                    x \in intervalStatsPool \/ x = collect[s].old[c]
    BY <1>1, <1>2, <1>3, <1>4 DEF IndInv, Locals, Local, NoCollect
<1> HIDE DEF local
<1>9. OnePlace'
  <2>1. CpusApart'
    BY <1>3, <1>4, <1>8, CollectorAssumption
    DEF IndInv, OnePlace, Locals, CollectorAssumption, CpusApart,
        OldApart, OldDiffer, FreshNotOld
  <2>2. OldApart'
    BY <1>3, <1>4, <1>8, CollectorAssumption
    DEF IndInv, OnePlace, Locals, CollectorAssumption, OldApart,
        OldApart, OldDiffer, FreshNotOld
  <2>3. FreshApart'
    BY <1>3, <1>4, <1>8, CollectorAssumption
    DEF IndInv, OnePlace, Locals, CollectorAssumption, FreshApart,
        OldApart, OldDiffer, FreshNotOld
  <2>4. OldDiffer'
    BY <1>3, <1>4, <1>8, CollectorAssumption
    DEF IndInv, OnePlace, Locals, CollectorAssumption, OldDiffer,
        OldApart, OldDiffer, FreshNotOld
  <2>5. FreshNotOld'
    BY <1>3, <1>4, <1>8, CollectorAssumption
    DEF IndInv, OnePlace, Locals, CollectorAssumption, FreshNotOld,
        OldApart, OldDiffer, FreshNotOld
  <2>6. FreshDiffer'
    BY <1>3, <1>4, <1>8, CollectorAssumption
    DEF IndInv, OnePlace, Locals, CollectorAssumption, FreshDiffer,
        OldApart, OldDiffer, FreshNotOld
  <2>7. QED
    BY <2>1, <2>2, <2>3, <2>4, <2>5, <2>6 DEF OnePlace
<1>10. QED
    BY <1>7, <1>9 DEF IndInv

\* Every step preserves the invariant.
LEMMA StepInv == ASSUME IndInv, [Next]_vars PROVE IndInv'
<1>1. ASSUME NEW c \in Cpus, HandleContextSwitchRaw(c) PROVE IndInv'
    BY <1>1, NothingMoves DEF HandleContextSwitchRaw
<1>2. ASSUME RecordSwitch PROVE IndInv'
    BY <1>2, NothingMoves DEF RecordSwitch
<1>3. ASSUME LoadStats PROVE IndInv'
    BY <1>3, NothingMoves DEF LoadStats
<1>4. ASSUME AddInterval PROVE IndInv'
    BY <1>4, NothingMoves DEF AddInterval
<1>5. ASSUME NEW s \in Scrapers,
             \/ BeginCollect(s) \/ GetStats(s) \/ ResetStats(s)
             \/ SwapStats(s) \/ MergeStats(s) \/ PutStats(s)
      PROVE  IndInv'
    BY <1>5, BeginCollectInv, GetStatsInv, ResetStatsInv, SwapStatsInv,
       MergeStatsInv, PutStatsInv
<1>6. CASE UNCHANGED vars
    BY <1>6, NothingMoves DEF vars
<1>7. QED
    BY <1>1, <1>2, <1>3, <1>4, <1>5, <1>6 DEF Next, Waiting

\* An object with one place has one owner.
LEMMA IndInvSoleOwner == ASSUME IndInv PROVE SoleOwner
<1> DEFINE Held(s) == {collect[s].old[c] : c \in Cpus} \union {collect[s].fresh}
           mine == [s \in Scrapers |-> Held(s) \ {None}]
<1>1. \A c, d \in Cpus :
        c # d => contextSwitchIntervals[c] # contextSwitchIntervals[d]
    BY DEF IndInv, OnePlace, CpusApart, OldApart, FreshApart, OldDiffer,
       FreshNotOld, FreshDiffer
<1>2. \A s \in Scrapers : \A x \in mine[s] :
        x # None /\ (x = collect[s].fresh
                     \/ \E c \in Cpus : x = collect[s].old[c])
    OBVIOUS
<1>3. Range(contextSwitchIntervals) = {contextSwitchIntervals[c] : c \in Cpus}
    BY DEF IndInv, Locals
<1>4. \A s \in Scrapers : mine[s] \intersect Range(contextSwitchIntervals) = {}
    BY <1>2, <1>3
    DEF IndInv, OnePlace, CpusApart, OldApart, FreshApart, OldDiffer,
        FreshNotOld, FreshDiffer
<1>5. \A s \in Scrapers : mine[s] \intersect intervalStatsPool = {}
    BY <1>2 DEF IndInv, OnePlace, CpusApart, OldApart, FreshApart, OldDiffer,
       FreshNotOld, FreshDiffer
<1>6. \A s \in Scrapers : \A r \in Scrapers \ {s} :
        mine[s] \intersect mine[r] = {}
    BY <1>2 DEF IndInv, OnePlace, CpusApart, OldApart, FreshApart, OldDiffer,
       FreshNotOld, FreshDiffer
<1>7. intervalStatsPool \intersect Range(contextSwitchIntervals) = {}
    BY <1>3 DEF IndInv, OnePlace, CpusApart, OldApart, FreshApart, OldDiffer,
       FreshNotOld, FreshDiffer
<1>8. QED
    BY <1>1, <1>4, <1>5, <1>6, <1>7 DEF SoleOwner

\* However many CPUs there are, and however many scrapes overlap, no two of
\* the CPUs, the scrapes and the pool ever hold the same IntervalStats.
THEOREM StatsHaveASoleOwner == Spec => []SoleOwner
<1>1. Init => IndInv
    BY InitInv
<1>2. IndInv /\ [Next]_vars => IndInv'
    BY StepInv
<1>3. IndInv => SoleOwner
    BY IndInvSoleOwner
<1>4. QED
    BY <1>1, <1>2, <1>3, PTL DEF Spec

-----------------------------------------------------------------------------
(* What the fields of an object hold.                                      *)

\* A field is read by its index: a count by the CPU, a bucket by its number.
Index(f) == CASE f = "count" -> Cpus
              [] f = "sum" -> {0}
              [] f = "buckets" -> Buckets
Read(x, f, i) == CASE f = "count" -> x.count[i]
                   [] f = "sum" -> x.sum
                   [] f = "buckets" -> x.buckets[i]

\* Where in a field the callback adds, and how much.
Cell(f) == CASE f = "count" -> loc.cpu
             [] f = "sum" -> 0
             [] f = "buckets" -> BucketOf(loc.interval)
Amount(f) == IF f = "sum" THEN loc.interval ELSE 1

Typed ==
    /\ stats \in [Stats -> Counters]
    /\ cumulativeIntervals \in [Cpus -> Counters]
    /\ contextSwitchesPerCPU \in [Cpus -> Nat] /\ intervals \in [Cpus -> Nat]
    /\ lastCpuSwitch \in [Cpus -> Nat] /\ firstSwitch \in [Cpus -> Nat]
    /\ now \in Nat /\ overtaken \in Nat /\ reused \in Nat

\* What the callback has in hand.
Before == {<<>>, <<"switch">>, <<"load">>}
CallbackReady ==
    /\ loc \in [todo : Todos \union Before, cpu : Cpus, interval : Nat,
                obj : Stats \union {None}]
    /\ loc.obj = None <=> loc.todo \in Before
    /\ loc.todo \notin {<<>>, <<"switch">>} => loc.interval > 0

\* A CPU has had no switch, or its first before its last.
Clocks ==
    \A c \in Cpus : /\ firstSwitch[c] <= lastCpuSwitch[c]
                    /\ lastCpuSwitch[c] <= now /\ now > 0
                    /\ firstSwitch[c] = 0 <=> lastCpuSwitch[c] = 0
Sound == Typed /\ CallbackReady /\ Clocks

\* The time between the first and the last switch of a CPU.
Elapsed == [c \in Cpus |-> lastCpuSwitch[c] - firstSwitch[c]]

\* The last bucket is there, and so is the one of an interval.
LEMMA BucketInRange ==
    ASSUME NEW n
    PROVE  BucketOf(n) \in Buckets
<1> DEFINE fits == {b \in Buckets : 2 ^ b <= n}
           above == {m \in Nat : \A d \in fits : d <= m}
<1>1. CASE fits = {}
    BY <1>1, CollectorAssumption DEF BucketOf, Buckets, CollectorAssumption
<1>2. CASE fits # {}
  <2>1. fits \subseteq Buckets /\ Buckets \subseteq Nat
    BY DEF Buckets
  <2>2. NBuckets - 1 \in above
    BY CollectorAssumption DEF Buckets, CollectorAssumption
  <2> HIDE DEF fits
  <2>3. PICK m \in above : \A k \in above : m <= k
    BY <2>2, LeastNat
  <2>4. m \in fits
    <3>1. SUFFICES ASSUME m \notin fits PROVE FALSE
        OBVIOUS
    <3>2. \A d \in fits : d < m
        BY <2>1, <2>3, <3>1
    <3>3. m > 0
      <4>1. PICK d \in fits : TRUE
        BY <1>2
      <4>2. d \in Nat /\ m \in Nat /\ d < m
        BY <2>1, <2>3, <3>2
      <4>3. QED
        BY <4>2
    <3>4. m - 1 \in above
        BY <2>1, <2>3, <3>2, <3>3
    <3>5. QED
        BY <2>3, <3>4
  <2>5. \E b \in fits : \A d \in fits : d <= b
    BY <2>3, <2>4
  <2>6. BucketOf(n) = CHOOSE b \in fits : \A d \in fits : d <= b
    BY <1>2 DEF BucketOf, fits
  <2>7. QED
    BY <2>1, <2>5, <2>6
<1>3. QED
    BY <1>1, <1>2

\* Counters read as natural numbers, and all of Zero as 0.
LEMMA ReadType ==
    /\ \A x \in Counters, f \in FieldName : \A i \in Index(f) :
            Read(x, f, i) \in Nat
    /\ Zero \in Counters
    /\ \A f \in FieldName : \A i \in Index(f) : Read(Zero, f, i) = 0
<1>1. Zero \in Counters
    BY DEF Zero, Counters
<1>2. \A x \in Counters, f \in FieldName : \A i \in Index(f) :
            Read(x, f, i) \in Nat
    BY DEF FieldName, Index, Read, Counters
<1>3. \A f \in FieldName : \A i \in Index(f) : Read(Zero, f, i) = 0
    BY DEF FieldName, Index, Read, Zero
<1>4. QED
    BY <1>1, <1>2, <1>3

\* Reset sets one field to zero.
LEMMA ReadReset ==
    ASSUME NEW x \in Counters, NEW g \in FieldName
    PROVE  /\ [x EXCEPT ![g] = Zero[g]] \in Counters
           /\ \A f \in FieldName : \A i \in Index(f) :
                Read([x EXCEPT ![g] = Zero[g]], f, i) =
                    IF f = g THEN 0 ELSE Read(x, f, i)
<1>1. CASE g = "count"
    BY <1>1 DEF FieldName, Index, Read, Counters, Zero
<1>2. CASE g = "sum"
    BY <1>2 DEF FieldName, Index, Read, Counters, Zero
<1>3. CASE g = "buckets"
    BY <1>3 DEF FieldName, Index, Read, Counters, Zero
<1>4. QED
    BY <1>1, <1>2, <1>3 DEF FieldName

\* Merge adds one field to the same field of the totals.
LEMMA ReadMerged ==
    ASSUME NEW x \in Counters, NEW y \in Counters, NEW g \in FieldName
    PROVE  /\ Merged(x, y, g) \in Counters
           /\ \A f \in FieldName : \A i \in Index(f) :
                Read(Merged(x, y, g), f, i) =
                    IF f = g THEN Read(x, f, i) + Read(y, f, i)
                    ELSE Read(x, f, i)
<1>1. CASE g = "count"
    BY <1>1 DEF FieldName, Index, Read, Counters, Merged
<1>2. CASE g = "sum"
    BY <1>2 DEF FieldName, Index, Read, Counters, Merged
<1>3. CASE g = "buckets"
    BY <1>3 DEF FieldName, Index, Read, Counters, Merged
<1>4. QED
    BY <1>1, <1>2, <1>3 DEF FieldName

\* The callback adds to one cell of one field.
LEMMA ReadAdded ==
    ASSUME CallbackReady, NEW x \in Counters, NEW g \in FieldName
    PROVE  /\ Cell(g) \in Index(g) /\ Amount(g) \in Nat
           /\ Added(x, g) \in Counters
           /\ \A f \in FieldName : \A i \in Index(f) :
                Read(Added(x, g), f, i) =
                    Read(x, f, i) + (IF f = g /\ i = Cell(g)
                                     THEN Amount(g) ELSE 0)
<1>1. loc.cpu \in Cpus /\ loc.interval \in Nat
      /\ BucketOf(loc.interval) \in Buckets
    BY BucketInRange DEF CallbackReady
<1>2. CASE g = "count"
  <2>1. /\ Cell(g) = loc.cpu /\ Amount(g) = 1
        /\ Added(x, g) = [x EXCEPT !.count[loc.cpu] = @ + 1]
    BY <1>2 DEF Cell, Amount, Added
  <2>2. QED
    BY <1>1, <1>2, <2>1 DEF FieldName, Index, Read, Counters
<1>3. CASE g = "sum"
  <2>1. /\ Cell(g) = 0 /\ Amount(g) = loc.interval
        /\ Added(x, g) = [x EXCEPT !.sum = @ + loc.interval]
    BY <1>3 DEF Cell, Amount, Added
  <2>2. QED
    BY <1>1, <1>3, <2>1 DEF FieldName, Index, Read, Counters
<1>4. CASE g = "buckets"
  <2> DEFINE b == BucketOf(loc.interval)
  <2>1. /\ Cell(g) = b /\ Amount(g) = 1
        /\ Added(x, g) = [x EXCEPT !.buckets[b] = @ + 1]
    BY <1>4 DEF Cell, Amount, Added
  <2>2. b \in Buckets
    BY <1>1
  <2> HIDE DEF b
  <2>3. QED
    BY <1>4, <2>1, <2>2 DEF FieldName, Index, Read, Counters
<1>5. QED
    BY <1>2, <1>3, <1>4 DEF FieldName

\* The counters are natural numbers, and nothing has happened.
LEMMA InitSound == ASSUME Init PROVE Sound
<1>1. Typed /\ Clocks
    BY ReadType DEF Init, Typed, Clocks
<1>2. 0 \in Cpus
    BY CpuNumbers
<1>3. CallbackReady
    BY <1>2, FieldsPend DEF Init, CallbackReady, Idle, Before
<1>4. QED
    BY <1>1, <1>3 DEF Sound

\* A name of a step of the callback is not a list of fields.
LEMMA StepsDiffer ==
    /\ <<"switch">> # <<"load">> /\ <<"switch">> # <<>> /\ <<"load">> # <<>>
    /\ \A todo \in Todos : todo # <<"switch">> /\ todo # <<"load">>
<1>1. \A f \in FieldName : f # "switch" /\ f # "load"
    BY DEF FieldName
<1>2. \A todo \in Todos \ {<<>>} : todo[1] \in FieldName
    BY DEF Todos, FieldName, Fields
<1>3. \A todo \in Todos \ {<<>>} : todo # <<"switch">> /\ todo # <<"load">>
    BY <1>1, <1>2
<1>4. <<"switch">> # <<"load">> /\ <<"switch">> # <<>> /\ <<"load">> # <<>>
    OBVIOUS
<1>5. QED
    BY <1>3, <1>4

\* The callback measures an interval: the time that passes between the first
\* and the last switch of the CPU grows by as much.
LEMMA HandleSteps ==
    ASSUME Sound, NEW c \in Cpus, HandleContextSwitchRaw(c)
    PROVE  /\ Sound'
           /\ loc' = [todo |-> <<"switch">>, cpu |-> c, obj |-> None,
                      interval |-> loc'.interval]
           /\ loc'.interval \in Nat
           /\ intervals' = IF loc'.interval > 0
                           THEN [intervals EXCEPT ![c] = @ + 1]
                           ELSE intervals
           /\ Elapsed' = [Elapsed EXCEPT ![c] = @ + loc'.interval]
<1>1. PICK time \in now..MaxTime :
        LET interval == IntervalSince(lastCpuSwitch[c], time)
        IN  /\ now' = time
            /\ lastCpuSwitch' = [lastCpuSwitch EXCEPT ![c] = time]
            /\ firstSwitch' = IF firstSwitch[c] = 0
                              THEN [firstSwitch EXCEPT ![c] = time]
                              ELSE firstSwitch
            /\ intervals' = IF interval > 0
                            THEN [intervals EXCEPT ![c] = @ + 1]
                            ELSE intervals
            /\ loc' = [Idle EXCEPT !.todo = <<"switch">>, !.cpu = c,
                                   !.interval = interval]
    BY DEF HandleContextSwitchRaw
<1> DEFINE interval == IntervalSince(lastCpuSwitch[c], time)
<1>2. /\ loc' = [todo |-> <<"switch">>, cpu |-> c, obj |-> None,
                 interval |-> interval]
      /\ loc'.interval = interval
    BY <1>1 DEF Idle
<1>3. /\ lastCpuSwitch[c] \in Nat /\ firstSwitch[c] \in Nat /\ now \in Nat
      /\ time \in Nat /\ now <= time /\ lastCpuSwitch[c] <= now
      /\ firstSwitch[c] <= lastCpuSwitch[c] /\ now > 0
      /\ firstSwitch[c] = 0 <=> lastCpuSwitch[c] = 0
    BY <1>1, CollectorAssumption
    DEF Sound, Typed, Clocks, CollectorAssumption
<1>4. interval \in Nat
    BY <1>3 DEF IntervalSince
<1>5. Typed'
  <2>1. UNCHANGED <<stats, cumulativeIntervals, contextSwitchesPerCPU,
                    overtaken, reused>>
    BY DEF HandleContextSwitchRaw
  <2>2. /\ lastCpuSwitch' \in [Cpus -> Nat] /\ firstSwitch' \in [Cpus -> Nat]
        /\ now' \in Nat
    BY <1>1, <1>3 DEF Sound, Typed
  <2>3. intervals' \in [Cpus -> Nat]
    BY <1>1 DEF Sound, Typed
  <2>4. QED
    BY <2>1, <2>2, <2>3 DEF Sound, Typed
<1>6. Clocks'
    BY <1>1, <1>3 DEF Sound, Typed, Clocks
<1>7. CallbackReady'
    BY <1>2, <1>4, StepsDiffer DEF CallbackReady, Before
<1>8. Elapsed' = [Elapsed EXCEPT ![c] = @ + interval]
  <2>1. lastCpuSwitch'[c] = time
        /\ firstSwitch'[c] = IF firstSwitch[c] = 0 THEN time
                             ELSE firstSwitch[c]
    BY <1>1 DEF Sound, Typed
  <2>2. lastCpuSwitch'[c] - firstSwitch'[c]
            = (lastCpuSwitch[c] - firstSwitch[c]) + interval
    BY <1>3, <2>1 DEF IntervalSince
  <2>3. \A d \in Cpus : d # c => lastCpuSwitch'[d] = lastCpuSwitch[d]
                              /\ firstSwitch'[d] = firstSwitch[d]
    BY <1>1 DEF Sound, Typed
  <2> HIDE DEF interval
  <2>4. QED
    BY <2>2, <2>3 DEF Elapsed
<1>9. QED
    BY <1>1, <1>2, <1>4, <1>5, <1>6, <1>7, <1>8 DEF Sound

\* The switch is counted, and what is left is the interval, if there is one.
LEMMA RecordSound == ASSUME Sound, RecordSwitch PROVE Sound'
<1>1. Typed' /\ Clocks'
    BY DEF Sound, Typed, Clocks, CallbackReady, RecordSwitch
<1>2. \/ loc' = Idle
      \/ /\ loc' = [loc EXCEPT !.todo = <<"load">>]
         /\ loc.interval > 0 /\ loc.obj = None
  <2>1. loc.obj = None
    BY DEF RecordSwitch, Sound, CallbackReady, Before
  <2>2. QED
    BY <2>1 DEF RecordSwitch
<1>3. 0 \in Cpus
    BY CpuNumbers
<1>4. CallbackReady'
    BY <1>2, <1>3, FieldsPend, StepsDiffer
    DEF Sound, CallbackReady, Before, Idle
<1>5. QED
    BY <1>1, <1>4 DEF Sound

\* The object of the CPU is loaded, all its fields to be added to.
LEMMA LoadSound == ASSUME Sound, IndInv, LoadStats PROVE Sound'
<1>1. Typed' /\ Clocks'
    BY DEF Sound, Typed, Clocks, LoadStats
<1>2. /\ loc' = [loc EXCEPT !.todo = Fields, !.obj = StatsOf(loc.cpu)]
      /\ loc.interval > 0 /\ loc.todo = <<"load">>
    BY StepsDiffer DEF LoadStats, Sound, CallbackReady
<1>3. StatsOf(loc.cpu) \in Stats /\ StatsOf(loc.cpu) # None
    BY CollectorAssumption
    DEF Sound, CallbackReady, IndInv, Locals, StatsOf, CollectorAssumption
<1>4. Fields \notin Before /\ Fields \in Todos
    BY FieldsPend, StepsDiffer DEF Before
<1>5. CallbackReady'
    BY <1>2, <1>3, <1>4, StepsDiffer DEF Sound, CallbackReady
<1>6. QED
    BY <1>1, <1>5 DEF Sound

\* The callback adds to a field of its object.
LEMMA AddSteps ==
    ASSUME Sound, AddInterval
    PROVE  /\ loc.obj \in Stats /\ loc.todo \in Todos \ {<<>>}
           /\ loc.interval > 0 /\ Head(loc.todo) \in FieldName
           /\ stats' = [stats EXCEPT ![loc.obj] =
                            Added(stats[loc.obj], Head(loc.todo))]
           /\ loc'.todo = Tail(loc.todo)
           /\ loc' = Idle <=> Head(loc.todo) = "buckets"
           /\ loc' = Idle \/ /\ loc'.obj = loc.obj /\ loc'.cpu = loc.cpu
                             /\ loc'.interval = loc.interval
           /\ Sound'
<1>1. /\ loc.obj \in Stats /\ loc.todo \in Todos /\ loc.todo # <<>>
      /\ loc.interval > 0 /\ loc.obj # None /\ loc.cpu \in Cpus
      /\ loc.interval \in Nat
    BY StepsDiffer DEF Sound, CallbackReady, AddInterval, Before
<1>2. stats' = [stats EXCEPT ![loc.obj] =
                    Added(stats[loc.obj], Head(loc.todo))]
    BY DEF AddInterval
<1>3. Head(loc.todo) \in FieldName /\ Tail(loc.todo) \in Todos
      /\ (Tail(loc.todo) = <<>> <=> Len(loc.todo) = 1)
      /\ (Tail(loc.todo) = <<>> <=> Head(loc.todo) = "buckets")
    BY <1>1, FieldsLeft
<1>4. loc' = IF Tail(loc.todo) = <<>> THEN Idle
             ELSE [loc EXCEPT !.todo = Tail(@)]
    BY <1>3 DEF AddInterval
<1>5. /\ loc'.todo = Tail(loc.todo)
      /\ loc' = Idle \/ /\ loc'.obj = loc.obj /\ loc'.cpu = loc.cpu
                        /\ loc'.interval = loc.interval
      /\ loc' = Idle <=> Head(loc.todo) = "buckets"
  <2>1. CASE Tail(loc.todo) = <<>>
    BY <1>3, <1>4, <2>1 DEF Idle
  <2>2. CASE Tail(loc.todo) # <<>>
    <3>1. /\ loc'.todo = Tail(loc.todo) /\ loc'.obj = loc.obj
          /\ loc'.cpu = loc.cpu /\ loc'.interval = loc.interval
        BY <1>4, <2>2 DEF Sound, CallbackReady
    <3>2. Idle.todo = <<>> /\ loc'.todo # <<>>
        BY <2>2, <3>1 DEF Idle
    <3>3. QED
        BY <1>3, <2>2, <3>1, <3>2
  <2>3. QED
    BY <2>1, <2>2
<1>6. Typed' /\ Clocks'
  <2>1. Added(stats[loc.obj], Head(loc.todo)) \in Counters
    BY <1>1, <1>3, ReadAdded DEF Sound, Typed
  <2>2. stats' \in [Stats -> Counters]
    BY <1>2, <2>1 DEF Sound, Typed
  <2>3. QED
    BY <2>2 DEF Sound, Typed, Clocks, AddInterval
<1>7. CallbackReady'
  <2>1. CASE Tail(loc.todo) = <<>>
    BY <1>4, <2>1, CpuNumbers, FieldsPend DEF Idle, CallbackReady, Before
  <2>2. CASE Tail(loc.todo) # <<>>
    BY <1>1, <1>3, <1>4, <2>2, StepsDiffer DEF Sound, CallbackReady, Before
  <2>3. QED
    BY <2>1, <2>2
<1>8. QED
    BY <1>1, <1>2, <1>3, <1>5, <1>6, <1>7 DEF Sound

-----------------------------------------------------------------------------
(* What an object is worth to the totals of a CPU.                         *)

\* A scrape holds object o for CPU d, as to field f, from the swap until the
\* field is merged; and a fresh one once the field is reset.
HoldsBy(local, o, d, f) ==
    \/ /\ local.old[d] = o
       /\ \/ local.phase \in {"get", "swap"} /\ d < local.cpu
          \/ local.phase = "merge" /\ local.cpu < d
          \/ local.phase = "merge" /\ local.cpu = d /\ Pends(local.todo, f)
    \/ /\ local.phase = "swap" /\ local.fresh = o /\ local.cpu = d
       /\ ~Pends(local.todo, f)
Holds(o, d, f) == \/ contextSwitchIntervals[d] = o
                  \/ \E s \in Scrapers : HoldsBy(collect[s], o, d, f)

\* The count of o is in the totals, and its other fields are to follow.
HalfMergedBy(local, o) ==
    /\ local.phase = "merge" /\ local.old[local.cpu] = o
    /\ ~Pends(local.todo, "count")
HalfMerged(o) == \E s \in Scrapers : HalfMergedBy(collect[s], o)

\* What the totals of d hold once the objects of U, and those of which a part
\* is in the totals, are merged.
Weighs(o, d, f, U) == Holds(o, d, f) /\ (o \in U \/ HalfMerged(o))
Share(d, f, i, U) ==
    [o \in Stats |-> IF Weighs(o, d, f, U) THEN Read(stats[o], f, i) ELSE 0]
Recorded(d, f, i, U) ==
    Read(cumulativeIntervals[d], f, i) + Total(Share(d, f, i, U))

\* What is recorded is a natural number, and no less than what is merged.
LEMMA RecordedType ==
    ASSUME Typed, NEW d \in Cpus, NEW f \in FieldName, NEW i \in Index(f),
           NEW U
    PROVE  /\ Summable(Share(d, f, i, U)) /\ Total(Share(d, f, i, U)) \in Nat
           /\ Read(cumulativeIntervals[d], f, i) \in Nat
           /\ Recorded(d, f, i, U) \in Nat
           /\ Read(cumulativeIntervals[d], f, i) <= Recorded(d, f, i, U)
<1>1. \A o \in Stats : Read(stats[o], f, i) \in Nat
    BY ReadType DEF Typed
<1>2. DOMAIN Share(d, f, i, U) = Stats /\ IsFiniteSet(Stats)
    BY CollectorAssumption DEF Share, CollectorAssumption
<1>3. \A o \in Stats : Share(d, f, i, U)[o] \in Nat
    BY <1>1 DEF Share
<1>4. Share(d, f, i, U) = [o \in Stats |-> Share(d, f, i, U)[o]]
    BY DEF Share
<1>5. Summable(Share(d, f, i, U))
    BY <1>2, <1>3, <1>4 DEF Summable
<1>6. Total(Share(d, f, i, U)) \in Nat
    BY <1>2, <1>3, <1>5, TotalNat
<1>7. Read(cumulativeIntervals[d], f, i) \in Nat
    BY ReadType DEF Typed
<1>8. QED
    BY <1>5, <1>6, <1>7 DEF Recorded

\* An object that a scrape holds is in its hands, ...
LEMMA HoldsByOld ==
    ASSUME IndInv, NEW s \in Scrapers, NEW o \in Stats, NEW d \in Cpus,
           NEW f, HoldsBy(collect[s], o, d, f)
    PROVE  collect[s].old[d] = o \/ (collect[s].fresh = o /\ collect[s].cpu = d)
BY DEF HoldsBy

\* ... and is held for one CPU only.
LEMMA HeldOnce ==
    ASSUME IndInv, NEW o \in Stats, NEW d \in Cpus, NEW e \in Cpus,
           NEW f, NEW g, Holds(o, d, f), Holds(o, e, g)
    PROVE  d = e
<1>0. o # None
    BY CollectorAssumption DEF CollectorAssumption
<1>1. CASE contextSwitchIntervals[d] = o /\ contextSwitchIntervals[e] = o
    BY <1>1 DEF IndInv, OnePlace, CpusApart
<1>2. ASSUME NEW x \in Cpus, NEW y \in Cpus, NEW s \in Scrapers,
             contextSwitchIntervals[x] = o,
             collect[s].old[y] = o \/ collect[s].fresh = o
      PROVE  FALSE
    BY <1>2 DEF IndInv, OnePlace, OldApart, FreshApart
<1>3. ASSUME NEW s \in Scrapers, NEW r \in Scrapers,
             HoldsBy(collect[s], o, d, f), HoldsBy(collect[r], o, e, g)
      PROVE  d = e
  <2>1. CASE collect[s].old[d] = o /\ collect[r].old[e] = o
    BY <1>0, <2>1 DEF IndInv, OnePlace, OldDiffer
  <2>2. CASE collect[s].old[d] = o /\ collect[r].fresh = o
    BY <1>0, <2>2 DEF IndInv, OnePlace, FreshNotOld
  <2>3. CASE collect[s].fresh = o /\ collect[r].old[e] = o
    BY <1>0, <2>3 DEF IndInv, OnePlace, FreshNotOld
  <2>4. CASE /\ collect[s].fresh = o /\ collect[r].fresh = o
             /\ collect[s].cpu = d /\ collect[r].cpu = e
    BY <1>0, <2>4 DEF IndInv, OnePlace, FreshDiffer
  <2>5. QED
    BY <1>3, <2>1, <2>2, <2>3, <2>4, HoldsByOld
<1>4. QED
    BY <1>1, <1>2, <1>3, HoldsByOld DEF Holds

\* An object in the hands of a scrape is held by that scrape or by nobody.
LEMMA OldHeld ==
    ASSUME IndInv, NEW s \in Scrapers, NEW c \in Cpus, NEW o \in Stats,
           collect[s].old[c] = o, NEW d \in Cpus, NEW f, Holds(o, d, f)
    PROVE  d = c /\ HoldsBy(collect[s], o, c, f)
<1>1. o # None
    BY CollectorAssumption DEF CollectorAssumption
<1>2. contextSwitchIntervals[d] # o
    BY DEF IndInv, OnePlace, OldApart
<1>3. PICK r \in Scrapers : HoldsBy(collect[r], o, d, f)
    BY <1>2 DEF Holds
<1>4. collect[r].fresh # o
    BY <1>1 DEF IndInv, OnePlace, FreshNotOld
<1>5. collect[r].old[d] = o
    BY <1>3, <1>4, HoldsByOld
<1>6. r = s /\ d = c
    BY <1>1, <1>5 DEF IndInv, OnePlace, OldDiffer
<1>7. QED
    BY <1>3, <1>6

LEMMA FreshHeld ==
    ASSUME IndInv, NEW s \in Scrapers, NEW o \in Stats,
           collect[s].fresh = o, NEW d \in Cpus, NEW f, Holds(o, d, f)
    PROVE  d = collect[s].cpu /\ HoldsBy(collect[s], o, d, f)
<1>1. o # None
    BY CollectorAssumption DEF CollectorAssumption
<1>2. contextSwitchIntervals[d] # o
    BY DEF IndInv, OnePlace, FreshApart
<1>3. PICK r \in Scrapers : HoldsBy(collect[r], o, d, f)
    BY <1>2 DEF Holds
<1>4. collect[r].old[d] # o
    BY <1>1 DEF IndInv, OnePlace, FreshNotOld
<1>5. collect[r].fresh = o /\ collect[r].cpu = d
    BY <1>3, <1>4, HoldsByOld
<1>6. r = s
    BY <1>1, <1>5 DEF IndInv, OnePlace, FreshDiffer
<1>7. QED
    BY <1>3, <1>5, <1>6

\* What leaves the objects alone, and what each weighs, changes nothing.
LEMMA SameWorth ==
    ASSUME NEW U, UNCHANGED <<stats, cumulativeIntervals>>,
           \A o \in Stats, d \in Cpus, f \in FieldName :
                Weighs(o, d, f, U)' <=> Weighs(o, d, f, U)
    PROVE  \A d \in Cpus, f \in FieldName : \A i \in Index(f) :
                Recorded(d, f, i, U)' = Recorded(d, f, i, U)
<1> SUFFICES ASSUME NEW d \in Cpus, NEW f \in FieldName, NEW i \in Index(f)
             PROVE  Recorded(d, f, i, U)' = Recorded(d, f, i, U)
    OBVIOUS
<1>1. Share(d, f, i, U)' = Share(d, f, i, U)
    BY DEF Share
<1>2. QED
    BY <1>1 DEF Recorded

\* So it is when a scrape goes on, and holds the same objects for each CPU.
LEMMA SameHolds ==
    ASSUME Locals, NEW s \in Scrapers, NEW local,
           collect' = [collect EXCEPT ![s] = local],
           UNCHANGED <<stats, cumulativeIntervals, contextSwitchIntervals>>,
           \A o \in Stats, d \in Cpus, f \in FieldName :
                /\ HoldsBy(local, o, d, f) <=> HoldsBy(collect[s], o, d, f)
                /\ Holds(o, d, f) =>
                    (HalfMergedBy(local, o) <=> HalfMergedBy(collect[s], o)),
           NEW U
    PROVE  \A d \in Cpus, f \in FieldName : \A i \in Index(f) :
                Recorded(d, f, i, U)' = Recorded(d, f, i, U)
<1>1. \A r \in Scrapers : collect'[r] = IF r = s THEN local ELSE collect[r]
    BY DEF Locals
<1>2. ASSUME NEW o \in Stats, NEW d \in Cpus, NEW f \in FieldName
      PROVE  Weighs(o, d, f, U)' <=> Weighs(o, d, f, U)
  <2>1. \A r \in Scrapers :
            HoldsBy(collect'[r], o, d, f) <=> HoldsBy(collect[r], o, d, f)
    BY <1>1
  <2>2. Holds(o, d, f)' <=> Holds(o, d, f)
    BY <2>1 DEF Holds
  <2>3. Holds(o, d, f) => \A r \in Scrapers :
            HalfMergedBy(collect'[r], o) <=> HalfMergedBy(collect[r], o)
    BY <1>1
  <2>4. QED
    BY <2>2, <2>3 DEF Weighs, HalfMerged
<1>3. QED
    BY <1>2, SameWorth

-----------------------------------------------------------------------------
(* No step of a scrape changes what is recorded.                           *)

\* What is recorded with the objects of U after a step was recorded with
\* those of V before it, and no CPU has one of those that were added.
Keeps(U, V) ==
    /\ U \subseteq V /\ V \subseteq Stats
    /\ \A d \in Cpus : contextSwitchIntervals[d] \in V =>
                            contextSwitchIntervals[d] \in U
    /\ \A d \in Cpus, f \in FieldName : \A i \in Index(f) :
            Recorded(d, f, i, U)' = Recorded(d, f, i, V)

\* A scrape that begins holds nothing.
LEMMA BeginKeeps ==
    ASSUME IndInv, NEW s \in Scrapers, BeginCollect(s), NEW U \in SUBSET Stats
    PROVE  Keeps(U, U)
<1> DEFINE local == [NoCollect EXCEPT !.phase = "get"]
<1>1. collect[s] = NoCollect
    BY DEF IndInv, Locals, Ready, BeginCollect, In
<1>2. collect' = [collect EXCEPT ![s] = local]
    BY <1>1 DEF BeginCollect, IndInv, Locals
<1>3. /\ local.phase = "get" /\ local.cpu = 0 /\ NoCollect.phase = "idle"
      /\ \A d \in Cpus : ~(d < 0)
    BY CpuNumbers DEF NoCollect
<1>4. \A o \in Stats, d \in Cpus, f \in FieldName :
        /\ HoldsBy(local, o, d, f) <=> HoldsBy(collect[s], o, d, f)
        /\ HalfMergedBy(local, o) <=> HalfMergedBy(collect[s], o)
    BY <1>1, <1>3 DEF HoldsBy, HalfMergedBy
<1>5. UNCHANGED <<stats, cumulativeIntervals, contextSwitchIntervals>>
    BY DEF BeginCollect
<1> HIDE DEF local
<1>6. QED
    BY <1>2, <1>4, <1>5, SameHolds DEF Keeps, IndInv

\* An object that comes from the pool is not held before it is reset.
LEMMA GetKeeps ==
    ASSUME IndInv, NEW s \in Scrapers, GetStats(s), NEW U \in SUBSET Stats
    PROVE  Keeps(U, U)
<1>1. PICK o :
        collect' = [collect EXCEPT ![s].phase = "swap", ![s].fresh = o,
                                   ![s].todo = Fields]
    BY DEF GetStats
<1> DEFINE local == [collect[s] EXCEPT !.phase = "swap", !.fresh = o,
                                       !.todo = Fields]
<1>2. collect[s] \in Local /\ collect[s].phase = "get"
    BY DEF IndInv, Locals, GetStats, In
<1>3. collect' = [collect EXCEPT ![s] = local]
    BY <1>1, <1>2 DEF IndInv, Locals, Local
<1>4. /\ local.phase = "swap" /\ local.cpu = collect[s].cpu
      /\ local.old = collect[s].old /\ local.todo = Fields
    BY <1>2 DEF Local
<1> HIDE DEF local
<1>5. \A x \in Stats, d \in Cpus, f \in FieldName :
        /\ HoldsBy(local, x, d, f) <=> HoldsBy(collect[s], x, d, f)
        /\ HalfMergedBy(local, x) <=> HalfMergedBy(collect[s], x)
    BY <1>2, <1>4, FieldsPend DEF HoldsBy, HalfMergedBy
<1>6. UNCHANGED <<stats, cumulativeIntervals, contextSwitchIntervals>>
    BY DEF GetStats
<1>7. QED
    BY <1>3, <1>5, <1>6, SameHolds DEF Keeps, IndInv

\* An object that goes back to the pool was merged, and the next is not yet.
LEMMA PutKeeps ==
    ASSUME IndInv, NEW s \in Scrapers, PutStats(s), NEW U \in SUBSET Stats
    PROVE  Keeps(U, U)
<1> DEFINE c == collect[s].cpu
           local == IF c = LastCpu THEN NoCollect
                    ELSE [collect[s] EXCEPT !.cpu = c + 1, !.todo = Fields,
                                            !.old[c] = None]
<1>1. collect' = [collect EXCEPT ![s] = local]
    BY DEF PutStats
<1>2. collect[s] \in Local /\ collect[s].phase = "merge"
      /\ collect[s].todo = <<>> /\ c \in Cpus
    BY DEF IndInv, Locals, Local, PutStats, In
<1>3. \A x \in Stats : x # None
    BY CollectorAssumption DEF CollectorAssumption
<1>4. \A d \in Cpus : d \in Nat /\ d <= LastCpu
    BY CpuNumbers
<1>5. \A x \in Stats, d \in Cpus, f \in FieldName :
        HoldsBy(collect[s], x, d, f) <=> collect[s].old[d] = x /\ c < d
    BY <1>2, FieldsPend DEF HoldsBy
<1>6. \A x \in Stats, d \in Cpus, f \in FieldName :
        HoldsBy(local, x, d, f) <=> HoldsBy(collect[s], x, d, f)
  <2>1. CASE c = LastCpu
    <3>1. local.phase = "idle"
        BY <2>1 DEF NoCollect
    <3>2. \A d \in Cpus : ~(c < d)
        BY <1>2, <1>4, <2>1
    <3> HIDE DEF local, c
    <3>3. \A x, d, f : ~HoldsBy(local, x, d, f)
        BY <3>1 DEF HoldsBy
    <3>4. QED
        BY <1>5, <3>2, <3>3
  <2>2. CASE c # LastCpu
    <3>1. /\ local.phase = "merge" /\ local.cpu = c + 1
          /\ local.todo = Fields
          /\ local.old = [collect[s].old EXCEPT ![c] = None]
        BY <1>2, <2>2 DEF Local
    <3>2. \A d \in Cpus : local.old[d] = IF d = c THEN None
                                         ELSE collect[s].old[d]
        BY <1>2, <3>1 DEF Local
    <3> HIDE DEF local
    <3>3. \A x \in Stats, d \in Cpus, f \in FieldName :
            HoldsBy(local, x, d, f) <=> local.old[d] = x /\ c + 1 <= d
        BY <1>2, <1>4, <3>1, FieldsPend DEF HoldsBy
    <3>4. c \in Nat /\ \A d \in Cpus : c + 1 <= d <=> c < d
        BY <1>2, <1>4
    <3> HIDE DEF c
    <3>5. \A d \in Cpus : c < d => d # c
        BY <1>2, <1>4
    <3>6. QED
        BY <1>3, <1>5, <3>2, <3>3, <3>4, <3>5
  <2>3. QED
    BY <2>1, <2>2
<1>7. \A x : ~HalfMergedBy(local, x)
  <2>1. CASE c = LastCpu
    BY <2>1 DEF NoCollect, HalfMergedBy
  <2>2. CASE c # LastCpu
    <3>1. local.todo = Fields
        BY <1>2, <2>2 DEF Local
    <3>2. QED
        BY <3>1, FieldsPend DEF HalfMergedBy, FieldName
  <2>3. QED
    BY <2>1, <2>2
<1>8. ASSUME NEW x \in Stats, NEW d \in Cpus, NEW f \in FieldName,
             Holds(x, d, f), HalfMergedBy(collect[s], x)
      PROVE  FALSE
  <2>1. collect[s].old[c] = x
    BY <1>8 DEF HalfMergedBy
  <2> HIDE DEF c, local
  <2>2. d = c /\ HoldsBy(collect[s], x, c, f)
    <3>1. c \in Cpus /\ x \in Stats /\ d \in Cpus /\ Holds(x, d, f)
        BY <1>2, <1>8
    <3>2. QED
        BY <2>1, <3>1, OldHeld
  <2>3. ~(c < c)
    BY <1>2, <1>4
  <2>4. QED
    BY <1>2, <1>5, <2>2, <2>3
<1>9. UNCHANGED <<stats, cumulativeIntervals, contextSwitchIntervals>>
    BY DEF PutStats
<1> HIDE DEF local
<1>10. \A x \in Stats, d \in Cpus, f \in FieldName :
        Holds(x, d, f) =>
            (HalfMergedBy(local, x) <=> HalfMergedBy(collect[s], x))
    BY <1>7, <1>8
<1>11. QED
    BY <1>1, <1>6, <1>9, <1>10, SameHolds DEF Keeps, IndInv

\* The object that is swapped out was held for the CPU, and still is; so is the
\* one that is swapped in, which was reset.
LEMMA SwapKeeps ==
    ASSUME IndInv, NEW s \in Scrapers, SwapStats(s), NEW U \in SUBSET Stats
    PROVE  Keeps(U, U)
<1> DEFINE c == collect[s].cpu
           taken == contextSwitchIntervals[c]
           fresh == collect[s].fresh
           local == [collect[s] EXCEPT
                    !.old[c] = taken, !.fresh = None,
                    !.phase = IF c = LastCpu THEN "merge" ELSE "get",
                    !.todo = IF c = LastCpu THEN Fields ELSE <<>>,
                    !.cpu = IF c = LastCpu THEN 0 ELSE c + 1]
<1>1. /\ collect' = [collect EXCEPT ![s] = local]
      /\ contextSwitchIntervals' = [contextSwitchIntervals EXCEPT ![c] = fresh]
      /\ UNCHANGED <<stats, cumulativeIntervals>>
    BY DEF SwapStats, Swapped
<1>2. /\ collect[s] \in Local /\ collect[s].phase = "swap"
      /\ collect[s].todo = <<>> /\ c \in Cpus
    BY DEF IndInv, Locals, Local, SwapStats, In
<1>3. \A x \in Stats : x # None
    BY CollectorAssumption DEF CollectorAssumption
<1>4. /\ LastCpu \in Nat /\ c \in Nat /\ c <= LastCpu
      /\ \A d \in Cpus : d \in Nat /\ d <= LastCpu
    BY <1>2, CpuNumbers
<1>5. /\ local.old = [collect[s].old EXCEPT ![c] = taken]
      /\ local.phase = IF c = LastCpu THEN "merge" ELSE "get"
      /\ local.todo = IF c = LastCpu THEN Fields ELSE <<>>
      /\ local.cpu = IF c = LastCpu THEN 0 ELSE c + 1
    BY <1>2 DEF Local
<1>6. \A d \in Cpus : local.old[d] = IF d = c THEN taken
                                     ELSE collect[s].old[d]
    BY <1>2, <1>5 DEF Local
<1> HIDE DEF local
<1>7. \A x \in Stats, d \in Cpus, f \in FieldName :
        HoldsBy(collect[s], x, d, f) <=>
            \/ collect[s].old[d] = x /\ d < c
            \/ fresh = x /\ c = d
    BY <1>2, FieldsPend DEF HoldsBy
<1>8. \A x \in Stats, d \in Cpus, f \in FieldName :
        HoldsBy(local, x, d, f) <=> local.old[d] = x /\ d <= c
  <2>1. CASE c = LastCpu
    <3>1. \A x \in Stats, d \in Cpus, f \in FieldName :
            HoldsBy(local, x, d, f) <=> local.old[d] = x /\ (0 < d \/ 0 = d)
        BY <1>5, <2>1, FieldsPend DEF HoldsBy
    <3>2. \A d \in Cpus : (0 < d \/ 0 = d) /\ d <= c
        BY <1>4, <2>1
    <3> HIDE DEF c
    <3>3. QED
        BY <3>1, <3>2
  <2>2. CASE c # LastCpu
    <3>1. \A x \in Stats, d \in Cpus, f \in FieldName :
            HoldsBy(local, x, d, f) <=> local.old[d] = x /\ d < c + 1
        BY <1>5, <2>2 DEF HoldsBy
    <3>2. \A d \in Cpus : d < c + 1 <=> d <= c
        BY <1>4
    <3> HIDE DEF c
    <3>3. QED
        BY <3>1, <3>2
  <2>3. QED
    BY <2>1, <2>2
<1>9. /\ \A r \in Scrapers : r # s => collect'[r] = collect[r]
      /\ collect'[s] = local
      /\ \A d \in Cpus : contextSwitchIntervals'[d] =
            IF d = c THEN fresh ELSE contextSwitchIntervals[d]
    BY <1>1, <1>2 DEF IndInv, Locals
<1>10. \A d \in Cpus : (d <= c <=> d < c \/ d = c) /\ (d = c => ~(d < c))
    BY <1>4
<1> HIDE DEF c
<1>11. ASSUME NEW x \in Stats, NEW d \in Cpus, NEW f \in FieldName
       PROVE  Holds(x, d, f)' <=> Holds(x, d, f)
  <2>1. HoldsBy(local, x, d, f) <=>
            \/ collect[s].old[d] = x /\ d < c
            \/ taken = x /\ d = c
    BY <1>6, <1>8, <1>10
  <2>2. (contextSwitchIntervals'[d] = x \/ HoldsBy(local, x, d, f)) <=>
            (contextSwitchIntervals[d] = x \/ HoldsBy(collect[s], x, d, f))
    BY <1>7, <1>9, <2>1
  <2>3. \A r \in Scrapers : r # s =>
            (HoldsBy(collect'[r], x, d, f) <=> HoldsBy(collect[r], x, d, f))
    BY <1>9
  <2>4. Holds(x, d, f)' <=> \/ contextSwitchIntervals'[d] = x
                            \/ HoldsBy(local, x, d, f)
                            \/ \E r \in Scrapers :
                                r # s /\ HoldsBy(collect'[r], x, d, f)
    BY <1>9 DEF Holds
  <2>5. QED
    BY <2>2, <2>3, <2>4 DEF Holds
<1>12. ASSUME NEW x
       PROVE  HalfMerged(x)' <=> HalfMerged(x)
  <2>1. ~HalfMergedBy(local, x)
    BY <1>5, FieldsPend DEF HalfMergedBy, FieldName
  <2>2. ~HalfMergedBy(collect[s], x)
    BY <1>2 DEF HalfMergedBy
  <2>3. \A r \in Scrapers :
            HalfMergedBy(collect'[r], x) <=> HalfMergedBy(collect[r], x)
    BY <1>9, <2>1, <2>2
  <2>4. QED
    BY <2>3 DEF HalfMerged
<1>13. \A x \in Stats, d \in Cpus, f \in FieldName :
        Weighs(x, d, f, U)' <=> Weighs(x, d, f, U)
    BY <1>11, <1>12 DEF Weighs
<1>14. QED
    BY <1>1, <1>13, SameWorth DEF Keeps

\* A field that is reset is held from then on, and worth nothing.
LEMMA ResetKeeps ==
    ASSUME IndInv, Typed, NEW s \in Scrapers, ResetStats(s),
           NEW U \in SUBSET Stats
    PROVE  Keeps(U, U)
<1> DEFINE local == [collect[s] EXCEPT !.todo = Tail(@)]
           o == collect[s].fresh
           todo == collect[s].todo
           g == Head(todo)
<1>1. /\ collect' = [collect EXCEPT ![s] = local]
      /\ stats' = [stats EXCEPT ![o] = [@ EXCEPT ![g] = Zero[g]]]
      /\ UNCHANGED <<contextSwitchIntervals, cumulativeIntervals>>
    BY DEF ResetStats, ResetField
<1>2. /\ collect[s] \in Local /\ Ready(collect[s])
      /\ collect[s].phase = "swap" /\ todo # <<>> /\ todo \in Todos
    BY DEF IndInv, Locals, Local, ResetStats
<1>3. o \in Stats
    BY <1>2 DEF Ready, Local
<1>4. /\ local.phase = "swap" /\ local.cpu = collect[s].cpu
      /\ local.old = collect[s].old /\ local.fresh = o
      /\ local.todo = Tail(todo)
    BY <1>2 DEF Local
<1>5. /\ g \in FieldName /\ Pends(todo, g)
      /\ \A f \in FieldName : Pends(Tail(todo), f) <=> Pends(todo, f) /\ f # g
    BY <1>2, FieldsLeft
<1>6. /\ \A r \in Scrapers : r # s => collect'[r] = collect[r]
      /\ collect'[s] = local
    BY <1>1 DEF IndInv, Locals
<1>7. /\ \A x \in Stats : x # o => stats'[x] = stats[x]
      /\ \A f \in FieldName : \A i \in Index(f) :
            Read(stats'[o], f, i) = IF f = g THEN 0 ELSE Read(stats[o], f, i)
  <2>1. stats'[o] = [stats[o] EXCEPT ![g] = Zero[g]]
    BY <1>1, <1>3 DEF Typed
  <2>2. stats[o] \in Counters
    BY <1>3 DEF Typed
  <2>3. \A x \in Stats : x # o => stats'[x] = stats[x]
    BY <1>1 DEF Typed
  <2> HIDE DEF g, o
  <2>4. \A f \in FieldName : \A i \in Index(f) :
            Read([stats[o] EXCEPT ![g] = Zero[g]], f, i) =
                IF f = g THEN 0 ELSE Read(stats[o], f, i)
    BY <1>5, <2>2, ReadReset
  <2>5. QED
    BY <2>1, <2>3, <2>4
<1> HIDE DEF local, o, todo, g
<1>8. \A x \in Stats, d \in Cpus, f \in FieldName : x # o \/ f # g =>
        (HoldsBy(local, x, d, f) <=> HoldsBy(collect[s], x, d, f))
    BY <1>2, <1>4, <1>5 DEF HoldsBy, todo, o
<1>9. \A x \in Stats, d \in Cpus, f \in FieldName : x # o \/ f # g =>
        (Holds(x, d, f)' <=> Holds(x, d, f))
  <2> SUFFICES ASSUME NEW x \in Stats, NEW d \in Cpus, NEW f \in FieldName,
                      x # o \/ f # g
               PROVE  Holds(x, d, f)' <=> Holds(x, d, f)
    OBVIOUS
  <2>1. \A r \in Scrapers :
            HoldsBy(collect'[r], x, d, f) <=> HoldsBy(collect[r], x, d, f)
    BY <1>6, <1>8
  <2>2. QED
    BY <1>1, <2>1 DEF Holds
<1>10. ASSUME NEW x
       PROVE  HalfMerged(x)' <=> HalfMerged(x)
  <2>1. \A r \in Scrapers :
            HalfMergedBy(collect'[r], x) <=> HalfMergedBy(collect[r], x)
    BY <1>2, <1>4, <1>6 DEF HalfMergedBy
  <2>2. QED
    BY <2>1 DEF HalfMerged
<1>11. \A d \in Cpus : ~Holds(o, d, g)
  <2> SUFFICES ASSUME NEW d \in Cpus, Holds(o, d, g) PROVE FALSE
    OBVIOUS
  <2>1. d = collect[s].cpu /\ HoldsBy(collect[s], o, d, g)
    BY <1>3, FreshHeld DEF o
  <2>2. QED
    BY <1>2, <1>5, <2>1, CpuNumbers DEF HoldsBy, todo
<1>12. ASSUME NEW d \in Cpus, NEW f \in FieldName, NEW i \in Index(f)
       PROVE  Recorded(d, f, i, U)' = Recorded(d, f, i, U)
  <2>1. ASSUME NEW x \in Stats
        PROVE  (IF Weighs(x, d, f, U)' THEN Read(stats'[x], f, i) ELSE 0)
                = (IF Weighs(x, d, f, U) THEN Read(stats[x], f, i) ELSE 0)
    <3>1. CASE x = o /\ f = g
        BY <1>7, <1>11, <3>1 DEF Weighs
    <3>2. CASE x # o \/ f # g
      <4>1. Weighs(x, d, f, U)' <=> Weighs(x, d, f, U)
        BY <1>9, <1>10, <3>2 DEF Weighs
      <4>2. Read(stats'[x], f, i) = Read(stats[x], f, i)
        BY <1>7, <3>2
      <4>3. QED
        BY <4>1, <4>2
    <3>3. QED
        BY <3>1, <3>2
  <2>2. Share(d, f, i, U)' = Share(d, f, i, U)
    BY <2>1 DEF Share
  <2>3. QED
    BY <1>1, <2>2 DEF Recorded
<1>13. QED
    BY <1>12 DEF Keeps

\* A field that is merged is no longer held, and in the totals instead.  Once
\* the count of an object is, the object is half merged, and weighs in U.
LEMMA MergeKeeps ==
    ASSUME IndInv, Typed, NEW s \in Scrapers, MergeStats(s),
           NEW U \in SUBSET Stats
    PROVE  \E V \in SUBSET Stats : Keeps(U, V)
<1>0. PICK c, o, todo, g : /\ c = collect[s].cpu /\ o = collect[s].old[c]
                           /\ todo = collect[s].todo /\ g = Head(todo)
    OBVIOUS
<1> DEFINE local == [collect[s] EXCEPT !.todo = Tail(@)]
           V == U \union {o}
<1>1. /\ collect' = [collect EXCEPT ![s] = local]
      /\ cumulativeIntervals' = [cumulativeIntervals EXCEPT ![c] =
                                    Merged(@, stats[o], g)]
      /\ UNCHANGED <<contextSwitchIntervals, stats>>
    BY <1>0 DEF MergeStats
<1>2. /\ collect[s] \in Local /\ Ready(collect[s])
      /\ collect[s].phase = "merge" /\ todo # <<>> /\ todo \in Todos
      /\ c \in Cpus
    BY <1>0 DEF IndInv, Locals, Local, MergeStats
<1>3. o \in Stats
  <2>1. c <= c
    BY <1>2, CpuNumbers
  <2>2. QED
    BY <1>0, <1>2, <2>1 DEF Ready, Local
<1>4. /\ local.phase = "merge" /\ local.cpu = c
      /\ local.old = collect[s].old /\ local.todo = Tail(todo)
    BY <1>0, <1>2 DEF Local
<1>5. /\ g \in FieldName /\ Pends(todo, g) /\ ~Pends(Tail(todo), "count")
      /\ \A f \in FieldName : Pends(Tail(todo), f) <=> Pends(todo, f) /\ f # g
      /\ Pends(todo, "count") <=> g = "count"
    BY <1>0, <1>2, FieldsLeft
<1>6. /\ \A r \in Scrapers : r # s => collect'[r] = collect[r]
      /\ collect'[s] = local
    BY <1>1 DEF IndInv, Locals
<1>7. /\ \A d \in Cpus : d # c =>
            cumulativeIntervals'[d] = cumulativeIntervals[d]
      /\ \A f \in FieldName : \A i \in Index(f) :
            Read(cumulativeIntervals'[c], f, i) =
                IF f = g THEN Read(cumulativeIntervals[c], f, i)
                                + Read(stats[o], f, i)
                ELSE Read(cumulativeIntervals[c], f, i)
  <2>1. cumulativeIntervals'[c] = Merged(cumulativeIntervals[c], stats[o], g)
    BY <1>1, <1>2 DEF Typed
  <2>2. stats[o] \in Counters /\ cumulativeIntervals[c] \in Counters
    BY <1>2, <1>3 DEF Typed
  <2>3. \A d \in Cpus : d # c =>
            cumulativeIntervals'[d] = cumulativeIntervals[d]
    BY <1>1 DEF Typed
  <2>4. \A f \in FieldName : \A i \in Index(f) :
            Read(Merged(cumulativeIntervals[c], stats[o], g), f, i) =
                IF f = g THEN Read(cumulativeIntervals[c], f, i)
                                + Read(stats[o], f, i)
                ELSE Read(cumulativeIntervals[c], f, i)
    BY <1>5, <2>2, ReadMerged
  <2>5. QED
    BY <2>1, <2>3, <2>4
<1>8. \A d \in Cpus : contextSwitchIntervals[d] # o
    BY <1>0, <1>2 DEF IndInv, OnePlace, OldApart
<1> HIDE DEF local
<1>9. \A x \in Stats, d \in Cpus, f \in FieldName : x # o \/ f # g =>
        (HoldsBy(local, x, d, f) <=> HoldsBy(collect[s], x, d, f))
    BY <1>0, <1>2, <1>4, <1>5 DEF HoldsBy
<1>10. \A x \in Stats, d \in Cpus, f \in FieldName : x # o \/ f # g =>
        (Holds(x, d, f)' <=> Holds(x, d, f))
  <2> SUFFICES ASSUME NEW x \in Stats, NEW d \in Cpus, NEW f \in FieldName,
                      x # o \/ f # g
               PROVE  Holds(x, d, f)' <=> Holds(x, d, f)
    OBVIOUS
  <2>1. \A r \in Scrapers :
            HoldsBy(collect'[r], x, d, f) <=> HoldsBy(collect[r], x, d, f)
    BY <1>6, <1>9
  <2>2. QED
    BY <1>1, <2>1 DEF Holds
<1>11. /\ HalfMerged(o)'
       /\ \A x \in Stats : x # o => (HalfMerged(x)' <=> HalfMerged(x))
  <2>1. HalfMergedBy(local, o)
    BY <1>0, <1>4, <1>5 DEF HalfMergedBy
  <2>2. \A x \in Stats, r \in Scrapers : x # o =>
            (HalfMergedBy(collect'[r], x) <=> HalfMergedBy(collect[r], x))
    BY <1>0, <1>2, <1>4, <1>6 DEF HalfMergedBy
  <2>3. QED
    BY <1>6, <2>1, <2>2 DEF HalfMerged
<1>12. \A d \in Cpus : Holds(o, d, g) <=> d = c
  <2>1. HoldsBy(collect[s], o, c, g)
    BY <1>0, <1>2, <1>5 DEF HoldsBy
  <2>2. ASSUME NEW d \in Cpus, Holds(o, d, g) PROVE d = c
    <3>1. collect[s].old[c] = o
        BY <1>0
    <3>2. QED
        BY <1>2, <1>3, <2>2, <3>1, OldHeld
  <2>3. QED
    BY <2>1, <2>2 DEF Holds
<1>13. \A d \in Cpus : ~Holds(o, d, g)'
  <2> SUFFICES ASSUME NEW d \in Cpus, Holds(o, d, g)' PROVE FALSE
    OBVIOUS
  <2>1. PICK r \in Scrapers : HoldsBy(collect'[r], o, d, g)
    BY <1>1, <1>8 DEF Holds
  <2>2. CASE r = s
    <3>1. HoldsBy(local, o, d, g)
        BY <1>6, <2>1, <2>2
    <3>2. HoldsBy(collect[s], o, d, g)
        BY <1>0, <1>2, <1>4, <1>5, <3>1 DEF HoldsBy
    <3>3. d = c
        BY <1>12, <3>2 DEF Holds
    <3>4. QED
        BY <1>2, <1>4, <1>5, <3>1, <3>3, CpuNumbers DEF HoldsBy
  <2>3. CASE r # s
    <3>1. HoldsBy(collect[r], o, d, g)
        BY <1>6, <2>1, <2>3
    <3>2. collect[r].old[d] = o \/ collect[r].fresh = o
        BY <1>3, <3>1, HoldsByOld
    <3>3. o # None
        BY <1>3, CollectorAssumption DEF CollectorAssumption
    <3>4. collect[r].old[d] # o
        BY <1>0, <1>2, <2>3, <3>3 DEF IndInv, OnePlace, OldDiffer
    <3>5. collect[r].fresh # o
        BY <1>0, <1>2, <3>3 DEF IndInv, OnePlace, FreshNotOld
    <3>6. QED
        BY <3>2, <3>4, <3>5
  <2>4. QED
    BY <2>2, <2>3
<1>14. ASSUME NEW d \in Cpus, NEW f \in FieldName, NEW i \in Index(f)
       PROVE  Recorded(d, f, i, U)' = Recorded(d, f, i, V)
  <2>1. ASSUME NEW x \in Stats, x # o \/ f # g
        PROVE  Weighs(x, d, f, U)' <=> Weighs(x, d, f, V)
    <3>1. CASE x = o
        BY <1>10, <1>11, <2>1, <3>1 DEF Weighs
    <3>2. CASE x # o
        BY <1>10, <1>11, <3>2 DEF Weighs
    <3>3. QED
        BY <3>1, <3>2
  <2>2. CASE f # g \/ d # c
    <3>1. ASSUME NEW x \in Stats
          PROVE  Weighs(x, d, f, U)' <=> Weighs(x, d, f, V)
      <4>1. CASE x = o /\ f = g
        BY <1>12, <1>13, <2>2, <4>1 DEF Weighs
      <4>2. QED
        BY <2>1, <4>1
    <3>2. Share(d, f, i, U)' = Share(d, f, i, V)
        BY <1>1, <3>1 DEF Share
    <3>3. Read(cumulativeIntervals[d], f, i)'
            = Read(cumulativeIntervals[d], f, i)
        BY <1>7, <2>2
    <3>4. QED
        BY <3>2, <3>3 DEF Recorded
  <2>3. CASE f = g /\ d = c
    <3> DEFINE before == Share(d, f, i, V)
               after == Share(d, f, i, U)'
    <3>1. \A x \in Stats : x # o => after[x] = before[x]
        BY <1>1, <2>1 DEF Share
    <3>2. before[o] = Read(stats[o], f, i) /\ after[o] = 0
      <4>1. Weighs(o, d, f, V) /\ ~Weighs(o, d, f, U)'
        BY <1>12, <1>13, <2>3 DEF Weighs
      <4>2. QED
        BY <1>3, <4>1 DEF Share
    <3>3. Summable(before) /\ Total(before) \in Nat
        BY RecordedType
    <3>4. DOMAIN before = Stats /\ DOMAIN after = Stats
        BY DEF Share
    <3>5. Summable(after)
      <4>1. after = [x \in Stats |-> after[x]]
        BY DEF Share
      <4>2. before \in [Stats -> Int]
        BY <3>3, <3>4 DEF Summable
      <4>3. \A x \in Stats : after[x] \in Int
        BY <3>1, <3>2, <4>2
      <4> HIDE DEF before, after
      <4>4. QED
        BY <3>3, <3>4, <4>1, <4>3 DEF Summable
    <3> HIDE DEF before, after
    <3>6. Total(after) = Total(before) + (after[o] - before[o])
        BY <1>3, <3>1, <3>3, <3>4, <3>5, TotalChanges
    <3>7. /\ Read(stats[o], f, i) \in Nat
          /\ Read(cumulativeIntervals[c], f, i) \in Nat
        BY <1>2, <1>3, ReadType DEF Typed
    <3>8. Read(cumulativeIntervals'[c], f, i) =
            Read(cumulativeIntervals[c], f, i) + Read(stats[o], f, i)
        BY <1>7, <2>3
    <3>9. /\ Recorded(d, f, i, U)'
                = Read(cumulativeIntervals'[c], f, i) + Total(after)
          /\ Recorded(d, f, i, V)
                = Read(cumulativeIntervals[c], f, i) + Total(before)
        BY <2>3 DEF Recorded, after, before
    <3>10. PICK m \in Nat, n \in Nat, k \in Nat :
                /\ Read(stats[o], f, i) = m /\ Total(before) = n
                /\ Read(cumulativeIntervals[c], f, i) = k
        BY <3>3, <3>7
    <3>11. QED
        BY <3>2, <3>6, <3>8, <3>9, <3>10
  <2>4. QED
    BY <2>2, <2>3
<1>15. V \in SUBSET Stats /\ U \subseteq V
    BY <1>3
<1>16. \A d \in Cpus : contextSwitchIntervals[d] \in V =>
                        contextSwitchIntervals[d] \in U
    BY <1>8
<1>17. Keeps(U, V)
    BY <1>14, <1>15, <1>16 DEF Keeps
<1>18. QED
    BY <1>15, <1>17

-----------------------------------------------------------------------------
(* The steps, by what they do to the sums.                                 *)

ScrapeStep(s) ==
    \/ BeginCollect(s) \/ GetStats(s) \/ ResetStats(s)
    \/ SwapStats(s) \/ MergeStats(s) \/ PutStats(s)
Steady == \A U \in SUBSET Stats : \E V \in SUBSET Stats : Keeps(U, V)

\* A scrape leaves the callback and the clocks alone, and changes nothing of
\* what is recorded.
LEMMA ScrapeSteps ==
    ASSUME IndInv, Sound, NEW s \in Scrapers, ScrapeStep(s)
    PROVE  /\ Sound' /\ Steady
           /\ UNCHANGED <<loc, lastCpuSwitch, contextSwitchesPerCPU, history>>
<1>1. UNCHANGED <<loc, lastCpuSwitch, contextSwitchesPerCPU, history>>
    BY DEF ScrapeStep, BeginCollect, GetStats, ResetStats, SwapStats,
       MergeStats, PutStats
<1>2. Steady
    BY BeginKeeps, GetKeeps, ResetKeeps, SwapKeeps, MergeKeeps, PutKeeps
    DEF ScrapeStep, Steady, Sound
<1>3. stats' \in [Stats -> Counters]
  <2>1. CASE ResetStats(s)
    <3> DEFINE o == collect[s].fresh
               g == Head(collect[s].todo)
    <3>1. stats' = [stats EXCEPT ![o] = [@ EXCEPT ![g] = Zero[g]]]
        BY <2>1 DEF ResetStats, ResetField
    <3>2. g \in FieldName
        BY <2>1, FieldsLeft DEF ResetStats, IndInv, Locals, Local
    <3> HIDE DEF o, g
    <3>3. \A x \in Counters : [x EXCEPT ![g] = Zero[g]] \in Counters
        BY <3>2, ReadReset
    <3>4. QED
        BY <3>1, <3>3 DEF Sound, Typed
  <2>2. CASE ~ResetStats(s)
    BY <2>2 DEF ScrapeStep, BeginCollect, GetStats, SwapStats, MergeStats,
       PutStats, Sound, Typed
  <2>3. QED
    BY <2>1, <2>2
<1>4. cumulativeIntervals' \in [Cpus -> Counters]
  <2>1. CASE MergeStats(s)
    <3> DEFINE c == collect[s].cpu
               o == collect[s].old[c]
               g == Head(collect[s].todo)
    <3>1. cumulativeIntervals' = [cumulativeIntervals EXCEPT ![c] =
                                    Merged(@, stats[o], g)]
        BY <2>1 DEF MergeStats
    <3>2. g \in FieldName
        BY <2>1, FieldsLeft DEF MergeStats, IndInv, Locals, Local
    <3>3. o \in Stats
      <4>1. c \in Cpus /\ c <= c
        BY CpuNumbers DEF IndInv, Locals, Local
      <4>2. collect[s] \in Local /\ Ready(collect[s])
            /\ collect[s].phase = "merge"
        BY <2>1 DEF MergeStats, IndInv, Locals
      <4>3. QED
        BY <4>1, <4>2 DEF Ready, Local
    <3> HIDE DEF c, o, g
    <3>4. \A x \in Counters : Merged(x, stats[o], g) \in Counters
        BY <3>2, <3>3, ReadMerged DEF Sound, Typed
    <3>5. QED
        BY <3>1, <3>4 DEF Sound, Typed
  <2>2. CASE ~MergeStats(s)
    BY <2>2 DEF ScrapeStep, BeginCollect, GetStats, SwapStats, ResetStats,
       PutStats, Sound, Typed
  <2>3. QED
    BY <2>1, <2>2
<1>5. overtaken' \in Nat /\ reused' \in Nat
  <2>1. CASE GetStats(s)
    BY <2>1 DEF GetStats, Sound, Typed
  <2>2. CASE SwapStats(s)
    BY <2>2 DEF SwapStats, Sound, Typed
  <2>3. CASE BeginCollect(s) \/ ResetStats(s) \/ MergeStats(s) \/ PutStats(s)
    BY <2>3 DEF BeginCollect, ResetStats, MergeStats, PutStats, Sound, Typed
  <2>4. QED
    BY <2>1, <2>2, <2>3 DEF ScrapeStep
<1>6. Sound'
    BY <1>1, <1>3, <1>4, <1>5 DEF Sound, Typed, CallbackReady, Clocks
<1>7. QED
    BY <1>1, <1>2, <1>6

\* Nor does the callback, until it adds.
LEMMA CallbackSteady ==
    ASSUME UNCHANGED <<stats, cumulativeIntervals, contextSwitchIntervals,
                       collect>>
    PROVE  Steady
<1>1. ASSUME NEW U \in SUBSET Stats PROVE Keeps(U, U)
  <2>1. \A o \in Stats, d \in Cpus, f \in FieldName :
            Weighs(o, d, f, U)' <=> Weighs(o, d, f, U)
    BY DEF Weighs, Holds, HalfMerged
  <2>2. QED
    BY <2>1, SameWorth DEF Keeps
<1>2. QED
    BY <1>1 DEF Steady

\* When it adds, it is for the CPU that the object is held for.
LEMMA AddWorth ==
    ASSUME Sound, AddInterval
    PROVE  \A d \in Cpus, f \in FieldName, U \in SUBSET Stats :
            \A i \in Index(f) :
                Recorded(d, f, i, U)' = Recorded(d, f, i, U)
                    + (IF /\ f = Head(loc.todo) /\ i = Cell(Head(loc.todo))
                          /\ Weighs(loc.obj, d, f, U)
                       THEN Amount(Head(loc.todo)) ELSE 0)
<1>0. PICK o, g, cell, n : /\ o = loc.obj /\ g = Head(loc.todo)
                           /\ cell = Cell(g) /\ n = Amount(g)
    OBVIOUS
<1>1. /\ o \in Stats /\ g \in FieldName
      /\ stats' = [stats EXCEPT ![o] = Added(stats[o], g)]
    BY <1>0, AddSteps
<1>2. /\ n \in Nat
      /\ \A f \in FieldName : \A i \in Index(f) :
            Read(stats'[o], f, i) = Read(stats[o], f, i)
                + (IF f = g /\ i = cell THEN n ELSE 0)
  <2>1. stats'[o] = Added(stats[o], g) /\ stats[o] \in Counters
    BY <1>1 DEF Sound, Typed
  <2>2. QED
    BY <1>0, <1>1, <2>1, ReadAdded DEF Sound
<1>3. \A x \in Stats : x # o => stats'[x] = stats[x]
    BY <1>1 DEF Sound, Typed
<1>4. UNCHANGED <<cumulativeIntervals, contextSwitchIntervals, collect>>
    BY DEF AddInterval
<1>5. ASSUME NEW d \in Cpus, NEW f \in FieldName, NEW U \in SUBSET Stats,
             NEW i \in Index(f)
      PROVE  Recorded(d, f, i, U)' = Recorded(d, f, i, U)
                + (IF f = g /\ i = cell /\ Weighs(o, d, f, U) THEN n ELSE 0)
  <2> DEFINE before == Share(d, f, i, U)
             after == Share(d, f, i, U)'
             more == IF f = g /\ i = cell /\ Weighs(o, d, f, U) THEN n ELSE 0
  <2>1. \A x \in Stats : Weighs(x, d, f, U)' <=> Weighs(x, d, f, U)
    BY <1>4 DEF Weighs, Holds, HalfMerged
  <2>2. \A x \in Stats : x # o => after[x] = before[x]
    BY <1>3, <2>1 DEF Share
  <2>3. /\ after[o] = IF Weighs(o, d, f, U) THEN Read(stats'[o], f, i) ELSE 0
        /\ before[o] = IF Weighs(o, d, f, U) THEN Read(stats[o], f, i) ELSE 0
    BY <1>1, <2>1 DEF Share
  <2>4. Read(stats[o], f, i) \in Nat
    BY <1>1, ReadType DEF Sound, Typed
  <2>5. after[o] = before[o] + more /\ more \in Int
    BY <1>2, <2>3, <2>4
  <2>6. /\ Summable(before) /\ Total(before) \in Nat
        /\ Read(cumulativeIntervals[d], f, i) \in Nat
    BY RecordedType DEF Sound
  <2>7. DOMAIN before = Stats /\ DOMAIN after = Stats
    BY DEF Share
  <2>8. Summable(after)
    <3>1. after = [x \in Stats |-> after[x]]
        BY DEF Share
    <3>2. before \in [Stats -> Int]
        BY <2>6, <2>7 DEF Summable
    <3> HIDE DEF before, after, more
    <3>3. \A x \in Stats : after[x] \in Int
        BY <2>2, <2>5, <3>2
    <3>4. QED
        BY <2>6, <2>7, <3>1, <3>3 DEF Summable
  <2> HIDE DEF before, after, more
  <2>9. Total(after) = Total(before) + more
    BY <1>1, <2>2, <2>5, <2>6, <2>7, <2>8, TotalGrows
  <2>10. Recorded(d, f, i, U)' = Recorded(d, f, i, U) + more
    <3>1. /\ Recorded(d, f, i, U)'
                = Read(cumulativeIntervals[d], f, i) + Total(after)
          /\ Recorded(d, f, i, U)
                = Read(cumulativeIntervals[d], f, i) + Total(before)
        BY <1>4 DEF Recorded, after, before
    <3>2. PICK k \in Nat, m \in Nat :
            Read(cumulativeIntervals[d], f, i) = k /\ Total(before) = m
        BY <2>6
    <3>3. QED
        BY <2>5, <2>9, <3>1, <3>2
  <2>11. QED
    BY <2>10 DEF more
<1>6. QED
    BY <1>0, <1>5

-----------------------------------------------------------------------------
(* What the callback has in hand.                                          *)

One(b) == IF b THEN 1 ELSE 0

\* An interval was measured, and field f of it is still to be recorded.
Awaited(f) == \/ loc.todo \in {<<"switch">>, <<"load">>} /\ loc.interval > 0
              \/ Pends(loc.todo, f)

\* No CPU has the object that the callback adds to any more.
Astray == /\ loc.obj # None
          /\ \A d \in Cpus : contextSwitchIntervals[d] # loc.obj

\* The object may get to be that of another CPU than the one that the
\* interval is of.
Displaced ==
    /\ loc.obj # None
    /\ \/ \E d \in Cpus \ {loc.cpu} : contextSwitchIntervals[d] = loc.obj
       \/ \E s \in Scrapers, d \in Cpus \ {loc.cpu} :
            collect[s].old[d] = loc.obj
       \/ \E s \in Scrapers : collect[s].fresh = loc.obj

\* What steps do to where the object is: a swap is counted in overtaken when it
\* takes the object away, and a scrape that takes the object from the pool in
\* reused.
LEMMA ScrapeMoves ==
    ASSUME IndInv, Sound, NEW s \in Scrapers, ScrapeStep(s)
    PROVE  /\ \/ /\ overtaken' = overtaken
                 /\ \A d \in Cpus : contextSwitchIntervals'[d] = loc.obj <=>
                                        contextSwitchIntervals[d] = loc.obj
              \/ /\ overtaken' = overtaken + 1 /\ loc.obj # None
                 /\ \E d \in Cpus : contextSwitchIntervals[d] = loc.obj
                 /\ \A d \in Cpus : contextSwitchIntervals'[d] # loc.obj
              \/ /\ overtaken' = overtaken /\ loc.obj # None
                 /\ \A d \in Cpus : contextSwitchIntervals[d] # loc.obj
                 /\ \E d \in Cpus : contextSwitchIntervals'[d] = loc.obj
           /\ \/ reused' = reused + 1
              \/ reused' = reused /\ (Displaced' => Displaced)
           /\ IndInv'
<1>1. IndInv'
    BY BeginCollectInv, GetStatsInv, ResetStatsInv, SwapStatsInv,
       MergeStatsInv, PutStatsInv DEF ScrapeStep
<1>2. loc' = loc
    BY ScrapeSteps
<1>3. \A r \in Scrapers : r # s => collect'[r] = collect[r]
    BY DEF ScrapeStep, BeginCollect, GetStats, ResetStats, SwapStats,
       MergeStats, PutStats, IndInv, Locals
<1>4. CASE SwapStats(s)
  <2>0. PICK c, taken, fresh : /\ c = collect[s].cpu
                               /\ taken = contextSwitchIntervals[c]
                               /\ fresh = collect[s].fresh
    OBVIOUS
  <2>1. /\ c \in Cpus /\ fresh \in Stats /\ taken \in Stats /\ fresh # None
        /\ collect[s] \in Local /\ taken # None
    BY <1>4, <2>0, CollectorAssumption
    DEF SwapStats, In, IndInv, Locals, Local, Ready, CollectorAssumption
  <2>2. /\ \A d \in Cpus : contextSwitchIntervals'[d] =
                IF d = c THEN fresh ELSE contextSwitchIntervals[d]
        /\ overtaken' = IF loc.obj = taken THEN overtaken + 1 ELSE overtaken
        /\ reused' = reused
    BY <1>4, <2>0, <2>1 DEF SwapStats, Swapped, IndInv, Locals
  <2>3. /\ collect'[s].fresh = None
        /\ \A d \in Cpus : collect'[s].old[d] =
                IF d = c THEN taken ELSE collect[s].old[d]
    BY <1>4, <2>0, <2>1 DEF SwapStats, IndInv, Locals, Local
  <2>4. \A d \in Cpus : contextSwitchIntervals[d] # fresh
    BY <2>0 DEF IndInv, OnePlace, FreshApart
  <2>5. \A d \in Cpus : contextSwitchIntervals[d] = taken => d = c
    BY <2>0, <2>1 DEF IndInv, OnePlace, CpusApart
  <2>6. \/ /\ overtaken' = overtaken
           /\ \A d \in Cpus : contextSwitchIntervals'[d] = loc.obj <=>
                                contextSwitchIntervals[d] = loc.obj
        \/ /\ overtaken' = overtaken + 1 /\ loc.obj # None
           /\ \E d \in Cpus : contextSwitchIntervals[d] = loc.obj
           /\ \A d \in Cpus : contextSwitchIntervals'[d] # loc.obj
        \/ /\ overtaken' = overtaken /\ loc.obj # None
           /\ \A d \in Cpus : contextSwitchIntervals[d] # loc.obj
           /\ \E d \in Cpus : contextSwitchIntervals'[d] = loc.obj
    <3>1. CASE loc.obj = taken
        BY <2>0, <2>1, <2>2, <2>4, <2>5, <3>1
    <3>2. CASE loc.obj = fresh
        BY <2>0, <2>1, <2>2, <2>4, <3>2
    <3>3. CASE loc.obj # taken /\ loc.obj # fresh
        BY <2>0, <2>1, <2>2, <3>3
    <3>4. QED
        BY <3>1, <3>2, <3>3
  <2>7. Displaced' => Displaced
    <3> SUFFICES ASSUME Displaced' PROVE Displaced
        OBVIOUS
    <3>1. ASSUME NEW d \in Cpus \ {loc.cpu},
                 contextSwitchIntervals'[d] = loc.obj
          PROVE  Displaced
        BY <1>2, <2>0, <2>2, <3>1 DEF Displaced
    <3>2. ASSUME NEW r \in Scrapers, NEW d \in Cpus \ {loc.cpu},
                 collect'[r].old[d] = loc.obj
          PROVE  Displaced
        BY <1>2, <1>3, <2>0, <2>3, <3>2 DEF Displaced
    <3>3. ASSUME NEW r \in Scrapers, collect'[r].fresh = loc.obj
          PROVE  Displaced
        BY <1>2, <1>3, <2>3, <3>3 DEF Displaced
    <3>4. QED
        BY <1>2, <3>1, <3>2, <3>3 DEF Displaced
  <2>8. QED
    BY <1>1, <2>2, <2>6, <2>7
<1>5. CASE ~SwapStats(s)
  <2>1. UNCHANGED <<contextSwitchIntervals, overtaken>>
    BY <1>5 DEF ScrapeStep, BeginCollect, GetStats, ResetStats, MergeStats,
       PutStats
  <2>2. CASE GetStats(s)
    <3>1. PICK o : /\ reused' = IF loc.obj = o THEN reused + 1 ELSE reused
                   /\ collect' = [collect EXCEPT ![s].phase = "swap",
                                    ![s].fresh = o, ![s].todo = Fields]
        BY <2>2 DEF GetStats
    <3>2. collect'[s].fresh = o /\ collect'[s].old = collect[s].old
        BY <3>1 DEF IndInv, Locals, Local
    <3>3. loc.obj # o => (Displaced' => Displaced)
        BY <1>2, <1>3, <2>1, <3>2 DEF Displaced
    <3>4. QED
        BY <1>1, <2>1, <3>1, <3>3
  <2>3. CASE ~GetStats(s)
    <3>1. reused' = reused
        BY <1>5, <2>3 DEF ScrapeStep, BeginCollect, ResetStats, MergeStats,
           PutStats
    <3>2. /\ collect'[s].fresh \in {None, collect[s].fresh}
          /\ \A d \in Cpus : collect'[s].old[d] \in {None, collect[s].old[d]}
      <4>0. collect[s] \in Local /\ collect \in [Scrapers -> Local]
        BY DEF IndInv, Locals
      <4>1. CASE BeginCollect(s) \/ ResetStats(s) \/ MergeStats(s)
        BY <4>0, <4>1 DEF BeginCollect, ResetStats, MergeStats, Local
      <4>2. CASE PutStats(s) /\ collect[s].cpu = LastCpu
        <5>1. collect'[s] = NoCollect
            BY <4>0, <4>2 DEF PutStats
        <5>2. QED
            BY <5>1 DEF NoCollect
      <4>3. CASE PutStats(s) /\ collect[s].cpu # LastCpu
        BY <4>0, <4>3 DEF PutStats, Local
      <4>4. QED
        BY <1>5, <2>3, <4>1, <4>2, <4>3 DEF ScrapeStep
    <3>3. Displaced' => Displaced
        BY <1>2, <1>3, <2>1, <3>2 DEF Displaced
    <3>4. QED
        BY <1>1, <2>1, <3>1, <3>3
  <2>4. QED
    BY <2>2, <2>3
<1>6. QED
    BY <1>4, <1>5

-----------------------------------------------------------------------------
(* The sums, and the invariant they are in.                                *)

\* The intervals of c that are recorded, CPU by CPU; the microseconds; the
\* counts and the buckets of one histogram; and what a histogram counts of
\* other CPUs.
KnownOf(c) == [d \in Cpus |-> Recorded(d, "count", c, Stats)]
TimeOf == [d \in Cpus |-> Recorded(d, "sum", 0, Stats)]
CountsOf(d, U) == [c \in Cpus |-> Recorded(d, "count", c, U)]
BucketsOf(d, U) == [b \in Buckets |-> Recorded(d, "buckets", b, U)]
StraysOf(d) == [c \in Cpus \ {d} |-> Recorded(d, "count", c, Stats)]
AllStrays == [d \in Cpus |-> Total(StraysOf(d))]

\* No interval is known twice.  None is lost but by an object that was
\* overtaken, and one such object still has its interval to lose.
Balance ==
    \A c \in Cpus :
        LET known == Total(KnownOf(c)) + One(loc.cpu = c /\ Awaited("count"))
        IN  /\ known <= intervals[c]
            /\ intervals[c] + One(Astray /\ Pends(loc.todo, "count"))
                    <= known + overtaken

\* Whichever of the objects are merged next, the count of a histogram and its
\* buckets differ by no more than the overtaken intervals, and by what is due:
\* the bucket of an interval that is in the count.
Due(d, U) == One(/\ loc.obj # None /\ ~Pends(loc.todo, "count")
                 /\ contextSwitchIntervals[d] = loc.obj /\ loc.obj \in U)
Gap(d, U) == (Total(CountsOf(d, U)) - Total(BucketsOf(d, U))) - Due(d, U)
Torn ==
    \A d \in Cpus, U \in SUBSET Stats :
        /\ Gap(d, U) <= overtaken - One(Astray /\ Pends(loc.todo, "count"))
        /\ 0 - Gap(d, U) <= overtaken - One(Astray)

\* An interval that a histogram counts, or will count, of another CPU was
\* added to an object that a scrape had taken from the pool again.
Placed ==
    Total(AllStrays) + One(Displaced /\ Pends(loc.todo, "count")) <= reused

\* The time that is recorded, or awaited, has passed.
InTime ==
    Total(TimeOf) + (IF Awaited("sum") THEN loc.interval ELSE 0)
        <= Total(Elapsed)

CountInv == Balance /\ Torn /\ Placed /\ InTime

\* The CPUs and the buckets can be added up.
LEMMA FiniteIndexes ==
    /\ IsFiniteSet(Cpus) /\ IsFiniteSet(Buckets)
    /\ \A d \in Cpus : IsFiniteSet(Cpus \ {d})
    /\ 0 \in Index("sum") /\ Index("count") = Cpus /\ Index("buckets") = Buckets
    /\ "sum" \in FieldName /\ "count" \in FieldName /\ "buckets" \in FieldName
<1>1. IsFiniteSet(Cpus)
    BY CollectorAssumption DEF CollectorAssumption
<1>2. IsFiniteSet(Buckets)
    BY FS_Interval, CollectorAssumption DEF Buckets, CollectorAssumption
<1>3. \A d \in Cpus : IsFiniteSet(Cpus \ {d})
    BY <1>1, FS_Subset
<1>4. QED
    BY <1>1, <1>2, <1>3 DEF Index, FieldName

\* The sums are natural numbers.
SumsTyped ==
    /\ \A c \in Cpus : Summable(KnownOf(c)) /\ Total(KnownOf(c)) \in Nat
    /\ \A d \in Cpus : \A U :
        /\ Summable(CountsOf(d, U)) /\ Total(CountsOf(d, U)) \in Nat
        /\ Summable(BucketsOf(d, U)) /\ Total(BucketsOf(d, U)) \in Nat
    /\ \A d \in Cpus : Summable(StraysOf(d)) /\ Total(StraysOf(d)) \in Nat
    /\ Summable(AllStrays) /\ Total(AllStrays) \in Nat
    /\ Summable(TimeOf) /\ Total(TimeOf) \in Nat

LEMMA SumTypes == Typed => SumsTyped
<1>0. SUFFICES ASSUME Typed PROVE SumsTyped
    OBVIOUS
<1>1. ASSUME NEW c \in Cpus
      PROVE  Summable(KnownOf(c)) /\ Total(KnownOf(c)) \in Nat
  <2>1. \A d \in Cpus : Recorded(d, "count", c, Stats) \in Nat
    BY <1>0, FiniteIndexes, RecordedType
  <2>2. KnownOf(c) \in [Cpus -> Nat]
    BY <2>1 DEF KnownOf
  <2>3. QED
    BY <2>2, FiniteIndexes, SumOfNat
<1>2. ASSUME NEW d \in Cpus, NEW U
      PROVE  Summable(CountsOf(d, U)) /\ Total(CountsOf(d, U)) \in Nat
  <2>1. \A c \in Cpus : Recorded(d, "count", c, U) \in Nat
    BY <1>0, FiniteIndexes, RecordedType
  <2>2. CountsOf(d, U) \in [Cpus -> Nat]
    BY <2>1 DEF CountsOf
  <2>3. QED
    BY <2>2, FiniteIndexes, SumOfNat
<1>3. ASSUME NEW d \in Cpus, NEW U
      PROVE  Summable(BucketsOf(d, U)) /\ Total(BucketsOf(d, U)) \in Nat
  <2>1. \A b \in Buckets : Recorded(d, "buckets", b, U) \in Nat
    BY <1>0, FiniteIndexes, RecordedType
  <2>2. BucketsOf(d, U) \in [Buckets -> Nat]
    BY <2>1 DEF BucketsOf
  <2>3. QED
    BY <2>2, FiniteIndexes, SumOfNat
<1>4. ASSUME NEW d \in Cpus
      PROVE  Summable(StraysOf(d)) /\ Total(StraysOf(d)) \in Nat
  <2>1. \A c \in Cpus \ {d} : Recorded(d, "count", c, Stats) \in Nat
    BY <1>0, FiniteIndexes, RecordedType
  <2>2. StraysOf(d) \in [Cpus \ {d} -> Nat]
    BY <2>1 DEF StraysOf
  <2>3. QED
    BY <2>2, FiniteIndexes, SumOfNat
<1>5. Summable(AllStrays) /\ Total(AllStrays) \in Nat
  <2>1. AllStrays \in [Cpus -> Nat]
    BY <1>4 DEF AllStrays
  <2>2. QED
    BY <2>1, FiniteIndexes, SumOfNat
<1>6. Summable(TimeOf) /\ Total(TimeOf) \in Nat
  <2>1. \A d \in Cpus : Recorded(d, "sum", 0, Stats) \in Nat
    BY <1>0, FiniteIndexes, RecordedType
  <2>2. TimeOf \in [Cpus -> Nat]
    BY <2>1 DEF TimeOf
  <2>3. QED
    BY <2>2, FiniteIndexes, SumOfNat
<1>7. QED
    BY <1>1, <1>2, <1>3, <1>4, <1>5, <1>6 DEF SumsTyped

LEMMA SumTypesNext == Typed' => SumsTyped'
BY SumTypes, PTL

\* The time that passed can be added up.
LEMMA ElapsedTyped == Sound => Summable(Elapsed) /\ DOMAIN Elapsed = Cpus
<1> SUFFICES ASSUME Sound PROVE Summable(Elapsed) /\ DOMAIN Elapsed = Cpus
    OBVIOUS
<1>1. \A c \in Cpus : lastCpuSwitch[c] - firstSwitch[c] \in Int
    BY DEF Sound, Typed
<1>2. QED
    BY <1>1, FiniteIndexes DEF Elapsed, Summable

LEMMA ElapsedType ==
    /\ Sound => Summable(Elapsed) /\ DOMAIN Elapsed = Cpus
    /\ Sound' => (Summable(Elapsed) /\ DOMAIN Elapsed = Cpus)'
BY ElapsedTyped, PTL

\* A step that changes nothing of what is recorded leaves the sums alone.
LEMMA SteadySums ==
    ASSUME Steady
    PROVE  /\ \A c \in Cpus : KnownOf(c)' = KnownOf(c)
           /\ AllStrays' = AllStrays /\ TimeOf' = TimeOf
           /\ \A U \in SUBSET Stats : \E V \in SUBSET Stats :
                /\ U \subseteq V
                /\ \A d \in Cpus : contextSwitchIntervals[d] \in V =>
                                        contextSwitchIntervals[d] \in U
                /\ \A d \in Cpus : /\ CountsOf(d, U)' = CountsOf(d, V)
                                   /\ BucketsOf(d, U)' = BucketsOf(d, V)
<1>1. Keeps(Stats, Stats)
  <2>1. PICK V \in SUBSET Stats : Keeps(Stats, V)
    BY DEF Steady
  <2>2. V = Stats
    BY <2>1 DEF Keeps
  <2>3. QED
    BY <2>1, <2>2
<1>2. \A d \in Cpus, f \in FieldName : \A i \in Index(f) :
        Recorded(d, f, i, Stats)' = Recorded(d, f, i, Stats)
    BY <1>1 DEF Keeps
<1>3. \A c \in Cpus : KnownOf(c)' = KnownOf(c)
    BY <1>2, FiniteIndexes DEF KnownOf
<1>4. TimeOf' = TimeOf
    BY <1>2, FiniteIndexes DEF TimeOf
<1>5. AllStrays' = AllStrays
  <2>1. \A d \in Cpus : StraysOf(d)' = StraysOf(d)
    BY <1>2, FiniteIndexes DEF StraysOf
  <2>2. QED
    BY <2>1 DEF AllStrays
<1>6. ASSUME NEW U \in SUBSET Stats
      PROVE  \E V \in SUBSET Stats :
                /\ U \subseteq V
                /\ \A d \in Cpus : contextSwitchIntervals[d] \in V =>
                                        contextSwitchIntervals[d] \in U
                /\ \A d \in Cpus : /\ CountsOf(d, U)' = CountsOf(d, V)
                                   /\ BucketsOf(d, U)' = BucketsOf(d, V)
  <2>1. PICK V \in SUBSET Stats : Keeps(U, V)
    BY DEF Steady
  <2>2. \A d \in Cpus, f \in FieldName : \A i \in Index(f) :
            Recorded(d, f, i, U)' = Recorded(d, f, i, V)
    BY <2>1 DEF Keeps
  <2>3. \A d \in Cpus : CountsOf(d, U)' = CountsOf(d, V)
    BY <2>2, FiniteIndexes DEF CountsOf
  <2>4. \A d \in Cpus : BucketsOf(d, U)' = BucketsOf(d, V)
    BY <2>2, FiniteIndexes DEF BucketsOf
  <2>5. QED
    BY <2>1, <2>3, <2>4 DEF Keeps
<1>7. QED
    BY <1>3, <1>4, <1>5, <1>6

\* One cell that grows makes the sum grow.
LEMMA CellGrows ==
    ASSUME NEW f, NEW g, Summable(f), Summable(g), DOMAIN g = DOMAIN f,
           NEW c, NEW b \in BOOLEAN, NEW n \in Int,
           \A x \in DOMAIN f : g[x] = f[x] + (IF b /\ x = c THEN n ELSE 0)
    PROVE  Total(g) = Total(f) + (IF b /\ c \in DOMAIN f THEN n ELSE 0)
<1>1. Total(f) \in Int
    BY TotalType
<1>2. \A x \in DOMAIN f : f[x] \in Int
    BY DEF Summable
<1>3. CASE b /\ c \in DOMAIN f
  <2>1. g[c] = f[c] + n /\ \A x \in DOMAIN f : x # c => g[x] = f[x]
    BY <1>2, <1>3
  <2>2. QED
    BY <1>3, <2>1, TotalGrows
<1>4. CASE ~(b /\ c \in DOMAIN f)
  <2>1. \A x \in DOMAIN f : g[x] = f[x]
    BY <1>2, <1>4
  <2>2. g = f
    BY <2>1 DEF Summable
  <2>3. QED
    BY <1>1, <1>4, <2>2
<1>5. QED
    BY <1>3, <1>4

\* What an addition of the callback does to the sums.
LEMMA AddSums ==
    ASSUME IndInv, Sound, AddInterval
    PROVE  /\ \A c \in Cpus :
                Total(KnownOf(c))' = Total(KnownOf(c)) +
                    One(/\ Head(loc.todo) = "count" /\ c = loc.cpu
                        /\ \E d \in Cpus : Holds(loc.obj, d, "count"))
           /\ Total(TimeOf)' = Total(TimeOf) +
                (IF /\ Head(loc.todo) = "sum"
                    /\ \E d \in Cpus : Holds(loc.obj, d, "sum")
                 THEN loc.interval ELSE 0)
           /\ \A d \in Cpus, U \in SUBSET Stats :
                /\ Total(CountsOf(d, U))' = Total(CountsOf(d, U)) +
                    One(/\ Head(loc.todo) = "count"
                        /\ Weighs(loc.obj, d, "count", U))
                /\ Total(BucketsOf(d, U))' = Total(BucketsOf(d, U)) +
                    One(/\ Head(loc.todo) = "buckets"
                        /\ Weighs(loc.obj, d, "buckets", U))
           /\ Total(AllStrays)' = Total(AllStrays) +
                One(/\ Head(loc.todo) = "count"
                    /\ \E d \in Cpus \ {loc.cpu} : Holds(loc.obj, d, "count"))
<1>0. PICK o, g, cpu, cell, n :
        /\ o = loc.obj /\ g = Head(loc.todo) /\ cpu = loc.cpu
        /\ cell = Cell(g) /\ n = loc.interval
    OBVIOUS
<1>1. /\ o \in Stats /\ g \in FieldName /\ cpu \in Cpus /\ n \in Nat
      /\ cell \in Index(g) /\ Typed /\ Typed'
    BY <1>0, AddSteps, ReadAdded, ReadType DEF Sound, CallbackReady
<1>2. /\ g = "count" => cell = cpu
      /\ g = "sum" => cell = 0
    BY <1>0 DEF Cell
<1>3. \A d \in Cpus, f \in FieldName, U \in SUBSET Stats : \A i \in Index(f) :
        Recorded(d, f, i, U)' = Recorded(d, f, i, U)
            + (IF f = g /\ i = cell /\ Weighs(o, d, f, U)
               THEN IF g = "sum" THEN n ELSE 1 ELSE 0)
    BY <1>0, AddWorth DEF Amount
<1>4. \A d \in Cpus : \A f : Weighs(o, d, f, Stats) <=> Holds(o, d, f)
    BY <1>1 DEF Weighs
<1>5. \A d \in Cpus, e \in Cpus : \A f :
        Holds(o, d, f) /\ Holds(o, e, f) => d = e
    BY <1>1, HeldOnce
<1>6. ASSUME NEW d \in Cpus, NEW U \in SUBSET Stats
      PROVE  Total(CountsOf(d, U))' = Total(CountsOf(d, U)) +
                One(g = "count" /\ Weighs(o, d, "count", U))
  <2> DEFINE f == CountsOf(d, U)
             h == CountsOf(d, U)'
             b == g = "count" /\ Weighs(o, d, "count", U)
  <2>1. Summable(f) /\ Summable(h)
    BY <1>1, SumTypes, SumTypesNext DEF SumsTyped
  <2>2. DOMAIN f = Cpus /\ DOMAIN h = Cpus
    BY DEF CountsOf
  <2>3. \A x \in Cpus : h[x] = f[x] + (IF b /\ x = cpu THEN 1 ELSE 0)
    BY <1>2, <1>3, FiniteIndexes DEF CountsOf
  <2>4. b \in BOOLEAN
    OBVIOUS
  <2> HIDE DEF f, h, b
  <2>5. Total(h) = Total(f) + (IF b /\ cpu \in Cpus THEN 1 ELSE 0)
    BY <2>1, <2>2, <2>3, <2>4, CellGrows
  <2>6. QED
    BY <1>1, <2>5 DEF f, h, b, One
<1>7. ASSUME NEW d \in Cpus, NEW U \in SUBSET Stats
      PROVE  Total(BucketsOf(d, U))' = Total(BucketsOf(d, U)) +
                One(g = "buckets" /\ Weighs(o, d, "buckets", U))
  <2> DEFINE f == BucketsOf(d, U)
             h == BucketsOf(d, U)'
             b == g = "buckets" /\ Weighs(o, d, "buckets", U)
  <2>1. Summable(f) /\ Summable(h)
    BY <1>1, SumTypes, SumTypesNext DEF SumsTyped
  <2>2. DOMAIN f = Buckets /\ DOMAIN h = Buckets
    BY DEF BucketsOf
  <2>3. \A x \in Buckets : h[x] = f[x] + (IF b /\ x = cell THEN 1 ELSE 0)
    BY <1>3, FiniteIndexes DEF BucketsOf
  <2>4. b \in BOOLEAN /\ (b => cell \in Buckets)
    BY <1>1, FiniteIndexes
  <2> HIDE DEF f, h, b
  <2>5. Total(h) = Total(f) + (IF b /\ cell \in Buckets THEN 1 ELSE 0)
    BY <2>1, <2>2, <2>3, <2>4, CellGrows
  <2>6. QED
    BY <2>4, <2>5 DEF f, h, b, One
<1>8. ASSUME NEW c \in Cpus
      PROVE  Total(KnownOf(c))' = Total(KnownOf(c)) +
                One(/\ g = "count" /\ c = cpu
                    /\ \E d \in Cpus : Holds(o, d, "count"))
  <2>1. PICK e : \A d \in Cpus : Holds(o, d, "count") <=>
                    d = e /\ \E x \in Cpus : Holds(o, x, "count")
    BY <1>5
  <2> DEFINE f == KnownOf(c)
             h == KnownOf(c)'
             b == /\ g = "count" /\ c = cpu
                  /\ \E d \in Cpus : Holds(o, d, "count")
  <2>2. Summable(f) /\ Summable(h)
    BY <1>1, SumTypes, SumTypesNext DEF SumsTyped
  <2>3. DOMAIN f = Cpus /\ DOMAIN h = Cpus
    BY DEF KnownOf
  <2>4. \A x \in Cpus : h[x] = f[x] + (IF b /\ x = e THEN 1 ELSE 0)
    BY <1>2, <1>3, <1>4, <2>1, FiniteIndexes DEF KnownOf
  <2>5. b \in BOOLEAN /\ (b => e \in Cpus)
    BY <2>1
  <2> HIDE DEF f, h, b
  <2>6. Total(h) = Total(f) + (IF b /\ e \in Cpus THEN 1 ELSE 0)
    BY <2>2, <2>3, <2>4, <2>5, CellGrows
  <2>7. QED
    BY <2>5, <2>6 DEF f, h, b, One
<1>9. Total(TimeOf)' = Total(TimeOf) +
        (IF g = "sum" /\ \E d \in Cpus : Holds(o, d, "sum") THEN n ELSE 0)
  <2>1. PICK e : \A d \in Cpus : Holds(o, d, "sum") <=>
                    d = e /\ \E x \in Cpus : Holds(o, x, "sum")
    BY <1>5
  <2> DEFINE f == TimeOf
             h == TimeOf'
             b == g = "sum" /\ \E d \in Cpus : Holds(o, d, "sum")
  <2>2. Summable(f) /\ Summable(h)
    BY <1>1, SumTypes, SumTypesNext DEF SumsTyped
  <2>3. DOMAIN f = Cpus /\ DOMAIN h = Cpus
    BY DEF TimeOf
  <2>4. \A x \in Cpus : h[x] = f[x] + (IF b /\ x = e THEN n ELSE 0)
    BY <1>2, <1>3, <1>4, <2>1, FiniteIndexes DEF TimeOf
  <2>5. b \in BOOLEAN /\ (b => e \in Cpus)
    BY <2>1
  <2> HIDE DEF f, h, b
  <2>6. Total(h) = Total(f) + (IF b /\ e \in Cpus THEN n ELSE 0)
    BY <1>1, <2>2, <2>3, <2>4, <2>5, CellGrows
  <2>7. QED
    BY <2>5, <2>6 DEF f, h, b
<1>10. Total(AllStrays)' = Total(AllStrays) +
        One(g = "count" /\ \E d \in Cpus \ {cpu} : Holds(o, d, "count"))
  <2>1. PICK e : \A d \in Cpus : Holds(o, d, "count") <=>
                    d = e /\ \E x \in Cpus : Holds(o, x, "count")
    BY <1>5
  <2> DEFINE f == AllStrays
             h == AllStrays'
             b == g = "count" /\ \E d \in Cpus \ {cpu} : Holds(o, d, "count")
  <2>2. Summable(f) /\ Summable(h)
    BY <1>1, SumTypes, SumTypesNext DEF SumsTyped
  <2>3. DOMAIN f = Cpus /\ DOMAIN h = Cpus
    BY DEF AllStrays
  <2>4. ASSUME NEW x \in Cpus
        PROVE  h[x] = f[x] + (IF b /\ x = e THEN 1 ELSE 0)
    <3> DEFINE p == StraysOf(x)
               q == StraysOf(x)'
               a == g = "count" /\ Holds(o, x, "count")
    <3>1. Summable(p) /\ Summable(q)
        BY <1>1, SumTypes, SumTypesNext DEF SumsTyped
    <3>2. DOMAIN p = Cpus \ {x} /\ DOMAIN q = Cpus \ {x}
        BY DEF StraysOf
    <3>3. \A c \in Cpus \ {x} : q[c] = p[c] + (IF a /\ c = cpu THEN 1 ELSE 0)
        BY <1>2, <1>3, <1>4, FiniteIndexes DEF StraysOf
    <3>4. a \in BOOLEAN
        OBVIOUS
    <3>5. (a /\ cpu \in Cpus \ {x}) <=> (b /\ x = e)
        BY <1>1, <2>1
    <3> HIDE DEF p, q, a, b
    <3>6. Total(q) = Total(p) + (IF a /\ cpu \in Cpus \ {x} THEN 1 ELSE 0)
        <4>1. DOMAIN q = DOMAIN p
            BY <3>2
        <4>2. \A c \in DOMAIN p : q[c] = p[c] + (IF a /\ c = cpu THEN 1 ELSE 0)
            BY <3>2, <3>3
        <4>3. Total(q) = Total(p) + (IF a /\ cpu \in DOMAIN p THEN 1 ELSE 0)
            BY <3>1, <3>4, <4>1, <4>2, CellGrows
        <4>4. QED
            BY <3>2, <4>3
    <3>7. h[x] = Total(q) /\ f[x] = Total(p)
        BY DEF AllStrays, p, q
    <3>8. QED
        BY <3>5, <3>6, <3>7
  <2>5. b \in BOOLEAN /\ (b => e \in Cpus)
    BY <2>1
  <2> HIDE DEF f, h, b
  <2>6. Total(h) = Total(f) + (IF b /\ e \in Cpus THEN 1 ELSE 0)
    BY <2>2, <2>3, <2>4, <2>5, CellGrows
  <2>7. QED
    BY <2>5, <2>6 DEF f, h, b, One
<1>11. QED
    BY <1>0, <1>6, <1>7, <1>8, <1>9, <1>10

-----------------------------------------------------------------------------
(* The invariant of the sums is preserved.                                 *)

\* Without an object in hand nothing is astray, displaced or due.
LEMMA NothingInHand ==
    ASSUME loc.obj = None
    PROVE  ~Astray /\ ~Displaced /\ \A d \in Cpus : \A U : Due(d, U) = 0
BY DEF Astray, Displaced, Due, One

LEMMA InHandNext ==
    ASSUME loc'.obj = None
    PROVE  ~Astray' /\ ~Displaced' /\ \A d \in Cpus : \A U : Due(d, U)' = 0
BY DEF Astray, Displaced, Due, One

\* A step that changes nothing of what is recorded, and leaves nothing due.
LEMMA SteadyTorn ==
    ASSUME Typed, Torn, Steady, overtaken' = overtaken, ~Astray',
           \A d \in Cpus : \A U : Due(d, U) = 0 /\ Due(d, U)' = 0
    PROVE  Torn'
<1> SUFFICES ASSUME NEW d \in Cpus, NEW U \in SUBSET Stats
             PROVE  /\ Gap(d, U)' <= overtaken
                    /\ 0 - Gap(d, U)' <= overtaken
    BY DEF Torn, One, Typed
<1>1. PICK V \in SUBSET Stats : /\ CountsOf(d, U)' = CountsOf(d, V)
                                /\ BucketsOf(d, U)' = BucketsOf(d, V)
    BY SteadySums
<1>2. PICK m \in Nat, n \in Nat :
        Total(CountsOf(d, V)) = m /\ Total(BucketsOf(d, V)) = n
    BY SumTypes DEF SumsTyped
<1>3. Gap(d, V) = m - n /\ Gap(d, U)' = m - n
    BY <1>1, <1>2 DEF Gap
<1>4. /\ Gap(d, V) <= overtaken - One(Astray /\ Pends(loc.todo, "count"))
      /\ 0 - Gap(d, V) <= overtaken - One(Astray)
    BY DEF Torn
<1>5. QED
    BY <1>2, <1>3, <1>4 DEF One, Typed

\* The interval that the callback measures is awaited.
LEMMA HandleCount ==
    ASSUME IndInv, Sound, CountInv, NEW c \in Cpus, HandleContextSwitchRaw(c)
    PROVE  CountInv'
<1>1. /\ loc.todo = <<>> /\ loc.obj = None
      /\ UNCHANGED <<stats, cumulativeIntervals, contextSwitchIntervals,
                     collect, overtaken, reused>>
    BY DEF HandleContextSwitchRaw, Sound, CallbackReady, Before
<1>2. PICK n \in Nat :
        /\ loc' = [todo |-> <<"switch">>, cpu |-> c, obj |-> None,
                   interval |-> n]
        /\ intervals' = IF n > 0 THEN [intervals EXCEPT ![c] = @ + 1]
                        ELSE intervals
        /\ Elapsed' = [Elapsed EXCEPT ![c] = @ + n]
    BY HandleSteps
<1>3. /\ loc'.todo = <<"switch">> /\ loc'.cpu = c /\ loc'.obj = None
      /\ loc'.interval = n
    BY <1>2
<1>4. /\ ~Astray /\ ~Displaced /\ ~Astray' /\ ~Displaced'
      /\ \A d \in Cpus : \A U : Due(d, U) = 0 /\ Due(d, U)' = 0
    BY <1>1, <1>3, NothingInHand, InHandNext
<1>5. Steady
    BY <1>1, CallbackSteady
<1>6. \A f \in FieldName : ~Awaited(f) /\ (Awaited(f)' <=> n > 0)
    BY <1>1, <1>3, FieldsPend, StepsDiffer DEF Awaited
<1>7. Balance'
  <2> SUFFICES ASSUME NEW x \in Cpus
               PROVE  /\ Total(KnownOf(x))' + One(c = x /\ n > 0)
                            <= intervals'[x]
                      /\ intervals'[x] <= (Total(KnownOf(x))'
                            + One(c = x /\ n > 0)) + overtaken
    <3>1. \A x \in Cpus : One(loc'.cpu = x /\ Awaited("count")')
                            = One(c = x /\ n > 0)
        BY <1>3, <1>6, FiniteIndexes DEF One
    <3>2. One(Astray' /\ Pends(loc'.todo, "count")) = 0
        BY <1>4 DEF One
    <3>3. \A x \in Cpus : intervals'[x] \in Nat
        BY HandleSteps DEF Sound, Typed
    <3>4. QED
        BY <1>1, <3>1, <3>2, <3>3 DEF Balance
  <2>1. PICK k \in Nat : Total(KnownOf(x)) = k
    BY SumTypes DEF SumsTyped, Sound
  <2>2. Total(KnownOf(x))' = k
    BY <1>5, <2>1, SteadySums
  <2>3. k <= intervals[x] /\ intervals[x] <= k + overtaken
    BY <1>4, <1>6, <2>1, FiniteIndexes DEF CountInv, Balance, One, Sound, Typed
  <2>4. intervals'[x] = intervals[x] + One(c = x /\ n > 0)
    BY <1>2 DEF One, Sound, Typed
  <2>5. intervals[x] \in Nat /\ overtaken \in Nat
    BY DEF Sound, Typed
  <2>6. QED
    BY <2>1, <2>2, <2>3, <2>4, <2>5 DEF One
<1>8. Torn'
    BY <1>1, <1>4, <1>5, SteadyTorn DEF CountInv, Sound
<1>9. Placed'
  <2>1. AllStrays' = AllStrays
    BY <1>5, SteadySums
  <2>2. QED
    BY <1>1, <1>4, <2>1 DEF CountInv, Placed, One
<1>10. InTime'
  <2>1. TimeOf' = TimeOf
    BY <1>5, SteadySums
  <2>2. Total(Elapsed)' = Total(Elapsed) + n
    <3>1. Summable(Elapsed) /\ Summable(Elapsed)' /\ DOMAIN Elapsed = Cpus
        BY ElapsedType, HandleSteps
    <3>2. /\ Elapsed'[c] = Elapsed[c] + n
          /\ \A d \in Cpus : d # c => Elapsed'[d] = Elapsed[d]
          /\ DOMAIN Elapsed' = Cpus
        BY <1>2, <3>1
    <3>3. QED
        BY <3>1, <3>2, TotalGrows
  <2>3. PICK t \in Nat, e \in Int : Total(TimeOf) = t /\ Total(Elapsed) = e
    BY SumTypes, ElapsedType, TotalType DEF SumsTyped, Sound
  <2>4. t <= e
    BY <1>6, <2>3, FiniteIndexes DEF CountInv, InTime
  <2>5. (IF Awaited("sum")' THEN loc'.interval ELSE 0) = n
    BY <1>3, <1>6, FiniteIndexes
  <2>6. QED
    BY <2>1, <2>2, <2>3, <2>4, <2>5 DEF InTime
<1>11. QED
    BY <1>7, <1>8, <1>9, <1>10 DEF CountInv

\* The callback goes on to what it awaits.
LEMMA SteadyCount ==
    ASSUME IndInv, Sound, Sound', CountInv, Steady,
           UNCHANGED <<intervals, Elapsed, overtaken, reused>>,
           ~Astray, ~Displaced, ~Astray', ~Displaced',
           \A d \in Cpus : \A U : Due(d, U) = 0 /\ Due(d, U)' = 0,
           \A f \in FieldName :
                /\ Awaited(f)' <=> Awaited(f)
                /\ Awaited(f) => loc'.cpu = loc.cpu
                                 /\ loc'.interval = loc.interval
    PROVE  CountInv'
<1>1. Balance'
  <2>1. \A x \in Cpus : One(loc'.cpu = x /\ Awaited("count")')
                            = One(loc.cpu = x /\ Awaited("count"))
    BY FiniteIndexes DEF One
  <2>2. /\ One(Astray' /\ Pends(loc'.todo, "count")) = 0
        /\ One(Astray /\ Pends(loc.todo, "count")) = 0
    BY DEF One
  <2>3. \A x \in Cpus : KnownOf(x)' = KnownOf(x)
    BY SteadySums
  <2>4. Balance
    BY DEF CountInv
  <2>5. QED
    BY <2>1, <2>2, <2>3, <2>4 DEF Balance
<1>2. Torn'
    BY SteadyTorn DEF CountInv, Sound
<1>3. Placed'
  <2>1. AllStrays' = AllStrays
    BY SteadySums
  <2>2. QED
    BY <2>1 DEF CountInv, Placed, One
<1>4. InTime'
  <2>1. TimeOf' = TimeOf
    BY SteadySums
  <2>2. (IF Awaited("sum")' THEN loc'.interval ELSE 0)
            = (IF Awaited("sum") THEN loc.interval ELSE 0)
    BY FiniteIndexes
  <2>3. InTime
    BY DEF CountInv
  <2>4. QED
    BY <2>1, <2>2, <2>3 DEF InTime
<1>5. QED
    BY <1>1, <1>2, <1>3, <1>4 DEF CountInv

LEMMA RecordCount ==
    ASSUME IndInv, Sound, CountInv, RecordSwitch PROVE CountInv'
<1>1. /\ loc.todo = <<"switch">> /\ loc.obj = None
      /\ UNCHANGED <<stats, cumulativeIntervals, contextSwitchIntervals,
                     collect, overtaken, reused, intervals>>
    BY DEF RecordSwitch, Sound, CallbackReady, Before
<1>2. UNCHANGED Elapsed
    BY DEF RecordSwitch, Elapsed
<1>3. loc' = IF loc.interval > 0 THEN [loc EXCEPT !.todo = <<"load">>]
             ELSE Idle
    BY DEF RecordSwitch
<1>4. loc'.obj = None
    BY <1>1, <1>3 DEF Idle, Sound, CallbackReady
<1>5. /\ ~Astray /\ ~Displaced /\ ~Astray' /\ ~Displaced'
      /\ \A d \in Cpus : \A U : Due(d, U) = 0 /\ Due(d, U)' = 0
    BY <1>1, <1>4, NothingInHand, InHandNext
<1>6. \A f \in FieldName : /\ Awaited(f)' <=> Awaited(f)
                           /\ Awaited(f) => loc'.cpu = loc.cpu
                                            /\ loc'.interval = loc.interval
  <2>1. \A f \in FieldName : Awaited(f) <=> loc.interval > 0
    BY <1>1, FieldsPend DEF Awaited
  <2>2. CASE loc.interval > 0
    <3>1. /\ loc'.todo = <<"load">> /\ loc'.cpu = loc.cpu
          /\ loc'.interval = loc.interval
        BY <1>3, <2>2 DEF Sound, CallbackReady
    <3>2. \A f \in FieldName : Awaited(f)'
        BY <2>2, <3>1 DEF Awaited
    <3>3. QED
        BY <2>1, <2>2, <3>1, <3>2
  <2>3. CASE ~(loc.interval > 0)
    <3>1. loc'.todo = <<>>
        BY <1>3, <2>3 DEF Idle
    <3>2. \A f \in FieldName : ~Awaited(f)'
        BY <3>1, FieldsPend, StepsDiffer DEF Awaited
    <3>3. QED
        BY <2>1, <2>3, <3>2
  <2>4. QED
    BY <2>2, <2>3
<1>7. Steady
    BY <1>1, CallbackSteady
<1>8. QED
    BY <1>1, <1>2, <1>5, <1>6, <1>7, RecordSound, SteadyCount

LEMMA LoadCount ==
    ASSUME IndInv, Sound, CountInv, LoadStats PROVE CountInv'
<1>0. PICK cpu, o : cpu = loc.cpu /\ o = contextSwitchIntervals[cpu]
    OBVIOUS
<1>1. /\ loc.todo = <<"load">> /\ loc.obj = None /\ loc.interval > 0
      /\ UNCHANGED <<stats, cumulativeIntervals, contextSwitchIntervals,
                     collect, overtaken, reused, intervals>>
    BY StepsDiffer DEF LoadStats, Sound, CallbackReady, Before
<1>2. UNCHANGED Elapsed
    BY DEF LoadStats, Elapsed
<1>3. /\ loc'.todo = Fields /\ loc'.cpu = cpu /\ loc'.obj = o
      /\ loc'.interval = loc.interval
    BY <1>0 DEF LoadStats, StatsOf, Sound, CallbackReady
<1>4. cpu \in Cpus /\ o \in Stats
    BY <1>0 DEF Sound, CallbackReady, IndInv, Locals
<1>5. ~Astray'
    BY <1>0, <1>1, <1>3, <1>4 DEF Astray
<1>6. ~Displaced'
  <2>1. \A d \in Cpus : d # cpu => contextSwitchIntervals[d] # o
    BY <1>0, <1>4 DEF IndInv, OnePlace, CpusApart
  <2>2. \A s \in Scrapers, d \in Cpus : collect[s].old[d] # o
    BY <1>0, <1>4 DEF IndInv, OnePlace, OldApart
  <2>3. \A s \in Scrapers : collect[s].fresh # o
    BY <1>0, <1>4 DEF IndInv, OnePlace, FreshApart
  <2>4. QED
    BY <1>1, <1>3, <2>1, <2>2, <2>3 DEF Displaced
<1>7. /\ ~Astray /\ ~Displaced
      /\ \A d \in Cpus : \A U : Due(d, U) = 0 /\ Due(d, U)' = 0
  <2>1. Pends(loc'.todo, "count")
    BY <1>3, FieldsPend, FiniteIndexes
  <2>2. QED
    BY <1>1, <2>1, NothingInHand DEF Due, One
<1>8. \A f \in FieldName : Awaited(f) /\ Awaited(f)'
    BY <1>1, <1>3, FieldsPend DEF Awaited
<1>9. Steady
    BY <1>1, CallbackSteady
<1>10. Sound'
    BY LoadSound
<1>11. QED
    BY <1>0, <1>1, <1>2, <1>3, <1>5, <1>6, <1>7, <1>8, <1>9, <1>10, SteadyCount

\* A scrape may take the object of the callback away, or take it up.
LEMMA ScrapeCount ==
    ASSUME IndInv, Sound, CountInv, NEW s \in Scrapers, ScrapeStep(s)
    PROVE  CountInv'
<1>1. /\ Steady /\ loc' = loc /\ intervals' = intervals
      /\ Sound' /\ Elapsed' = Elapsed
    BY ScrapeSteps DEF Elapsed
<1>2. overtaken \in Nat /\ reused \in Nat
    BY DEF Sound, Typed
<1>3. \/ overtaken' = overtaken /\ (Astray' => Astray)
      \/ overtaken' = overtaken + 1
    BY <1>1, ScrapeMoves DEF Astray
<1>4. Balance'
  <2> SUFFICES ASSUME NEW c \in Cpus
               PROVE  LET known == Total(KnownOf(c)) +
                                    One(loc.cpu = c /\ Awaited("count"))
                      IN  /\ known <= intervals[c]
                          /\ intervals[c] +
                                One(Astray' /\ Pends(loc.todo, "count"))
                                    <= known + overtaken'
    <3>1. \A c \in Cpus : KnownOf(c)' = KnownOf(c)
        BY <1>1, SteadySums
    <3>2. Awaited("count")' <=> Awaited("count")
        BY <1>1 DEF Awaited
    <3>3. \A c \in Cpus : One(loc'.cpu = c /\ Awaited("count")')
                            = One(loc.cpu = c /\ Awaited("count"))
        BY <1>1, <3>2 DEF One
    <3>4. QED
        BY <1>1, <3>1, <3>3 DEF Balance
  <2>1. PICK k \in Nat, w \in Nat :
            /\ Total(KnownOf(c)) = k
            /\ One(loc.cpu = c /\ Awaited("count")) = w
    BY SumTypes DEF SumsTyped, Sound, One
  <2>2. /\ k + w <= intervals[c]
        /\ intervals[c] + One(Astray /\ Pends(loc.todo, "count"))
                <= (k + w) + overtaken
    BY <2>1 DEF CountInv, Balance
  <2>3. intervals[c] \in Nat
    BY DEF Sound, Typed
  <2>4. QED
    BY <1>2, <1>3, <2>1, <2>2, <2>3 DEF One
<1>5. Torn'
  <2> SUFFICES ASSUME NEW d \in Cpus, NEW U \in SUBSET Stats
               PROVE  /\ Gap(d, U)' <= overtaken'
                            - One(Astray' /\ Pends(loc.todo, "count"))
                      /\ 0 - Gap(d, U)' <= overtaken' - One(Astray')
    BY <1>1 DEF Torn
  <2>1. PICK V \in SUBSET Stats :
            /\ U \subseteq V
            /\ contextSwitchIntervals[d] \in V =>
                    contextSwitchIntervals[d] \in U
            /\ CountsOf(d, U)' = CountsOf(d, V)
            /\ BucketsOf(d, U)' = BucketsOf(d, V)
    BY <1>1, SteadySums
  <2>2. PICK m \in Nat, n \in Nat :
            Total(CountsOf(d, V)) = m /\ Total(BucketsOf(d, V)) = n
    BY SumTypes DEF SumsTyped, Sound
  <2>3. /\ Gap(d, V) = (m - n) - Due(d, V)
        /\ Gap(d, U)' = (m - n) - Due(d, U)'
    BY <2>1, <2>2 DEF Gap
  <2>4. /\ Gap(d, V) <= overtaken - One(Astray /\ Pends(loc.todo, "count"))
        /\ 0 - Gap(d, V) <= overtaken - One(Astray)
    BY DEF CountInv, Torn
  <2>5. Due(d, V) \in {0, 1} /\ Due(d, U)' \in {0, 1}
    BY DEF Due, One
  <2>6. Pends(loc.todo, "count") => Due(d, V) = 0 /\ Due(d, U)' = 0
    BY <1>1 DEF Due, One
  <2>7. CASE /\ overtaken' = overtaken
             /\ \A e \in Cpus : contextSwitchIntervals'[e] = loc.obj <=>
                                    contextSwitchIntervals[e] = loc.obj
    <3>1. Astray' <=> Astray
        BY <1>1, <2>7 DEF Astray
    <3>2. Due(d, U)' = Due(d, V)
        BY <1>1, <2>1, <2>7 DEF Due
    <3>3. QED
        BY <2>3, <2>4, <2>7, <3>1, <3>2
  <2>8. CASE /\ overtaken' = overtaken + 1 /\ loc.obj # None
             /\ \E e \in Cpus : contextSwitchIntervals[e] = loc.obj
             /\ \A e \in Cpus : contextSwitchIntervals'[e] # loc.obj
    <3>1. ~Astray /\ Astray'
        BY <1>1, <2>8 DEF Astray
    <3>2. Due(d, U)' = 0
        BY <1>1, <2>8 DEF Due, One
    <3>3. QED
        BY <1>2, <2>2, <2>3, <2>4, <2>5, <2>6, <2>8, <3>1, <3>2 DEF One
  <2>9. CASE /\ overtaken' = overtaken /\ loc.obj # None
             /\ \A e \in Cpus : contextSwitchIntervals[e] # loc.obj
             /\ \E e \in Cpus : contextSwitchIntervals'[e] = loc.obj
    <3>1. Astray /\ ~Astray'
        BY <1>1, <2>9 DEF Astray
    <3>2. Due(d, V) = 0
        BY <2>9 DEF Due, One
    <3>3. QED
        BY <1>2, <2>2, <2>3, <2>4, <2>5, <2>6, <2>9, <3>1, <3>2 DEF One
  <2>10. QED
    BY <2>7, <2>8, <2>9, ScrapeMoves
<1>6. Placed'
  <2>1. AllStrays' = AllStrays
    BY <1>1, SteadySums
  <2>2. PICK k \in Nat : Total(AllStrays) = k
    BY SumTypes DEF SumsTyped, Sound
  <2>3. k + One(Displaced /\ Pends(loc.todo, "count")) <= reused
    BY <2>2 DEF CountInv, Placed
  <2>4. \/ reused' = reused + 1
        \/ reused' = reused /\ (Displaced' => Displaced)
    BY ScrapeMoves
  <2>5. k + One(Displaced' /\ Pends(loc.todo, "count")) <= reused'
    BY <1>2, <2>2, <2>3, <2>4 DEF One
  <2>6. QED
    BY <1>1, <2>1, <2>2, <2>5 DEF Placed
<1>7. InTime'
  <2>1. TimeOf' = TimeOf
    BY <1>1, SteadySums
  <2>2. Awaited("sum")' <=> Awaited("sum")
    BY <1>1 DEF Awaited
  <2>3. InTime
    BY DEF CountInv
  <2>4. QED
    BY <1>1, <2>1, <2>2, <2>3 DEF InTime
<1>8. QED
    BY <1>4, <1>5, <1>6, <1>7 DEF CountInv

\* An object that is held for no CPU is astray; one that is current weighs as
\* far as it is in U.
LEMMA WhereItWeighs ==
    ASSUME IndInv, Sound, loc.obj \in Stats, NEW f \in FieldName
    PROVE  /\ (\A d \in Cpus : ~Holds(loc.obj, d, f)) => Astray
           /\ \A d \in Cpus, U \in SUBSET Stats :
                /\ contextSwitchIntervals[d] = loc.obj =>
                        (Weighs(loc.obj, d, f, U) <=> loc.obj \in U)
                /\ Weighs(loc.obj, d, f, U)
                        /\ contextSwitchIntervals[d] # loc.obj => Astray
<1>1. loc.obj # None
    BY CollectorAssumption DEF CollectorAssumption
<1>2. (\A d \in Cpus : ~Holds(loc.obj, d, f)) => Astray
    BY <1>1 DEF Holds, Astray
<1>3. ASSUME NEW d \in Cpus, NEW U \in SUBSET Stats,
             contextSwitchIntervals[d] = loc.obj
      PROVE  Weighs(loc.obj, d, f, U) <=> loc.obj \in U
  <2>1. ~HalfMerged(loc.obj)
    BY <1>3 DEF HalfMerged, HalfMergedBy, IndInv, Locals, Local, OnePlace,
       OldApart
  <2>2. QED
    BY <1>3, <2>1 DEF Weighs, Holds
<1>4. ASSUME NEW d \in Cpus, NEW U \in SUBSET Stats,
             Weighs(loc.obj, d, f, U), contextSwitchIntervals[d] # loc.obj
      PROVE  Astray
  <2>1. PICK s \in Scrapers : HoldsBy(collect[s], loc.obj, d, f)
    BY <1>4 DEF Weighs, Holds
  <2>2. collect[s].old[d] = loc.obj \/ collect[s].fresh = loc.obj
    BY <2>1, HoldsByOld
  <2>3. \A e \in Cpus : contextSwitchIntervals[e] # loc.obj
    BY <2>2 DEF IndInv, OnePlace, OldApart, FreshApart
  <2>4. QED
    BY <1>1, <2>3 DEF Astray
<1>5. QED
    BY <1>2, <1>3, <1>4

\* What the callback adds was awaited.  It is added for another CPU only to an
\* object that is displaced, and not added for any only to one that is astray.
LEMMA AddCount ==
    ASSUME IndInv, Sound, CountInv, AddInterval PROVE CountInv'
<1>0. PICK o, g, cpu, n : /\ o = loc.obj /\ g = Head(loc.todo)
                          /\ cpu = loc.cpu /\ n = loc.interval
    OBVIOUS
<1>1. /\ o \in Stats /\ g \in FieldName /\ loc.todo \in Todos \ {<<>>}
      /\ loc'.todo = Tail(loc.todo) /\ Sound'
      /\ loc' = Idle <=> g = "buckets"
      /\ loc' = Idle \/ /\ loc'.obj = o /\ loc'.cpu = cpu
                        /\ loc'.interval = n
    BY <1>0, AddSteps
<1>2. /\ ~Pends(loc'.todo, "count")
      /\ Pends(loc.todo, "count") <=> g = "count"
      /\ Pends(loc.todo, g)
      /\ \A f \in FieldName : Pends(loc'.todo, f) <=>
                                Pends(loc.todo, f) /\ f # g
    BY <1>0, <1>1, FieldsLeft
<1>3. \A f \in FieldName : /\ Awaited(f) <=> Pends(loc.todo, f)
                           /\ Awaited(f)' <=> Pends(loc'.todo, f)
  <2>1. /\ loc.todo \notin {<<"switch">>, <<"load">>}
        /\ loc'.todo \notin {<<"switch">>, <<"load">>}
    BY <1>1, StepsDiffer, FieldsLeft
  <2>2. QED
    BY <2>1 DEF Awaited
<1>4. /\ UNCHANGED <<contextSwitchIntervals, collect, overtaken, reused,
                     intervals>>
      /\ UNCHANGED Elapsed
    BY DEF AddInterval, Elapsed
<1>5. o # None
    BY <1>1, CollectorAssumption DEF CollectorAssumption
<1>6. overtaken \in Nat /\ reused \in Nat
    BY DEF Sound, Typed
<1>7. IF g = "buckets" THEN ~Astray' /\ loc'.obj = None
      ELSE (Astray' <=> Astray) /\ loc'.obj = o
  <2>1. CASE g = "buckets"
    BY <1>1, <2>1 DEF Idle, Astray
  <2>2. CASE g # "buckets"
    BY <1>0, <1>1, <1>4, <2>2 DEF Astray
  <2>3. QED
    BY <2>1, <2>2
<1>8. Balance'
  <2> SUFFICES ASSUME NEW c \in Cpus
               PROVE  /\ Total(KnownOf(c))' <= intervals[c]
                      /\ intervals[c] <= Total(KnownOf(c))' + overtaken
    <3>1. \A c \in Cpus : One(loc'.cpu = c /\ Awaited("count")') = 0
        BY <1>2, <1>3, FiniteIndexes DEF One
    <3>2. One(Astray' /\ Pends(loc'.todo, "count")) = 0
        BY <1>2 DEF One
    <3>3. \A c \in Cpus : /\ Total(KnownOf(c))' \in Nat
                          /\ intervals[c] \in Nat
        BY <1>1, SumTypesNext DEF SumsTyped, Sound, Typed
    <3>4. QED
        BY <1>4, <1>6, <3>1, <3>2, <3>3 DEF Balance
  <2> DEFINE held == \E d \in Cpus : Holds(o, d, "count")
  <2>1. PICK k \in Nat : Total(KnownOf(c)) = k
    BY SumTypes DEF SumsTyped, Sound
  <2>2. Total(KnownOf(c))' = k + One(g = "count" /\ c = cpu /\ held)
    BY <1>0, <2>1, AddSums
  <2>3. /\ k + One(cpu = c /\ g = "count") <= intervals[c]
        /\ intervals[c] + One(Astray /\ g = "count")
                <= (k + One(cpu = c /\ g = "count")) + overtaken
    <3>1. Awaited("count") <=> g = "count"
        BY <1>2, <1>3, FiniteIndexes
    <3>2. /\ One(loc.cpu = c /\ Awaited("count")) = One(cpu = c /\ g = "count")
          /\ One(Astray /\ Pends(loc.todo, "count"))
                = One(Astray /\ g = "count")
        BY <1>0, <1>2, <3>1 DEF One
    <3>3. QED
        BY <2>1, <3>2 DEF CountInv, Balance
  <2>4. ~held => Astray
    BY <1>0, <1>1, WhereItWeighs, FiniteIndexes
  <2>5. intervals[c] \in Nat
    BY DEF Sound, Typed
  <2> HIDE DEF held
  <2>6. QED
    BY <1>6, <2>1, <2>2, <2>3, <2>4, <2>5 DEF One
<1>9. Torn'
  <2> SUFFICES ASSUME NEW d \in Cpus, NEW U \in SUBSET Stats
               PROVE  /\ Gap(d, U)' <= overtaken
                      /\ 0 - Gap(d, U)' <= overtaken - One(Astray')
    <3>1. One(Astray' /\ Pends(loc'.todo, "count")) = 0
        BY <1>2 DEF One
    <3>2. QED
        BY <1>4, <1>6, <3>1 DEF Torn
  <2> DEFINE more == g = "count" /\ Weighs(o, d, "count", U)
             last == g = "buckets" /\ Weighs(o, d, "buckets", U)
             current == contextSwitchIntervals[d] = o
  <2>1. PICK i \in Nat, j \in Nat :
            Total(CountsOf(d, U)) = i /\ Total(BucketsOf(d, U)) = j
    BY SumTypes DEF SumsTyped, Sound
  <2>2. /\ Total(CountsOf(d, U))' = i + One(more)
        /\ Total(BucketsOf(d, U))' = j + One(last)
    BY <1>0, <2>1, AddSums
  <2>3. /\ Due(d, U) = One(g # "count" /\ current /\ o \in U)
        /\ Due(d, U)' = One(g # "buckets" /\ current /\ o \in U)
    BY <1>0, <1>2, <1>4, <1>5, <1>7 DEF Due, One
  <2>4. /\ (i - j) - Due(d, U) <= overtaken - One(Astray /\ g = "count")
        /\ 0 - ((i - j) - Due(d, U)) <= overtaken - One(Astray)
    <3>1. One(Astray /\ Pends(loc.todo, "count")) = One(Astray /\ g = "count")
        BY <1>2 DEF One
    <3>2. Gap(d, U) = (i - j) - Due(d, U)
        BY <2>1 DEF Gap
    <3>3. QED
        BY <3>1, <3>2 DEF CountInv, Torn
  <2>5. Gap(d, U)' = ((i + One(more)) - (j + One(last))) - Due(d, U)'
    BY <2>2 DEF Gap
  <2>6. /\ current => /\ g = "count" => (more <=> o \in U)
                      /\ g = "buckets" => (last <=> o \in U)
                      /\ ~Astray
        /\ (more \/ last) /\ ~current => Astray
        /\ more => g = "count"
        /\ last => g = "buckets"
    <3>1. current => ~Astray
        BY <1>0 DEF Astray
    <3>2. QED
        BY <1>0, <1>1, <3>1, WhereItWeighs, FiniteIndexes
  <2> HIDE DEF more, last, current
  <2>7. CASE g = "count"
    <3>1. (Astray' <=> Astray) /\ ~last
        BY <1>7, <2>6, <2>7
    <3>2. Due(d, U) = 0 /\ Due(d, U)' = One(current /\ o \in U)
        BY <2>3, <2>7 DEF One
    <3>3. more => (current /\ o \in U) \/ (Astray /\ ~current)
        BY <2>6, <2>7
    <3>4. ~more => ~(current /\ o \in U)
        BY <2>6, <2>7
    <3>5. QED
        BY <1>6, <2>1, <2>4, <2>5, <2>6, <2>7, <3>1, <3>2, <3>3, <3>4 DEF One
  <2>8. CASE g = "sum"
    <3>1. (Astray' <=> Astray) /\ ~last /\ ~more
        BY <1>7, <2>6, <2>8
    <3>2. Due(d, U)' = Due(d, U) /\ Due(d, U) \in {0, 1}
        BY <2>3, <2>8 DEF One
    <3>3. QED
        BY <1>6, <2>1, <2>4, <2>5, <2>8, <3>1, <3>2 DEF One
  <2>9. CASE g = "buckets"
    <3>1. ~Astray' /\ ~more
        BY <1>7, <2>6, <2>9
    <3>2. Due(d, U)' = 0 /\ Due(d, U) = One(current /\ o \in U)
        BY <2>3, <2>9 DEF One
    <3>3. last => (current /\ o \in U) \/ (Astray /\ ~current)
        BY <2>6, <2>9
    <3>4. ~last => ~(current /\ o \in U)
        BY <2>6, <2>9
    <3>5. QED
        BY <1>6, <2>1, <2>4, <2>5, <2>6, <2>9, <3>1, <3>2, <3>3, <3>4 DEF One
  <2>10. QED
    BY <1>1, <2>7, <2>8, <2>9 DEF FieldName
<1>10. Placed'
  <2> DEFINE strays == \E d \in Cpus \ {cpu} : Holds(o, d, "count")
  <2>1. PICK k \in Nat : Total(AllStrays) = k
    BY SumTypes DEF SumsTyped, Sound
  <2>2. Total(AllStrays)' = k + One(g = "count" /\ strays)
    BY <1>0, <2>1, AddSums
  <2>3. k + One(Displaced /\ g = "count") <= reused
    <3>1. One(Displaced /\ Pends(loc.todo, "count"))
            = One(Displaced /\ g = "count")
        BY <1>2 DEF One
    <3>2. QED
        BY <2>1, <3>1 DEF CountInv, Placed
  <2>4. strays => Displaced
    <3> SUFFICES ASSUME NEW d \in Cpus \ {cpu}, Holds(o, d, "count")
                 PROVE  Displaced
        OBVIOUS
    <3>1. CASE contextSwitchIntervals[d] = o
        BY <1>0, <1>5, <3>1 DEF Displaced
    <3>2. CASE contextSwitchIntervals[d] # o
      <4>1. PICK s \in Scrapers : HoldsBy(collect[s], o, d, "count")
        BY <3>2 DEF Holds
      <4>2. collect[s].old[d] = o \/ collect[s].fresh = o
        BY <1>1, <4>1, HoldsByOld
      <4>3. QED
        BY <1>0, <1>5, <4>2 DEF Displaced
    <3>3. QED
        BY <3>1, <3>2
  <2> HIDE DEF strays
  <2>5. One(Displaced' /\ Pends(loc'.todo, "count")) = 0
    BY <1>2 DEF One
  <2>6. k + One(g = "count" /\ strays) <= reused
    BY <1>6, <2>1, <2>3, <2>4 DEF One
  <2>7. QED
    BY <1>4, <1>6, <2>1, <2>2, <2>5, <2>6 DEF Placed, One
<1>11. InTime'
  <2> DEFINE held == \E d \in Cpus : Holds(o, d, "sum")
             due == IF Awaited("sum") THEN n ELSE 0
  <2>1. PICK t \in Nat, e \in Int : Total(TimeOf) = t /\ Total(Elapsed) = e
    BY SumTypes, ElapsedType, TotalType DEF SumsTyped, Sound
  <2>2. Total(TimeOf)' = t + (IF g = "sum" /\ held THEN n ELSE 0)
    BY <1>0, <2>1, AddSums
  <2>3. t + due <= e
    BY <1>0, <2>1 DEF CountInv, InTime
  <2>4. n \in Nat
    BY <1>0 DEF Sound, CallbackReady
  <2>5. Awaited("sum")' <=> Awaited("sum") /\ g # "sum"
    BY <1>2, <1>3, FiniteIndexes
  <2>6. g = "sum" => Awaited("sum")
    BY <1>2, <1>3, FiniteIndexes
  <2>7. Awaited("sum")' => loc'.interval = n
    <3>1. CASE loc' = Idle
        BY <1>3, <3>1, FieldsPend, FiniteIndexes DEF Idle
    <3>2. QED
        BY <1>1, <3>1
  <2> HIDE DEF held
  <2>8. Total(TimeOf)' + (IF Awaited("sum")' THEN n ELSE 0) <= e
    BY <2>1, <2>2, <2>3, <2>4, <2>5, <2>6
  <2>9. Total(Elapsed)' = e
    BY <1>4, <2>1
  <2>10. QED
    BY <2>7, <2>8, <2>9 DEF InTime
<1>12. QED
    BY <1>8, <1>9, <1>10, <1>11 DEF CountInv

\* Nothing is recorded at first.
LEMMA InitCount == ASSUME Init PROVE CountInv
<1>1. Sound
    BY InitSound
<1>2. \A d \in Cpus, f \in FieldName : \A U : \A i \in Index(f) :
        Recorded(d, f, i, U) = 0
  <2> SUFFICES ASSUME NEW d \in Cpus, NEW f \in FieldName, NEW U,
                      NEW i \in Index(f)
               PROVE  Recorded(d, f, i, U) = 0
    OBVIOUS
  <2>1. Read(cumulativeIntervals[d], f, i) = 0
    BY ReadType DEF Init
  <2>2. \A o \in Stats : Share(d, f, i, U)[o] = 0
    BY ReadType DEF Init, Share
  <2>3. Summable(Share(d, f, i, U)) /\ DOMAIN Share(d, f, i, U) = Stats
    BY <1>1, RecordedType DEF Sound, Share
  <2>4. Total(Share(d, f, i, U)) = 0
    BY <2>2, <2>3, TotalOfNone
  <2>5. QED
    BY <2>1, <2>4 DEF Recorded
<1>3. \A c \in Cpus : Total(KnownOf(c)) = 0
  <2> SUFFICES ASSUME NEW c \in Cpus PROVE Total(KnownOf(c)) = 0
    OBVIOUS
  <2>1. DOMAIN KnownOf(c) = Cpus /\ \A d \in Cpus : KnownOf(c)[d] = 0
    BY <1>2, FiniteIndexes DEF KnownOf
  <2>2. Summable(KnownOf(c))
    BY <1>1, SumTypes DEF Sound, SumsTyped
  <2>3. QED
    BY <2>1, <2>2, TotalOfNone
<1>4. \A d \in Cpus : \A U : Total(CountsOf(d, U)) = 0
                             /\ Total(BucketsOf(d, U)) = 0
  <2> SUFFICES ASSUME NEW d \in Cpus, NEW U
               PROVE  Total(CountsOf(d, U)) = 0 /\ Total(BucketsOf(d, U)) = 0
    OBVIOUS
  <2>1. /\ DOMAIN CountsOf(d, U) = Cpus
        /\ \A c \in Cpus : CountsOf(d, U)[c] = 0
    BY <1>2, FiniteIndexes DEF CountsOf
  <2>2. /\ DOMAIN BucketsOf(d, U) = Buckets
        /\ \A b \in Buckets : BucketsOf(d, U)[b] = 0
    BY <1>2, FiniteIndexes DEF BucketsOf
  <2>3. Summable(CountsOf(d, U)) /\ Summable(BucketsOf(d, U))
    BY <1>1, SumTypes DEF Sound, SumsTyped
  <2>4. QED
    BY <2>1, <2>2, <2>3, TotalOfNone
<1>5. Total(AllStrays) = 0
  <2>1. ASSUME NEW d \in Cpus PROVE Total(StraysOf(d)) = 0
    <3>1. /\ DOMAIN StraysOf(d) = Cpus \ {d}
          /\ \A c \in Cpus \ {d} : StraysOf(d)[c] = 0
        BY <1>2, FiniteIndexes DEF StraysOf
    <3>2. Summable(StraysOf(d))
        BY <1>1, SumTypes DEF Sound, SumsTyped
    <3>3. QED
        BY <3>1, <3>2, TotalOfNone
  <2>2. DOMAIN AllStrays = Cpus /\ \A d \in Cpus : AllStrays[d] = 0
    BY <2>1 DEF AllStrays
  <2>3. Summable(AllStrays)
    BY <1>1, SumTypes DEF Sound, SumsTyped
  <2>4. QED
    BY <2>2, <2>3, TotalOfNone
<1>6. Total(TimeOf) = 0 /\ Total(Elapsed) = 0
  <2>1. DOMAIN TimeOf = Cpus /\ \A d \in Cpus : TimeOf[d] = 0
    BY <1>2, FiniteIndexes DEF TimeOf
  <2>2. DOMAIN Elapsed = Cpus /\ \A d \in Cpus : Elapsed[d] = 0
    BY DEF Init, Elapsed
  <2>3. Summable(TimeOf) /\ Summable(Elapsed)
    BY <1>1, SumTypes, ElapsedType DEF Sound, SumsTyped
  <2>4. QED
    BY <2>1, <2>2, <2>3, TotalOfNone
<1>7. /\ loc.todo = <<>> /\ loc.obj = None /\ overtaken = 0 /\ reused = 0
      /\ \A c \in Cpus : intervals[c] = 0
    BY DEF Init, Idle
<1>8. /\ ~Astray /\ ~Displaced /\ \A d \in Cpus : \A U : Due(d, U) = 0
    BY <1>7, NothingInHand
<1>9. \A f : ~Awaited(f)
    BY <1>7, FieldsPend, StepsDiffer DEF Awaited
<1>10. Balance
    BY <1>3, <1>7, <1>8, <1>9 DEF Balance, One
<1>11. Torn
  <2>1. \A d \in Cpus : \A U : Gap(d, U) = 0
    BY <1>4, <1>8 DEF Gap
  <2>2. QED
    BY <1>7, <1>8, <2>1 DEF Torn, One
<1>12. Placed
    BY <1>5, <1>7, <1>8 DEF Placed, One
<1>13. InTime
    BY <1>6, <1>9 DEF InTime
<1>14. QED
    BY <1>10, <1>11, <1>12, <1>13 DEF CountInv

\* Every step preserves the whole invariant.
TotalInv == IndInv /\ Sound /\ CountInv

LEMMA InitTotal == Init => TotalInv
BY InitInv, InitSound, InitCount DEF TotalInv

LEMMA StepTotal == TotalInv /\ [Next]_vars => TotalInv'
<1> SUFFICES ASSUME IndInv, Sound, CountInv, [Next]_vars
             PROVE  IndInv' /\ Sound' /\ CountInv'
    BY DEF TotalInv
<1>1. IndInv'
    BY StepInv
<1>2. ASSUME NEW c \in Cpus, HandleContextSwitchRaw(c)
      PROVE  Sound' /\ CountInv'
    BY <1>2, HandleSteps, HandleCount
<1>3. ASSUME RecordSwitch PROVE Sound' /\ CountInv'
    BY <1>3, RecordSound, RecordCount
<1>4. ASSUME LoadStats PROVE Sound' /\ CountInv'
    BY <1>4, LoadSound, LoadCount
<1>5. ASSUME AddInterval PROVE Sound' /\ CountInv'
    BY <1>5, AddSteps, AddCount
<1>6. ASSUME NEW s \in Scrapers, ScrapeStep(s) PROVE Sound' /\ CountInv'
    BY <1>6, ScrapeSteps, ScrapeCount
<1>7. CASE UNCHANGED vars
  <2>1. UNCHANGED <<contextSwitchIntervals, stats, cumulativeIntervals, loc,
                    collect, overtaken, reused, intervals, lastCpuSwitch,
                    firstSwitch, now, contextSwitchesPerCPU>>
    BY <1>7 DEF vars
  <2>2. Sound'
    BY <2>1 DEF Sound, Typed, CallbackReady, Clocks
  <2>3. \A d, f, i, U : Recorded(d, f, i, U)' = Recorded(d, f, i, U)
    BY <2>1 DEF Recorded, Share, Weighs, Holds, HalfMerged
  <2>4. \A c : KnownOf(c)' = KnownOf(c)
    BY <2>3 DEF KnownOf
  <2>5. \A d, U : Gap(d, U)' = Gap(d, U)
    BY <2>1, <2>3 DEF Gap, CountsOf, BucketsOf, Due
  <2>6. AllStrays' = AllStrays /\ TimeOf' = TimeOf
    BY <2>3 DEF AllStrays, StraysOf, TimeOf
  <2>7. /\ \A f : Awaited(f)' <=> Awaited(f)
        /\ Astray' <=> Astray
        /\ Displaced' <=> Displaced
        /\ Elapsed' = Elapsed
    BY <2>1 DEF Awaited, Astray, Displaced, Elapsed
  <2>8. Balance'
    BY <2>1, <2>4, <2>7 DEF CountInv, Balance, One
  <2>9. Torn'
    BY <2>1, <2>5, <2>7 DEF CountInv, Torn, One
  <2>10. Placed'
    BY <2>1, <2>6, <2>7 DEF CountInv, Placed, One
  <2>11. InTime'
    BY <2>1, <2>6, <2>7 DEF CountInv, InTime
  <2>12. QED
    BY <1>1, <2>2, <2>8, <2>9, <2>10, <2>11 DEF CountInv
<1>8. QED
    BY <1>1, <1>2, <1>3, <1>4, <1>5, <1>6, <1>7
    DEF Next, Waiting, ScrapeStep

-----------------------------------------------------------------------------
(* What the invariant says of the counters that are exported.              *)

\* Between the scrapes only the object that a CPU has is worth anything to it,
\* and nothing is worth anything when it is left out.
LEMMA QuietWorth ==
    ASSUME IndInv, Sound, Quiet, NEW d \in Cpus, NEW f \in FieldName,
           NEW i \in Index(f)
    PROVE  /\ Recorded(d, f, i, Stats) = Read(cumulativeIntervals[d], f, i)
                + Read(stats[contextSwitchIntervals[d]], f, i)
           /\ Recorded(d, f, i, {}) = Read(cumulativeIntervals[d], f, i)
<1>0. PICK o \in Stats : o = contextSwitchIntervals[d]
    BY DEF IndInv, Locals
<1>1. \A s \in Scrapers : collect[s].phase = "idle"
    BY DEF Quiet, In
<1>2. \A x \in Stats : Holds(x, d, f) <=> x = o
    BY <1>0, <1>1 DEF Holds, HoldsBy
<1>3. \A x : ~HalfMerged(x)
    BY <1>1 DEF HalfMerged, HalfMergedBy
<1>4. Total(Share(d, f, i, Stats)) = Read(stats[o], f, i)
  <2>1. \A x \in Stats : Share(d, f, i, Stats)[x] =
            IF x = o THEN Read(stats[x], f, i) ELSE 0
    BY <1>2 DEF Share, Weighs
  <2>2. /\ Summable(Share(d, f, i, Stats))
        /\ DOMAIN Share(d, f, i, Stats) = Stats
    BY RecordedType DEF Sound, Share
  <2>3. Total(Share(d, f, i, Stats)) = Share(d, f, i, Stats)[o]
    BY <1>0, <2>1, <2>2, TotalOfOne
  <2>4. QED
    BY <1>0, <2>1, <2>3
<1>5. Total(Share(d, f, i, {})) = 0
  <2>1. \A x \in Stats : Share(d, f, i, {})[x] = 0
    BY <1>3 DEF Share, Weighs
  <2>2. Summable(Share(d, f, i, {})) /\ DOMAIN Share(d, f, i, {}) = Stats
    BY RecordedType DEF Sound, Share
  <2>3. QED
    BY <2>1, <2>2, TotalOfNone
<1>6. Read(cumulativeIntervals[d], f, i) \in Nat
    BY ReadType DEF Sound, Typed
<1>7. QED
    BY <1>0, <1>4, <1>5, <1>6 DEF Recorded

\* What is merged is recorded.
LEMMA MergedAtMost ==
    ASSUME Sound, NEW c \in Cpus
    PROVE  /\ Summable([d \in Cpus |-> cumulativeIntervals[d].count[c]])
           /\ Counted(c) \in Nat /\ Counted(c) <= Total(KnownOf(c))
<1> DEFINE f == [d \in Cpus |-> cumulativeIntervals[d].count[c]]
<1>1. f \in [Cpus -> Nat]
    BY DEF Sound, Typed, Counters
<1>2. Summable(f) /\ Total(f) \in Nat
    BY <1>1, SumOfNat, FiniteIndexes
<1>3. \A d \in Cpus : f[d] <= KnownOf(c)[d]
  <2>1. \A d \in Cpus : Read(cumulativeIntervals[d], "count", c)
                            <= Recorded(d, "count", c, Stats)
    BY RecordedType, FiniteIndexes DEF Sound
  <2>2. QED
    BY <2>1 DEF KnownOf, Read
<1>4. Total(f) <= Total(KnownOf(c))
  <2>1. Summable(KnownOf(c)) /\ DOMAIN KnownOf(c) = Cpus
    BY SumTypes DEF SumsTyped, Sound, KnownOf
  <2> HIDE DEF f
  <2>2. DOMAIN f = Cpus
    BY <1>1
  <2>3. QED
    BY <1>2, <1>3, <2>1, <2>2, TotalAtMost
<1>5. QED
    BY <1>2, <1>4 DEF Counted

LEMMA TotalCountedOnce == ASSUME TotalInv PROVE CountedOnce
<1> SUFFICES ASSUME NEW c \in Cpus PROVE Counted(c) <= intervals[c]
    BY DEF CountedOnce
<1>1. PICK k \in Nat : Total(KnownOf(c)) = k
    BY SumTypes DEF SumsTyped, Sound, TotalInv
<1>2. Counted(c) \in Nat /\ Counted(c) <= k
    BY <1>1, MergedAtMost DEF TotalInv
<1>3. k + One(loc.cpu = c /\ Awaited("count")) <= intervals[c]
    BY <1>1 DEF TotalInv, CountInv, Balance
<1>4. intervals[c] \in Nat
    BY DEF TotalInv, Sound, Typed
<1>5. QED
    BY <1>1, <1>2, <1>3, <1>4 DEF One

LEMMA TotalLossBounded == ASSUME TotalInv PROVE LossBounded
<1> SUFFICES ASSUME Quiet, NEW c \in Cpus
             PROVE  intervals[c] <= Counted(c) + Current(c) + overtaken
    BY DEF LossBounded
<1> DEFINE f == [d \in Cpus |-> cumulativeIntervals[d].count[c]]
           g == [d \in Cpus |-> stats[contextSwitchIntervals[d]].count[c]]
<1>1. Summable(f) /\ Counted(c) \in Nat
    BY MergedAtMost DEF TotalInv
<1>2. Summable(g) /\ Total(g) \in Nat
  <2>1. g \in [Cpus -> Nat]
    BY DEF TotalInv, Sound, Typed, Counters, IndInv, Locals
  <2>2. QED
    BY <2>1, SumOfNat, FiniteIndexes
<1>3. Total(KnownOf(c)) = Counted(c) + Current(c)
  <2>1. \A d \in Cpus : KnownOf(c)[d] = f[d] + g[d]
    <3>1. \A d \in Cpus : Recorded(d, "count", c, Stats) =
            Read(cumulativeIntervals[d], "count", c)
                + Read(stats[contextSwitchIntervals[d]], "count", c)
        BY QuietWorth, FiniteIndexes DEF TotalInv
    <3>2. QED
        BY <3>1 DEF KnownOf, Read
  <2>2. Summable(KnownOf(c)) /\ DOMAIN KnownOf(c) = Cpus
    BY SumTypes DEF SumsTyped, Sound, KnownOf, TotalInv
  <2>3. DOMAIN f = Cpus /\ DOMAIN g = Cpus
    OBVIOUS
  <2> HIDE DEF f, g
  <2>4. Total(KnownOf(c)) = Total(f) + Total(g)
    BY <1>1, <1>2, <2>1, <2>2, <2>3, TotalPlus
  <2>5. QED
    BY <2>4 DEF f, g, Counted, Current
<1>4. Current(c) \in Nat
    BY <1>2 DEF Current
<1>5. ~Awaited("count")
    BY FieldsPend, StepsDiffer DEF Awaited, Quiet
<1>6. intervals[c] + One(Astray /\ Pends(loc.todo, "count"))
        <= (Total(KnownOf(c)) + 0) + overtaken
    BY <1>5 DEF TotalInv, CountInv, Balance, One
<1>7. intervals[c] \in Nat /\ overtaken \in Nat
    BY DEF TotalInv, Sound, Typed
<1>8. QED
    BY <1>1, <1>3, <1>4, <1>6, <1>7 DEF One

LEMMA TotalBucketsMatch == ASSUME TotalInv PROVE BucketsMatchCount
<1> SUFFICES ASSUME Quiet, NEW d \in Cpus
             PROVE  LET count == Total(cumulativeIntervals[d].count)
                        inBuckets == Total(cumulativeIntervals[d].buckets)
                    IN  count <= inBuckets + overtaken
                        /\ inBuckets <= count + overtaken
    BY DEF BucketsMatchCount
<1>1. CountsOf(d, {}) = cumulativeIntervals[d].count
  <2>1. \A c \in Cpus : Recorded(d, "count", c, {})
                            = cumulativeIntervals[d].count[c]
    BY QuietWorth, FiniteIndexes DEF TotalInv, Read
  <2>2. cumulativeIntervals[d].count \in [Cpus -> Nat]
    BY DEF TotalInv, Sound, Typed, Counters
  <2>3. QED
    BY <2>1, <2>2 DEF CountsOf
<1>2. BucketsOf(d, {}) = cumulativeIntervals[d].buckets
  <2>1. \A b \in Buckets : Recorded(d, "buckets", b, {})
                            = cumulativeIntervals[d].buckets[b]
    BY QuietWorth, FiniteIndexes DEF TotalInv, Read
  <2>2. cumulativeIntervals[d].buckets \in [Buckets -> Nat]
    BY DEF TotalInv, Sound, Typed, Counters
  <2>3. QED
    BY <2>1, <2>2 DEF BucketsOf
<1>3. PICK m \in Nat, n \in Nat : /\ Total(CountsOf(d, {})) = m
                                  /\ Total(BucketsOf(d, {})) = n
    BY SumTypes DEF SumsTyped, Sound, TotalInv
<1>4. Due(d, {}) = 0
    BY DEF Due, One
<1>5. Gap(d, {}) = m - n
    BY <1>3, <1>4 DEF Gap
<1>6. /\ Gap(d, {}) <= overtaken - One(Astray /\ Pends(loc.todo, "count"))
      /\ 0 - Gap(d, {}) <= overtaken - One(Astray)
    BY DEF TotalInv, CountInv, Torn
<1>7. overtaken \in Nat
    BY DEF TotalInv, Sound, Typed
<1>8. m <= n + overtaken /\ n <= m + overtaken
    BY <1>3, <1>5, <1>6, <1>7 DEF One
<1>9. QED
    BY <1>1, <1>2, <1>3, <1>8

LEMMA TotalCpuRight == ASSUME TotalInv PROVE CpuRight
<1> DEFINE f(d) == [c \in Cpus \ {d} |-> cumulativeIntervals[d].count[c]]
           g == [d \in Cpus |-> Total(f(d))]
<1>1. ASSUME NEW d \in Cpus
      PROVE  Total(f(d)) \in Nat /\ Total(f(d)) <= Total(StraysOf(d))
  <2>1. f(d) \in [Cpus \ {d} -> Nat]
    BY DEF TotalInv, Sound, Typed, Counters
  <2>2. Summable(f(d)) /\ Total(f(d)) \in Nat
    BY <2>1, SumOfNat, FiniteIndexes
  <2>3. \A c \in Cpus \ {d} : f(d)[c] <= StraysOf(d)[c]
    <3>1. \A c \in Cpus : Read(cumulativeIntervals[d], "count", c)
                            <= Recorded(d, "count", c, Stats)
        BY RecordedType, FiniteIndexes DEF Sound, TotalInv
    <3>2. QED
        BY <3>1 DEF StraysOf, Read
  <2>4. Summable(StraysOf(d)) /\ DOMAIN StraysOf(d) = Cpus \ {d}
    BY SumTypes DEF SumsTyped, Sound, StraysOf, TotalInv
  <2>5. DOMAIN f(d) = Cpus \ {d}
    OBVIOUS
  <2> HIDE DEF f
  <2>6. QED
    BY <2>2, <2>3, <2>4, <2>5, TotalAtMost
<1> HIDE DEF f
<1>2. g \in [Cpus -> Nat]
    BY <1>1
<1>3. Summable(g) /\ Total(g) \in Nat
    BY <1>2, SumOfNat, FiniteIndexes
<1>4. \A d \in Cpus : g[d] <= AllStrays[d]
    BY <1>1 DEF AllStrays
<1>5. /\ Summable(AllStrays) /\ DOMAIN AllStrays = Cpus /\ DOMAIN g = Cpus
      /\ Total(AllStrays) \in Nat
    BY SumTypes DEF SumsTyped, Sound, AllStrays, TotalInv
<1> HIDE DEF g
<1>6. Total(g) <= Total(AllStrays)
    BY <1>3, <1>4, <1>5, TotalAtMost
<1>7. Total(AllStrays) <= reused
  <2>1. Total(AllStrays) + One(Displaced /\ Pends(loc.todo, "count")) <= reused
    BY DEF TotalInv, CountInv, Placed
  <2>2. reused \in Nat
    BY DEF TotalInv, Sound, Typed
  <2>3. QED
    BY <1>5, <2>1, <2>2 DEF One
<1>8. Total(g) <= reused
    BY <1>3, <1>5, <1>6, <1>7 DEF TotalInv, Sound, Typed
<1>9. QED
    BY <1>8 DEF CpuRight, g, f

LEMMA TotalSumWithinTime == ASSUME TotalInv PROVE SumWithinTime
<1> DEFINE f == [d \in Cpus |-> cumulativeIntervals[d].sum]
<1>1. f \in [Cpus -> Nat]
    BY DEF TotalInv, Sound, Typed, Counters
<1>2. Summable(f) /\ Total(f) \in Nat
    BY <1>1, SumOfNat, FiniteIndexes
<1>3. \A d \in Cpus : f[d] <= TimeOf[d]
  <2>1. \A d \in Cpus : Read(cumulativeIntervals[d], "sum", 0)
                            <= Recorded(d, "sum", 0, Stats)
    BY RecordedType, FiniteIndexes DEF Sound, TotalInv
  <2>2. QED
    BY <2>1 DEF TimeOf, Read
<1>4. /\ Summable(TimeOf) /\ DOMAIN TimeOf = Cpus /\ DOMAIN f = Cpus
      /\ Total(TimeOf) \in Nat
    BY SumTypes DEF SumsTyped, Sound, TimeOf, TotalInv
<1> HIDE DEF f
<1>5. Total(f) <= Total(TimeOf)
    BY <1>2, <1>3, <1>4, TotalAtMost
<1>6. PICK e \in Int : Total(Elapsed) = e
    BY ElapsedType, TotalType DEF TotalInv
<1>7. Total(TimeOf) <= e
  <2>1. Total(TimeOf) + (IF Awaited("sum") THEN loc.interval ELSE 0) <= e
    BY <1>6 DEF TotalInv, CountInv, InTime
  <2>2. loc.interval \in Nat
    BY DEF TotalInv, Sound, CallbackReady
  <2>3. QED
    BY <1>4, <1>6, <2>1, <2>2
<1>8. Total(f) <= e
    BY <1>2, <1>4, <1>5, <1>6, <1>7
<1>9. QED
    BY <1>6, <1>8 DEF SumWithinTime, Elapsed, f

\* However scrapes overlap, no interval is merged twice into the totals.
THEOREM IntervalsAreCountedOnce == Spec => []CountedOnce
<1>1. TotalInv => CountedOnce
    BY TotalCountedOnce
<1>2. QED
    BY <1>1, InitTotal, StepTotal, PTL DEF Spec

\* No interval is lost but one for each time that a scrape swaps out the object
\* that the callback is adding to.
THEOREM LossIsBounded == Spec => []LossBounded
<1>1. TotalInv => LossBounded
    BY TotalLossBounded
<1>2. QED
    BY <1>1, InitTotal, StepTotal, PTL DEF Spec

\* The count of a histogram and its buckets differ by no more than that.
THEOREM HistogramsAreNotTorn == Spec => []BucketsMatchCount
<1>1. TotalInv => BucketsMatchCount
    BY TotalBucketsMatch
<1>2. QED
    BY <1>1, InitTotal, StepTotal, PTL DEF Spec

\* No interval is counted for another CPU than the one it was measured on, but
\* one for each time that the object the callback adds to is reused.
THEOREM IntervalsKeepTheirCpu == Spec => []CpuRight
<1>1. TotalInv => CpuRight
    BY TotalCpuRight
<1>2. QED
    BY <1>1, InitTotal, StepTotal, PTL DEF Spec

\* The intervals that are recorded never add up to more than the time that has
\* passed on the CPUs.
THEOREM IntervalsFitTheTime == Spec => []SumWithinTime
<1>1. TotalInv => SumWithinTime
    BY TotalSumWithinTime
<1>2. QED
    BY <1>1, InitTotal, StepTotal, PTL DEF Spec

-----------------------------------------------------------------------------
(* Type correctness, with the bounds.                                      *)

\* Every interval was measured at a switch that is counted, and all happens
\* within the bounds.
Bounds ==
    /\ now \in 1..MaxTime /\ scrapes \in 0..MaxScrapes
    /\ loc.interval <= now
    /\ Total(contextSwitchesPerCPU) + One(loc.todo = <<"switch">>)
            <= MaxSwitches
    /\ \A c \in Cpus :
        intervals[c] <= contextSwitchesPerCPU[c]
                            + One(loc.todo = <<"switch">> /\ loc.cpu = c)

\* The switches can be added up.
LEMMA SwitchesTyped ==
    Sound => Summable(contextSwitchesPerCPU)
             /\ Total(contextSwitchesPerCPU) \in Nat
<1> SUFFICES ASSUME Sound
             PROVE  Summable(contextSwitchesPerCPU)
                    /\ Total(contextSwitchesPerCPU) \in Nat
    OBVIOUS
<1>1. contextSwitchesPerCPU \in [Cpus -> Nat]
    BY DEF Sound, Typed
<1>2. QED
    BY <1>1, SumOfNat, FiniteIndexes

LEMMA SwitchesType ==
    /\ Sound => Summable(contextSwitchesPerCPU)
                /\ Total(contextSwitchesPerCPU) \in Nat
    /\ Sound' => (Summable(contextSwitchesPerCPU)
                  /\ Total(contextSwitchesPerCPU) \in Nat)'
BY SwitchesTyped, PTL

LEMMA InitBounds == ASSUME Init PROVE Bounds
<1>1. Total(contextSwitchesPerCPU) = 0
  <2>1. /\ DOMAIN contextSwitchesPerCPU = Cpus
        /\ \A c \in Cpus : contextSwitchesPerCPU[c] = 0
    BY DEF Init
  <2>2. QED
    BY <2>1, InitSound, SwitchesType, TotalOfNone
<1>2. One(loc.todo = <<"switch">>) = 0 /\ loc.interval = 0
    BY StepsDiffer DEF Init, Idle, One
<1>3. \A c \in Cpus : One(loc.todo = <<"switch">> /\ loc.cpu = c) = 0
    BY StepsDiffer DEF Init, Idle, One
<1>4. QED
    BY <1>1, <1>2, <1>3, CollectorAssumption
    DEF Init, Bounds, CollectorAssumption

\* Each switch is counted once.
LEMMA StepBounds ==
    ASSUME TotalInv, TotalInv', Bounds, [Next]_vars PROVE Bounds'
<1>0. Sound /\ Sound' /\ IndInv
    BY DEF TotalInv
<1>1. ASSUME NEW c \in Cpus, HandleContextSwitchRaw(c) PROVE Bounds'
  <2>1. /\ loc.todo = <<>> /\ Total(contextSwitchesPerCPU) < MaxSwitches
        /\ contextSwitchesPerCPU' = contextSwitchesPerCPU
        /\ scrapes' = scrapes
    BY <1>1 DEF HandleContextSwitchRaw
  <2>2. PICK n \in Nat :
        /\ loc' = [todo |-> <<"switch">>, cpu |-> c, obj |-> None,
                   interval |-> n]
        /\ intervals' = IF n > 0 THEN [intervals EXCEPT ![c] = @ + 1]
                        ELSE intervals
    BY <1>0, <1>1, HandleSteps
  <2>3. loc'.todo = <<"switch">> /\ loc'.cpu = c /\ loc'.interval = n
    BY <2>2
  <2>4. now' \in 1..MaxTime /\ n <= now'
    <3>1. PICK time \in now..MaxTime :
            /\ now' = time
            /\ loc'.interval = IntervalSince(lastCpuSwitch[c], time)
        BY <1>1 DEF HandleContextSwitchRaw, Idle
    <3>2. lastCpuSwitch[c] \in Nat /\ MaxTime \in Nat
        BY <1>0, CollectorAssumption
        DEF Sound, Typed, CollectorAssumption
    <3>3. QED
        BY <2>3, <3>1, <3>2 DEF IntervalSince, Bounds
  <2>5. Total(contextSwitchesPerCPU) + One(loc'.todo = <<"switch">>)
            <= MaxSwitches
    BY <1>0, <2>1, <2>3, SwitchesType, CollectorAssumption
    DEF One, CollectorAssumption
  <2>6. ASSUME NEW x \in Cpus
        PROVE  intervals'[x] <= contextSwitchesPerCPU[x]
                    + One(loc'.todo = <<"switch">> /\ loc'.cpu = x)
    <3>1. intervals[x] \in Nat /\ contextSwitchesPerCPU[x] \in Nat
        BY <1>0 DEF Sound, Typed
    <3>2. intervals[x] <= contextSwitchesPerCPU[x]
        BY <2>1, <3>1, StepsDiffer DEF Bounds, One
    <3>3. intervals'[x] <= intervals[x] + One(c = x)
        BY <1>0, <2>2, <3>1 DEF Sound, Typed, One
    <3>4. intervals'[x] \in Nat
        BY <1>0 DEF Sound, Typed
    <3>5. QED
        BY <2>3, <3>1, <3>2, <3>3, <3>4 DEF One
  <2>7. QED
    BY <2>1, <2>3, <2>4, <2>5, <2>6 DEF Bounds
<1>2. ASSUME RecordSwitch PROVE Bounds'
  <2>0. PICK cpu \in Cpus : cpu = loc.cpu
    BY <1>0 DEF Sound, CallbackReady
  <2>1. /\ loc.todo = <<"switch">>
        /\ contextSwitchesPerCPU' =
                [contextSwitchesPerCPU EXCEPT ![cpu] = @ + 1]
        /\ UNCHANGED <<now, scrapes, intervals>>
    BY <1>2, <2>0 DEF RecordSwitch
  <2>2. loc'.todo # <<"switch">> /\ loc'.interval <= now
    <3>1. \/ loc'.todo = <<"load">> /\ loc'.interval = loc.interval
          \/ loc'.todo = <<>> /\ loc'.interval = 0
        BY <1>0, <1>2 DEF RecordSwitch, Idle, Sound, CallbackReady
    <3>2. now \in Nat
        BY <1>0 DEF Sound, Typed
    <3>3. QED
        BY <3>1, <3>2, StepsDiffer DEF Bounds
  <2>3. Total(contextSwitchesPerCPU)' = Total(contextSwitchesPerCPU) + 1
    <3>1. /\ DOMAIN contextSwitchesPerCPU = Cpus
          /\ DOMAIN contextSwitchesPerCPU' = Cpus
        BY <1>0 DEF Sound, Typed
    <3>2. /\ contextSwitchesPerCPU'[cpu] = contextSwitchesPerCPU[cpu] + 1
          /\ \A x \in Cpus : x # cpu =>
                contextSwitchesPerCPU'[x] = contextSwitchesPerCPU[x]
        BY <2>1, <3>1
    <3>3. /\ Summable(contextSwitchesPerCPU)
          /\ Summable(contextSwitchesPerCPU')
        BY <1>0, SwitchesType
    <3>4. QED
        BY <3>1, <3>2, <3>3, TotalGrows
  <2>4. Total(contextSwitchesPerCPU) + 1 <= MaxSwitches
    BY <2>1 DEF Bounds, One
  <2>5. ASSUME NEW x \in Cpus
        PROVE  intervals[x] <= contextSwitchesPerCPU'[x]
    <3>1. intervals[x] \in Nat /\ contextSwitchesPerCPU[x] \in Nat
        BY <1>0 DEF Sound, Typed
    <3>2. intervals[x] <= contextSwitchesPerCPU[x] + One(cpu = x)
        BY <2>0, <2>1 DEF Bounds, One
    <3>3. contextSwitchesPerCPU'[x] = contextSwitchesPerCPU[x] + One(cpu = x)
        BY <1>0, <2>1, <3>1 DEF Sound, Typed, One
    <3>4. QED
        BY <3>2, <3>3
  <2>6. /\ One(loc'.todo = <<"switch">>) = 0
        /\ \A x \in Cpus : One(loc'.todo = <<"switch">> /\ loc'.cpu = x) = 0
    BY <2>2 DEF One
  <2>7. /\ Total(contextSwitchesPerCPU)' \in Nat
        /\ \A x \in Cpus : contextSwitchesPerCPU'[x] \in Nat
    BY <1>0, SwitchesType DEF Sound, Typed
  <2>8. QED
    BY <2>1, <2>2, <2>3, <2>4, <2>5, <2>6, <2>7 DEF Bounds
<1>3. ASSUME LoadStats \/ AddInterval PROVE Bounds'
  <2>1. /\ UNCHANGED <<now, scrapes, intervals, contextSwitchesPerCPU>>
        /\ loc.todo # <<"switch">>
    BY <1>0, <1>3, StepsDiffer, AddSteps DEF LoadStats, AddInterval
  <2>2. loc'.todo # <<"switch">>
    BY <1>0, <1>3, StepsDiffer, FieldsPend, FieldsLeft, AddSteps
    DEF LoadStats, Sound, CallbackReady
  <2>3. loc'.interval \in {0, loc.interval}
    <3>1. CASE LoadStats
        BY <1>0, <3>1 DEF LoadStats, Sound, CallbackReady
    <3>2. CASE AddInterval
        BY <1>0, <3>2, AddSteps DEF Idle
    <3>3. QED
        BY <1>3, <3>1, <3>2
  <2>4. now \in Nat
    BY <1>0 DEF Sound, Typed
  <2>5. QED
    BY <2>1, <2>2, <2>3, <2>4 DEF Bounds, One
<1>4. ASSUME NEW s \in Scrapers, ScrapeStep(s) PROVE Bounds'
  <2>1. UNCHANGED <<loc, contextSwitchesPerCPU, now, intervals>>
    BY <1>0, <1>4, ScrapeSteps
  <2>2. scrapes' \in 0..MaxScrapes
    <3>1. CASE BeginCollect(s)
        BY <3>1, CollectorAssumption
        DEF BeginCollect, Bounds, CollectorAssumption
    <3>2. CASE ~BeginCollect(s)
        BY <1>4, <3>2 DEF ScrapeStep, GetStats, ResetStats, SwapStats,
           MergeStats, PutStats, Bounds
    <3>3. QED
        BY <3>1, <3>2
  <2>3. QED
    BY <2>1, <2>2 DEF Bounds, One
<1>5. CASE UNCHANGED vars
    BY <1>5 DEF Bounds, One, vars
<1>6. QED
    BY <1>1, <1>2, <1>3, <1>4, <1>5 DEF Next, Waiting, ScrapeStep

LEMMA BoundsType == ASSUME TotalInv, Bounds PROVE TypeOK
<1>1. Sound /\ Locals
    BY DEF TotalInv, IndInv
<1>2. /\ MaxTime \in Nat /\ now \in Nat /\ now <= MaxTime
      /\ MaxSwitches \in Nat
    BY CollectorAssumption DEF Bounds, CollectorAssumption
<1>3. \A c \in Cpus : lastCpuSwitch[c] \in 0..MaxTime
                      /\ firstSwitch[c] \in 0..MaxTime
    BY <1>1, <1>2 DEF Sound, Typed, Clocks
<1>4. lastCpuSwitch \in [Cpus -> 0..MaxTime]
      /\ firstSwitch \in [Cpus -> 0..MaxTime]
    BY <1>1, <1>3 DEF Sound, Typed
<1>5. PICK k \in Nat : Total(contextSwitchesPerCPU) = k
    BY <1>1, SwitchesType
<1>6. \A c \in Cpus : contextSwitchesPerCPU[c] <= k
  <2>1. /\ contextSwitchesPerCPU \in [Cpus -> Nat]
        /\ \A c \in Cpus : contextSwitchesPerCPU[c] <= k
    BY <1>1, <1>5, TermAtMost, FiniteIndexes DEF Sound, Typed
  <2>2. QED
    BY <2>1
<1>7. k + One(loc.todo = <<"switch">>) <= MaxSwitches
    BY <1>5 DEF Bounds
<1>8. \A c \in Cpus : contextSwitchesPerCPU[c] \in 0..MaxSwitches
    BY <1>1, <1>2, <1>6, <1>7 DEF One, Sound, Typed
<1>9. ASSUME NEW c \in Cpus PROVE intervals[c] \in 0..MaxSwitches
  <2>1. intervals[c] \in Nat /\ contextSwitchesPerCPU[c] \in Nat
    BY <1>1 DEF Sound, Typed
  <2>2. intervals[c] <= contextSwitchesPerCPU[c]
                    + One(loc.todo = <<"switch">> /\ loc.cpu = c)
    BY DEF Bounds
  <2>3. One(loc.todo = <<"switch">> /\ loc.cpu = c)
            <= One(loc.todo = <<"switch">>)
    BY DEF One
  <2>4. QED
    BY <1>2, <1>6, <1>7, <2>1, <2>2, <2>3 DEF One
<1>10. /\ contextSwitchesPerCPU \in [Cpus -> 0..MaxSwitches]
       /\ intervals \in [Cpus -> 0..MaxSwitches]
    BY <1>1, <1>8, <1>9 DEF Sound, Typed
<1>11. /\ loc.cpu \in Cpus /\ loc.interval \in 0..MaxTime
       /\ loc.obj \in Stats \union {None}
    BY <1>1, <1>2 DEF Sound, CallbackReady, Bounds
<1>12. QED
    BY <1>1, <1>4, <1>10, <1>11
    DEF TypeOK, Sound, Typed, Locals, Bounds

\* The counters are what their names say, within the bounds.
THEOREM TypeCorrect == Spec => []TypeOK
<1>1. Init => TotalInv /\ Bounds
    BY InitTotal, InitBounds
<1>2. TotalInv /\ Bounds /\ [Next]_vars => (TotalInv /\ Bounds)'
    BY StepTotal, StepBounds
<1>3. TotalInv /\ Bounds => TypeOK
    BY BoundsType
<1>4. QED
    BY <1>1, <1>2, <1>3, PTL DEF Spec
=============================================================================
