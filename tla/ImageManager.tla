---------------------------- MODULE ImageManager ----------------------------
(***************************************************************************)
(* The image table of ImageManager (s_image_manager.go): a map of images   *)
(* with reference counts, a cache from addresses to images, and the list   *)
(* of images to remove, shared by                                          *)
(*                                                                         *)
(*   - the ETW callback, which handles loads and unloads and resolves the  *)
(*     addresses of DPC routines (AddImage, UnloadImage,                   *)
(*     GetImageForAddress), and                                            *)
(*   - the cleaner, cleanupTerminated, the image part of                   *)
(*     PostScrapeCleanup.                                                  *)
(*                                                                         *)
(* imagesMutex guards the map and the cache; the reference counts and      *)
(* terminatedImages are touched outside of it.                             *)
(***************************************************************************)
EXTENDS Integers

CONSTANTS
    Bases,        \* image base addresses
    Addrs,        \* addresses that are looked up
    Covers,       \* the pairs <<base, address>> of an image and its range
    Objs,         \* *ImageInfo objects, pooled
    Absent,       \* "no entry" in a map
    MaxMappings,  \* bound on the mappings of one image
    MaxScrapes    \* bound on scrapeCounter

ASSUME ImageAssumption ==
    /\ Covers \subseteq Bases \X Addrs
    /\ Absent \notin Bases \union Addrs \union Objs \union Nat
    /\ MaxMappings \in Nat /\ MaxScrapes \in Nat

VARIABLES
    images,            \* base -> object
    addressCache,      \* address -> object
    terminatedImages,  \* base -> scrape generation
    info,              \* object -> [base, ref]: ImageBase and RefCount
    pool,              \* imageInfoPool
    scrapeCounter,
    \* The callback: where it is, and its locals.
    hpc, hbase, haddr, hobj, hgen,
    \* The cleaner: where it is, and its locals.
    cpc, cleanupThreshold, basesToVisit, imagesToClean, curBase,
    \* The operating system.
    mapped,            \* base -> number of mappings
    unmappedAt         \* base -> value of scrapeCounter at the last unload

table == <<images, addressCache, terminatedImages, info, pool>>
callback == <<hpc, hbase, haddr, hobj, hgen>>
cleaner == <<cpc, cleanupThreshold, basesToVisit, imagesToClean, curBase>>
system == <<mapped, unmappedAt>>
vars == <<table, scrapeCounter, callback, cleaner, system>>

NoInfo == [base |-> Absent, ref |-> 0]

Init ==
    /\ images = [b \in Bases |-> Absent]
    /\ addressCache = [a \in Addrs |-> Absent]
    /\ terminatedImages = [b \in Bases |-> Absent]
    /\ info = [o \in Objs |-> NoInfo]
    /\ pool = Objs
    /\ scrapeCounter = 0
    /\ hpc = "idle" /\ hbase = Absent /\ haddr = Absent /\ hobj = Absent
    /\ hgen = 0
    /\ cpc = "idle" /\ cleanupThreshold = 0
    /\ basesToVisit = {} /\ imagesToClean = {} /\ curBase = Absent
    /\ mapped = [b \in Bases |-> 0]
    /\ unmappedAt = [b \in Bases |-> Absent]

-----------------------------------------------------------------------------
(* The operating system's side of an event.                                *)

Loads(b) ==
    /\ mapped[b] < MaxMappings
    /\ mapped' = [mapped EXCEPT ![b] = @ + 1]
    /\ UNCHANGED unmappedAt

\* An Image/DCStart or DCEnd of a rundown repeats a mapping; how often is
\* bounded by what it would add to the count.
IsListed(b) ==
    /\ mapped[b] > 0
    /\ images[b] # Absent => info[images[b]].ref <= MaxMappings
    /\ UNCHANGED system

Unloads(b) ==
    /\ mapped[b] > 0
    /\ mapped' = [mapped EXCEPT ![b] = @ - 1]
    /\ unmappedAt' = [unmappedAt EXCEPT ![b] = scrapeCounter]

-----------------------------------------------------------------------------
(* The callback.                                                           *)

\* RemoveImage holds imagesMutex while it deletes the mark.
Unlocked == cpc # "dropMark"

HandlerDone ==
    /\ hpc' = "idle" /\ hbase' = Absent /\ haddr' = Absent
    /\ hobj' = Absent /\ hgen' = 0

MoreReferences(o) == [info EXCEPT ![o].ref = @ + 1]

\* AddImage, under the write lock: one more reference, or a new object.
AddImage(b) ==
    /\ hpc = "idle" /\ Unlocked
    /\ Loads(b) \/ IsListed(b)
    /\ IF images[b] # Absent
       THEN /\ info' = MoreReferences(images[b])
            /\ UNCHANGED <<images, pool>>
       ELSE \E o \in pool :
               /\ pool' = pool \ {o}
               /\ info' = [info EXCEPT ![o] = [base |-> b, ref |-> 1]]
               /\ images' = [images EXCEPT ![b] = o]
    /\ UNCHANGED <<addressCache, terminatedImages, scrapeCounter, callback,
                   cleaner>>

\* UnloadImage finds the object under the read lock and lets it go, then
\* decrements its count, reads the generation and marks the base.
UnloadImage(b) ==
    /\ hpc = "idle" /\ Unlocked
    /\ Unloads(b)
    /\ IF images[b] = Absent THEN UNCHANGED callback
       ELSE /\ hpc' = "release" /\ hbase' = b /\ hobj' = images[b]
            /\ UNCHANGED <<haddr, hgen>>
    /\ UNCHANGED <<table, scrapeCounter, cleaner>>

LastReference_Below(ref) == ref < 0   \* mutant: < for <=

LastReference(ref) == ref <= 0

Release ==
    /\ hpc = "release"
    /\ info' = [info EXCEPT ![hobj].ref = @ - 1]
    /\ IF LastReference(info[hobj].ref - 1)
       THEN hpc' = "readScrape" /\ UNCHANGED <<hbase, haddr, hobj, hgen>>
       ELSE HandlerDone
    /\ UNCHANGED <<images, addressCache, terminatedImages, pool,
                   scrapeCounter, cleaner, system>>

ReadScrape ==
    /\ hpc = "readScrape"
    /\ hgen' = scrapeCounter
    /\ hpc' = "storeMark"
    /\ UNCHANGED <<table, scrapeCounter, hbase, haddr, hobj, cleaner, system>>

StoreMark ==
    /\ hpc = "storeMark"
    /\ terminatedImages' = [terminatedImages EXCEPT ![hbase] = hgen]
    /\ HandlerDone
    /\ UNCHANGED <<images, addressCache, info, pool, scrapeCounter, cleaner,
                   system>>

\* GetImageForAddress: the cache under the read lock and, on a miss, the
\* cache again and the map under the write lock.  The name of the object
\* returned is read later, without the lock.
LookUpCache(a) ==
    /\ hpc = "idle" /\ Unlocked
    /\ haddr' = a
    /\ IF addressCache[a] # Absent
       THEN hpc' = "readName" /\ hobj' = addressCache[a]
       ELSE hpc' = "scan" /\ UNCHANGED hobj
    /\ UNCHANGED <<table, scrapeCounter, hbase, hgen, cleaner, system>>

Scan ==
    /\ hpc = "scan" /\ Unlocked
    /\ LET found == {images[b] : b \in {c \in Bases : <<c, haddr>> \in Covers}}
                      \ {Absent}
       IN  \/ \E o \in found :
                 /\ addressCache' = [addressCache EXCEPT ![haddr] = o]
                 /\ hpc' = "readName" /\ hobj' = o
                 /\ UNCHANGED <<hbase, haddr, hgen>>
           \/ /\ found = {}
              /\ HandlerDone
              /\ UNCHANGED addressCache
    /\ UNCHANGED <<images, terminatedImages, info, pool, scrapeCounter,
                   cleaner, system>>

ReadName ==
    /\ hpc = "readName"
    /\ HandlerDone
    /\ UNCHANGED <<table, scrapeCounter, cleaner, system>>

-----------------------------------------------------------------------------
(* The cleaner.                                                            *)

\* PostScrapeCleanup counts the scrape and reaches cleanupTerminated with a
\* threshold of at most the new counter (module GracePeriod).
PostScrapeCleanup ==
    /\ cpc = "idle"
    /\ scrapeCounter < MaxScrapes
    /\ scrapeCounter' = scrapeCounter + 1
    /\ cleanupThreshold' \in 0 .. scrapeCounter + 1
    /\ cpc' = "find" /\ basesToVisit' = Bases
    /\ UNCHANGED <<table, callback, imagesToClean, curBase, system>>

Expired_OneEarly(gen) ==   \* mutant: <= for <
    gen # Absent /\ gen <= cleanupThreshold

Expired(gen) == gen # Absent /\ gen < cleanupThreshold

VisitMark(b) ==
    /\ cpc = "find" /\ b \in basesToVisit
    /\ basesToVisit' = basesToVisit \ {b}
    /\ imagesToClean' = IF Expired(terminatedImages[b])
                        THEN imagesToClean \union {b} ELSE imagesToClean
    /\ UNCHANGED <<table, scrapeCounter, callback, cpc, cleanupThreshold,
                   curBase, system>>

MarksFound ==
    /\ cpc = "find" /\ basesToVisit = {}
    /\ cpc' = "remove"
    /\ UNCHANGED <<table, scrapeCounter, callback, cleanupThreshold,
                   basesToVisit, imagesToClean, curBase, system>>

\* RemoveImage, under the write lock: the map, the cache entries that lead to
\* the object, the pool; and last the mark, which the callback may be storing.
ImagesWithout_Kept(b) == images   \* mutant: the entry stays

ImagesWithout(b) == [images EXCEPT ![b] = Absent]

CacheWithout_Kept(o) == addressCache   \* mutant: the cache is not purged

CacheWithout(o) ==
    [a \in Addrs |-> IF addressCache[a] = o THEN Absent ELSE addressCache[a]]

\* Put leaves the fields as they are.
InfoAfter_Cleared(o) == [info EXCEPT ![o] = NoInfo]   \* mutant: reset on Put

InfoAfter(o) == info

RemoveImage(b) ==
    /\ cpc = "remove" /\ b \in imagesToClean
    /\ imagesToClean' = imagesToClean \ {b}
    /\ IF images[b] = Absent THEN UNCHANGED <<images, addressCache, info, pool>>
       ELSE /\ images' = ImagesWithout(b)
            /\ addressCache' = CacheWithout(images[b])
            /\ info' = InfoAfter(images[b])
            /\ pool' = pool \union {images[b]}
    /\ cpc' = "dropMark" /\ curBase' = b
    /\ UNCHANGED <<terminatedImages, scrapeCounter, callback,
                   cleanupThreshold, basesToVisit, system>>

DropMark ==
    /\ cpc = "dropMark"
    /\ terminatedImages' = [terminatedImages EXCEPT ![curBase] = Absent]
    /\ cpc' = "remove" /\ curBase' = Absent
    /\ UNCHANGED <<images, addressCache, info, pool, scrapeCounter, callback,
                   cleanupThreshold, basesToVisit, imagesToClean, system>>

CleanupEnds ==
    /\ cpc = "remove" /\ imagesToClean = {}
    /\ cpc' = "idle" /\ cleanupThreshold' = 0
    /\ UNCHANGED <<table, scrapeCounter, callback, basesToVisit,
                   imagesToClean, curBase, system>>

-----------------------------------------------------------------------------
Callback ==
    \/ \E b \in Bases : AddImage(b) \/ UnloadImage(b)
    \/ \E a \in Addrs : LookUpCache(a)
    \/ Release \/ ReadScrape \/ StoreMark \/ Scan \/ ReadName

Cleaner ==
    \/ PostScrapeCleanup
    \/ \E b \in Bases : VisitMark(b) \/ RemoveImage(b)
    \/ MarksFound \/ DropMark \/ CleanupEnds

Next == Callback \/ Cleaner

Spec == Init /\ [][Next]_vars

-----------------------------------------------------------------------------
(* Properties.                                                             *)

\* Every map, count and local holds values of its type.
TypeOK ==
    /\ images \in [Bases -> Objs \union {Absent}]
    /\ addressCache \in [Addrs -> Objs \union {Absent}]
    /\ terminatedImages \in [Bases -> Nat \union {Absent}]
    /\ info \in [Objs -> [base : Bases \union {Absent}, ref : Int]]
    /\ pool \subseteq Objs
    /\ scrapeCounter \in Nat
    /\ hpc \in {"idle", "release", "readScrape", "storeMark", "scan",
                "readName"}
    /\ hbase \in Bases \union {Absent}
    /\ haddr \in Addrs \union {Absent}
    /\ hobj \in Objs \union {Absent}
    /\ hgen \in Nat
    /\ cpc \in {"idle", "find", "remove", "dropMark"}
    /\ cleanupThreshold \in Nat
    /\ basesToVisit \subseteq Bases
    /\ imagesToClean \subseteq Bases
    /\ curBase \in Bases \union {Absent}
    /\ mapped \in [Bases -> Nat]
    /\ unmappedAt \in [Bases -> Nat \union {Absent}]

\* The cache never leads to an image that has been removed, or to one that
\* does not cover the address ("remove any entries that point to the unloaded
\* image", RemoveImage).
CacheCoherent ==
    \A a \in Addrs : addressCache[a] # Absent =>
        \E b \in Bases :
            images[b] = addressCache[a] /\ <<b, a>> \in Covers

\* An object in the table carries its base and is not in the pool.
SoleOwner ==
    \A b \in Bases : images[b] # Absent =>
        info[images[b]].base = b /\ images[b] \notin pool

\* The name read without the lock, after GetImageForAddress has returned, is
\* that of an image of the address, although the cleaner may have put the
\* object back into the pool meanwhile (resolveDriverName).
ResolvedNameRight ==
    hpc = "readName" => <<info[hobj].base, haddr>> \in Covers

\* An image whose count has reached zero is marked for removal, or gone: the
\* mark, stored without the lock, is not lost to a cleaner that drops an older
\* mark of the same base (UnloadImage against RemoveImage).
ZeroCountMarked ==
    \A b \in Bases :
        images[b] # Absent /\ info[images[b]].ref <= 0 /\ hbase # b
            => terminatedImages[b] # Absent

\* An image is removed only once it has no mapping, in a cleanup whose
\* threshold has passed the generation of its last unload.  UnloadImage
\* "marks it for deletion if the count reaches zero".
RemovedWhenUnmapped ==
    [][\A b \in Bases : images[b] # Absent /\ images'[b] = Absent =>
          mapped[b] = 0 /\ unmappedAt[b] < cleanupThreshold]_vars

-----------------------------------------------------------------------------
(* The inductive invariant behind CacheCoherent, SoleOwner and             *)
(* ResolvedNameRight, for every stream of loads and unloads.               *)

Locals ==
    /\ hpc \in {"release", "readScrape", "storeMark"} =>
         hbase \in Bases /\ hobj \in Objs
    /\ hpc \in {"scan", "readName"} => haddr \in Addrs
    /\ hpc = "readName" => hobj \in Objs
    /\ cpc = "dropMark" => curBase \in Bases

IndInv == TypeOK /\ Locals /\ CacheCoherent /\ SoleOwner /\ ResolvedNameRight

\* What ZeroCountMarked rests on besides: the object that an unload is about
\* to release is of its base, and the table has no other for it; and while a
\* mark is dropped the base has no image, as AddImage has to wait for the lock.
UnloadLocals ==
    /\ hpc = "release" =>
         info[hobj].base = hbase /\ images[hbase] \in {hobj, Absent}
    /\ hpc \notin {"release", "readScrape", "storeMark"} => hbase = Absent
    /\ cpc = "dropMark" => images[curBase] = Absent

MarkInv == ZeroCountMarked /\ UnloadLocals
=============================================================================
