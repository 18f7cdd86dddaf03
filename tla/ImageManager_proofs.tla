------------------------ MODULE ImageManager_proofs ------------------------
(***************************************************************************)
(* The inductive invariant IndInv of module ImageManager, for any images,  *)
(* addresses and objects and any stream of loads, unloads and lookups.     *)
(***************************************************************************)
EXTENDS ImageManager, TLAPS

USE ImageAssumption DEF IndInv, TypeOK, Locals, CacheCoherent, SoleOwner,
                        ResolvedNameRight, table, callback, cleaner, system, vars

\* Nothing is loaded, cached or being handled.
LEMMA InitInv == ASSUME Init PROVE IndInv
<1>1. TypeOK
    BY DEF Init, NoInfo
<1>2. Locals
    BY DEF Init, NoInfo
<1>3. CacheCoherent
    BY DEF Init, NoInfo
<1>4. SoleOwner
    BY DEF Init, NoInfo
<1>5. ResolvedNameRight
    BY DEF Init, NoInfo
<1>6. QED
    BY <1>1, <1>2, <1>3, <1>4, <1>5

\* A new object is taken from the pool: it was in no table, and the callback
\* holds none while it handles a load.
LEMMA AddImageInv ==
    ASSUME IndInv, NEW b \in Bases, AddImage(b)
    PROVE  IndInv'
<1>1. mapped' \in [Bases -> Nat] /\ unmappedAt' = unmappedAt
    BY DEF AddImage, Loads, IsListed
<1>2. CASE images[b] # Absent
    <2>1. TypeOK'
        BY <1>1, <1>2 DEF AddImage, MoreReferences
    <2>2. Locals'
        BY <1>1, <1>2 DEF AddImage, MoreReferences
    <2>3. CacheCoherent'
        BY <1>1, <1>2 DEF AddImage, MoreReferences
    <2>4. SoleOwner'
        BY <1>1, <1>2 DEF AddImage, MoreReferences
    <2>5. ResolvedNameRight'
        BY <1>1, <1>2 DEF AddImage, MoreReferences
    <2>6. QED
        BY <2>1, <2>2, <2>3, <2>4, <2>5
<1>3. CASE images[b] = Absent
    <2>1. PICK o \in pool :
            /\ pool' = pool \ {o}
            /\ info' = [info EXCEPT ![o] = [base |-> b, ref |-> 1]]
            /\ images' = [images EXCEPT ![b] = o]
        BY <1>3 DEF AddImage
    <2>2. TypeOK'
        BY <1>1, <2>1 DEF AddImage
    <2>3. \A c \in Bases : images[c] # o
        BY <2>1
    <2>4. SoleOwner'
        BY <2>1, <2>3
    <2>5. CacheCoherent'
        BY <1>3, <2>1 DEF AddImage
    <2>6. Locals' /\ ResolvedNameRight'
        BY DEF AddImage
    <2>7. QED
        BY <2>2, <2>4, <2>5, <2>6
<1>4. QED
    BY <1>2, <1>3

\* The object found under the read lock is an object.
LEMMA UnloadImageInv ==
    ASSUME IndInv, NEW b \in Bases, UnloadImage(b)
    PROVE  IndInv'
<1>1. TypeOK'
    BY DEF UnloadImage, Unloads
<1>2. Locals'
    BY DEF UnloadImage, Unloads
<1>3. CacheCoherent'
    BY DEF UnloadImage, Unloads
<1>4. SoleOwner'
    BY DEF UnloadImage, Unloads
<1>5. ResolvedNameRight'
    BY DEF UnloadImage, Unloads
<1>6. QED
    BY <1>1, <1>2, <1>3, <1>4, <1>5

\* Only the count changes, be the object tracked or in the pool by now.
LEMMA ReleaseInv == ASSUME IndInv, Release PROVE IndInv'
<1>1. TypeOK'
    BY DEF Release, HandlerDone
<1>2. Locals'
    BY DEF Release, HandlerDone
<1>3. CacheCoherent'
    BY DEF Release, HandlerDone
<1>4. SoleOwner'
    BY DEF Release, HandlerDone
<1>5. ResolvedNameRight'
    BY DEF Release, HandlerDone
<1>6. QED
    BY <1>1, <1>2, <1>3, <1>4, <1>5

\* The generation read is a number.
LEMMA ReadScrapeInv == ASSUME IndInv, ReadScrape PROVE IndInv'
    BY DEF ReadScrape

\* A mark is no part of the table.
LEMMA StoreMarkInv == ASSUME IndInv, StoreMark PROVE IndInv'
    BY DEF StoreMark, HandlerDone

\* A hit in a coherent cache is a tracked image that covers the address.
LEMMA LookUpCacheInv ==
    ASSUME IndInv, NEW a \in Addrs, LookUpCache(a)
    PROVE  IndInv'
<1>1. TypeOK'
    BY DEF LookUpCache
<1>2. Locals'
    BY DEF LookUpCache
<1>3. CacheCoherent'
    BY DEF LookUpCache
<1>4. SoleOwner'
    BY DEF LookUpCache
<1>5. ResolvedNameRight'
    BY DEF LookUpCache
<1>6. QED
    BY <1>1, <1>2, <1>3, <1>4, <1>5

\* A scan returns, and caches, a tracked image that covers the address.
LEMMA ScanInv == ASSUME IndInv, Scan PROVE IndInv'
<1> DEFINE found == {images[b] : b \in {c \in Bases : <<c, haddr>> \in Covers}}
                      \ {Absent}
<1>1. haddr \in Addrs
    BY DEF Scan
<1>2. CASE \E o \in found :
              /\ addressCache' = [addressCache EXCEPT ![haddr] = o]
              /\ hpc' = "readName" /\ hobj' = o
              /\ UNCHANGED <<hbase, haddr, hgen>>
    <2>1. PICK o \in found :
            /\ addressCache' = [addressCache EXCEPT ![haddr] = o]
            /\ hpc' = "readName" /\ hobj' = o
            /\ UNCHANGED <<hbase, haddr, hgen>>
        BY <1>2
    <2>2. PICK b \in Bases : images[b] = o /\ <<b, haddr>> \in Covers
        BY <2>1
    <2>3. o \in Objs /\ info[o].base = b
        BY <2>1, <2>2
    <2>4. TypeOK'
        BY <1>1, <2>1, <2>3 DEF Scan
    <2>5. CacheCoherent'
        BY <1>1, <2>1, <2>2 DEF Scan
    <2>6. Locals' /\ SoleOwner' /\ ResolvedNameRight'
        BY <1>1, <2>1, <2>2, <2>3 DEF Scan
    <2>7. QED
        BY <2>4, <2>5, <2>6
<1>3. CASE HandlerDone /\ UNCHANGED addressCache
    BY <1>3 DEF Scan, HandlerDone
<1>4. QED
    BY <1>2, <1>3 DEF Scan

\* Reading the name changes nothing.
LEMMA ReadNameInv == ASSUME IndInv, ReadName PROVE IndInv'
    BY DEF ReadName, HandlerDone

\* The removed object leaves the map and the cache before it enters the pool;
\* what the callback reads of it stays as it was.
LEMMA RemoveImageInv ==
    ASSUME IndInv, NEW b \in Bases, RemoveImage(b)
    PROVE  IndInv'
<1>1. CASE images[b] = Absent
    <2>1. TypeOK'
        BY <1>1 DEF RemoveImage
    <2>2. Locals'
        BY <1>1 DEF RemoveImage
    <2>3. CacheCoherent'
        BY <1>1 DEF RemoveImage
    <2>4. SoleOwner'
        BY <1>1 DEF RemoveImage
    <2>5. ResolvedNameRight'
        BY <1>1 DEF RemoveImage
    <2>6. QED
        BY <2>1, <2>2, <2>3, <2>4, <2>5
<1>2. CASE images[b] # Absent
    <2>1. /\ images' = [images EXCEPT ![b] = Absent]
          /\ addressCache' = CacheWithout(images[b])
          /\ info' = info /\ pool' = pool \union {images[b]}
        BY <1>2 DEF RemoveImage, ImagesWithout, InfoAfter
    <2>2. TypeOK'
        BY <1>2, <2>1 DEF RemoveImage, CacheWithout
    <2>3. SoleOwner'
        BY <1>2, <2>1
    <2>4. CacheCoherent'
        BY <1>2, <2>1 DEF CacheWithout
    <2>5. Locals' /\ ResolvedNameRight'
        BY <2>1 DEF RemoveImage
    <2>6. QED
        BY <2>2, <2>3, <2>4, <2>5
<1>3. QED
    BY <1>1, <1>2

\* The other steps of the cleaner leave the table alone.
LEMMA CleanerInv ==
    ASSUME IndInv,
           \/ PostScrapeCleanup \/ MarksFound \/ DropMark \/ CleanupEnds
           \/ \E b \in Bases : VisitMark(b)
    PROVE  IndInv'
<1>1. CASE PostScrapeCleanup
    <2>1. TypeOK'
        BY <1>1 DEF PostScrapeCleanup
    <2>2. Locals'
        BY <1>1 DEF PostScrapeCleanup
    <2>3. CacheCoherent'
        BY <1>1 DEF PostScrapeCleanup
    <2>4. SoleOwner'
        BY <1>1 DEF PostScrapeCleanup
    <2>5. ResolvedNameRight'
        BY <1>1 DEF PostScrapeCleanup
    <2>6. QED
        BY <2>1, <2>2, <2>3, <2>4, <2>5
<1>2. CASE MarksFound
    BY <1>2 DEF MarksFound
<1>3. CASE DropMark
    BY <1>3 DEF DropMark
<1>4. CASE CleanupEnds
    BY <1>4 DEF CleanupEnds
<1>5. CASE \E b \in Bases : VisitMark(b)
    BY <1>5 DEF VisitMark
<1>6. QED
    BY <1>1, <1>2, <1>3, <1>4, <1>5

\* Every step, and a stutter, keeps the invariant.
LEMMA StepInv == IndInv /\ [Next]_vars => IndInv'
<1> SUFFICES ASSUME IndInv, [Next]_vars PROVE IndInv'
    OBVIOUS
<1>1. CASE Callback
    BY <1>1, AddImageInv, UnloadImageInv, LookUpCacheInv, ReleaseInv,
       ReadScrapeInv, StoreMarkInv, ScanInv, ReadNameInv DEF Callback
<1>2. CASE Cleaner
    BY <1>2, RemoveImageInv, CleanerInv DEF Cleaner
<1>3. CASE UNCHANGED vars
    <2>1. TypeOK'
        BY <1>3
    <2>2. Locals' /\ ResolvedNameRight'
        BY <1>3
    <2>3. CacheCoherent' /\ SoleOwner'
        BY <1>3
    <2>4. QED
        BY <2>1, <2>2, <2>3
<1>4. QED
    BY <1>1, <1>2, <1>3 DEF Next

USE DEF IndInv
HIDE DEF TypeOK, Locals, CacheCoherent, SoleOwner, ResolvedNameRight, vars

\* No map ever holds what is not an image, a base or a generation, and every
\* local has its type (newImageManager, AddImage, cleanupTerminated).
THEOREM TypeCorrect == Spec => []TypeOK
<1>1. Init => IndInv
    BY InitInv
<1>2. IndInv => TypeOK
    OBVIOUS
<1> HIDE DEF IndInv
<1>3. QED
    BY <1>1, <1>2, StepInv, PTL DEF Spec

\* The address cache never leads to a removed image, or to one that does not
\* cover the address (RemoveImage, GetImageForAddress).
THEOREM CacheIsCoherent == Spec => []CacheCoherent
<1>1. Init => IndInv
    BY InitInv
<1>2. IndInv => CacheCoherent
    OBVIOUS
<1> HIDE DEF IndInv
<1>3. QED
    BY <1>1, <1>2, StepInv, PTL DEF Spec

\* A tracked image is in no other hands (AddImage, RemoveImage).
THEOREM ImagesSolelyOwned == Spec => []SoleOwner
<1>1. Init => IndInv
    BY InitInv
<1>2. IndInv => SoleOwner
    OBVIOUS
<1> HIDE DEF IndInv
<1>3. QED
    BY <1>1, <1>2, StepInv, PTL DEF Spec

\* A name read after the lock is released is that of an image of the address
\* (resolveDriverName).
THEOREM NamesResolvedRight == Spec => []ResolvedNameRight
<1>1. Init => IndInv
    BY InitInv
<1>2. IndInv => ResolvedNameRight
    OBVIOUS
<1> HIDE DEF IndInv
<1>3. QED
    BY <1>1, <1>2, StepInv, PTL DEF Spec

-----------------------------------------------------------------------------
(* No zero count without a mark.                                           *)

USE DEF IndInv, TypeOK, Locals, CacheCoherent, SoleOwner, ResolvedNameRight,
        vars, MarkInv, ZeroCountMarked, UnloadLocals

\* A new image has one reference, and one more reference leaves an image that
\* was marked with its mark.
LEMMA AddImageMarks ==
    ASSUME IndInv, MarkInv, NEW b \in Bases, AddImage(b)
    PROVE  MarkInv'
<1>1. cpc # "dropMark" /\ UNCHANGED <<terminatedImages, callback, cleaner>>
    BY DEF AddImage, Unlocked
<1>2. hpc = "idle"
    BY DEF AddImage
<1>3. CASE images[b] # Absent
    <2>1. /\ info' = [info EXCEPT ![images[b]].ref = @ + 1]
          /\ images' = images
        BY <1>3 DEF AddImage, MoreReferences
    <2>2. ZeroCountMarked'
        BY <1>1, <1>2, <2>1
    <2>3. UnloadLocals'
        BY <1>1, <1>2, <2>1
    <2>4. QED
        BY <2>2, <2>3
<1>4. CASE images[b] = Absent
    <2>1. PICK o \in pool :
            /\ info' = [info EXCEPT ![o] = [base |-> b, ref |-> 1]]
            /\ images' = [images EXCEPT ![b] = o]
        BY <1>4 DEF AddImage
    <2>2. \A c \in Bases : images[c] # o
        BY <2>1
    <2>3. o \in Objs
        BY <2>1
    <2>4. ASSUME NEW c \in Bases, images'[c] # Absent,
                 info'[images'[c]].ref <= 0, hbase' # c
          PROVE  terminatedImages'[c] # Absent
        <3>1. c # b
            BY <2>1, <2>3, <2>4
        <3>2. images'[c] = images[c] /\ info'[images[c]] = info[images[c]]
            BY <2>1, <2>2, <2>3, <3>1
        <3>3. QED
            BY <1>1, <2>4, <3>2
    <2>5. UnloadLocals'
        BY <1>1, <1>2
    <2>6. QED
        BY <2>4, <2>5
<1>5. QED
    BY <1>3, <1>4

\* The image that is found is the one of the base.
LEMMA UnloadImageMarks ==
    ASSUME IndInv, MarkInv, NEW b \in Bases, UnloadImage(b)
    PROVE  MarkInv'
<1>1. ZeroCountMarked'
    BY DEF UnloadImage, Unloads
<1>2. UnloadLocals'
    BY DEF UnloadImage, Unloads
<1>3. QED
    BY <1>1, <1>2

\* The unload forgets the base only if the count stays above zero.
LEMMA ReleaseMarks == ASSUME IndInv, MarkInv, Release PROVE MarkInv'
<1>1. /\ hpc = "release" /\ hbase \in Bases /\ hobj \in Objs
      /\ info' = [info EXCEPT ![hobj].ref = @ - 1]
      /\ UNCHANGED <<images, terminatedImages, cleaner>>
    BY DEF Release
<1>2. \A c \in Bases \ {hbase} : images[c] # hobj
    BY <1>1
<1>3. info[hobj].ref \in Int /\ info'[hobj].ref = info[hobj].ref - 1
    BY <1>1
<1>4. \A c \in Bases \ {hbase} :
          images[c] # Absent => info'[images[c]] = info[images[c]]
    BY <1>1, <1>2
<1>5. CASE info[hobj].ref - 1 <= 0
    <2>1. hpc' = "readScrape" /\ hbase' = hbase
        BY <1>5 DEF Release, LastReference
    <2>2. QED
        BY <1>1, <1>4, <2>1
<1>6. CASE ~(info[hobj].ref - 1 <= 0)
    <2>1. hpc' = "idle" /\ hbase' = Absent
        BY <1>6 DEF Release, LastReference, HandlerDone
    <2>2. info[hobj].base = hbase /\ hobj # Absent
        BY <1>1
    <2>3. images[hbase] # Absent => info'[images[hbase]].ref > 0
        BY <1>1, <1>3, <1>6
    <2>4. ASSUME NEW c \in Bases, images[c] # Absent,
                 info'[images[c]].ref <= 0
          PROVE  terminatedImages[c] # Absent
        <3>1. CASE c # hbase
            BY <1>4, <2>4, <3>1
        <3>2. CASE c = hbase
            BY <1>1, <2>3, <2>4, <3>2
        <3>3. QED
            BY <3>1, <3>2
    <2>5. ZeroCountMarked'
        BY <1>1, <2>4
    <2>6. UnloadLocals'
        BY <1>1, <2>1
    <2>7. QED
        BY <2>5, <2>6
<1>7. QED
    BY <1>5, <1>6

\* The generation is read while the base is still in hand.
LEMMA ReadScrapeMarks == ASSUME IndInv, MarkInv, ReadScrape PROVE MarkInv'
    BY DEF ReadScrape

\* From now on the mark stands for the base in hand.
LEMMA StoreMarkMarks == ASSUME IndInv, MarkInv, StoreMark PROVE MarkInv'
<1>1. /\ hbase \in Bases
      /\ terminatedImages' = [terminatedImages EXCEPT ![hbase] = hgen]
      /\ UNCHANGED <<images, info, cleaner>>
      /\ hpc' = "idle" /\ hbase' = Absent
    BY DEF StoreMark, HandlerDone
<1>2. hgen # Absent
    OBVIOUS
<1>3. ZeroCountMarked'
    BY <1>1, <1>2
<1>4. UnloadLocals'
    BY <1>1
<1>5. QED
    BY <1>3, <1>4

\* A lookup has nothing to do with counts and marks.
LEMMA LookUpMarks ==
    ASSUME IndInv, MarkInv,
           Scan \/ ReadName \/ \E a \in Addrs : LookUpCache(a)
    PROVE  MarkInv'
<1>1. UNCHANGED <<images, info, terminatedImages, cleaner>>
    BY DEF Scan, ReadName, LookUpCache
<1>2. hbase = Absent /\ hbase' = Absent
    BY DEF Scan, ReadName, LookUpCache, HandlerDone
<1>3. hpc' # "release"
    BY DEF Scan, ReadName, LookUpCache, HandlerDone
<1>4. QED
    BY <1>1, <1>2, <1>3

\* A removed image needs no mark, and the counts of the others stay.
LEMMA RemoveImageMarks ==
    ASSUME IndInv, MarkInv, NEW b \in Bases, RemoveImage(b)
    PROVE  MarkInv'
<1>1. /\ images' = [images EXCEPT ![b] = Absent]
      /\ info' = info /\ curBase' = b
      /\ UNCHANGED <<terminatedImages, callback>>
    BY DEF RemoveImage, ImagesWithout, InfoAfter
<1>2. ZeroCountMarked'
    BY <1>1
<1>3. UnloadLocals'
    BY <1>1
<1>4. QED
    BY <1>2, <1>3

\* Only the mark of a base without an image is dropped.
LEMMA CleanerMarks ==
    ASSUME IndInv, MarkInv,
           \/ PostScrapeCleanup \/ MarksFound \/ DropMark \/ CleanupEnds
           \/ \E b \in Bases : VisitMark(b)
    PROVE  MarkInv'
<1>1. UNCHANGED <<images, info, callback>> /\ cpc' # "dropMark"
    BY DEF PostScrapeCleanup, MarksFound, DropMark, CleanupEnds, VisitMark
<1>2. CASE DropMark
    <2>1. /\ curBase \in Bases /\ images[curBase] = Absent
          /\ terminatedImages' = [terminatedImages EXCEPT ![curBase] = Absent]
        BY <1>2 DEF DropMark
    <2>2. QED
        BY <1>1, <2>1
<1>3. CASE ~DropMark
    <2>1. UNCHANGED terminatedImages
        BY <1>3 DEF PostScrapeCleanup, MarksFound, CleanupEnds, VisitMark
    <2>2. QED
        BY <1>1, <2>1
<1>4. QED
    BY <1>2, <1>3

\* Every step, and a stutter, keeps both invariants.
LEMMA StepMarks == IndInv /\ MarkInv /\ [Next]_vars => MarkInv'
<1> SUFFICES ASSUME IndInv, MarkInv, [Next]_vars PROVE MarkInv'
    OBVIOUS
<1>1. CASE Callback
    BY <1>1, AddImageMarks, UnloadImageMarks, LookUpMarks, ReleaseMarks,
       ReadScrapeMarks, StoreMarkMarks DEF Callback
<1>2. CASE Cleaner
    BY <1>2, RemoveImageMarks, CleanerMarks DEF Cleaner
<1>3. CASE UNCHANGED vars
    BY <1>3
<1>4. QED
    BY <1>1, <1>2, <1>3 DEF Next

HIDE DEF IndInv, TypeOK, Locals, CacheCoherent, SoleOwner, ResolvedNameRight,
         vars, MarkInv, ZeroCountMarked, UnloadLocals

\* The count that an unload takes to zero is found by a cleanup: its mark is
\* stored outside the lock, and is not lost (UnloadImage, RemoveImage).
THEOREM ZeroCountsMarked == Spec => []ZeroCountMarked
<1>1. Init => IndInv /\ MarkInv
    BY InitInv DEF Init, MarkInv, ZeroCountMarked, UnloadLocals
<1>2. IndInv /\ MarkInv /\ [Next]_vars => (IndInv /\ MarkInv)'
    BY StepInv, StepMarks
<1>3. MarkInv => ZeroCountMarked
    BY DEF MarkInv
<1>4. QED
    BY <1>1, <1>2, <1>3, PTL DEF Spec
=============================================================================
