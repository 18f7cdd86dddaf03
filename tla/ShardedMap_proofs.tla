-------------------------- MODULE ShardedMap_proofs --------------------------
(***************************************************************************)
(* ShardedMap excludes map races and implements ConcurrentMap, for any     *)
(* number of goroutines, shards, keys and calls.                           *)
(***************************************************************************)
EXTENDS ShardedMap, TLAPS

USE DEF Shards, Slots, Ops

\* Where a client has a lock, by its place in the code.
Reading(c, s) ==
    \/ pc[c] \in {"read", "runlock"} /\ s = ShardOf(c)
    \/ pc[c] \in {"copy", "copied"} /\ s = next[c]
Writing(c, s) == pc[c] \in {"examine", "write", "unlock"} /\ s = ShardOf(c)

LocksHeld ==
    \A s \in Shards :
        /\ \A c \in Clients : Reading(c, s) => c \in readers[s]
        /\ \A c \in Clients : Writing(c, s) => writer[s] = c
        /\ writer[s] # Absent => readers[s] = {}

\* Which calls come to which place.
CallsInPlace(c) ==
    /\ request[c] # Absent <=> pc[c] \notin {"idle", "copy", "copied"}
    /\ pc[c] \in {"rlock", "read", "runlock"} => FirstLock(request[c]) = "rlock"
    /\ pc[c] \in {"lock", "write"} => request[c].op # "Load"
    /\ pc[c] = "examine" =>
         request[c].op \in {"LoadAndDelete", "LoadOrStore", "Update"}

\* What was examined under the lock is still so when it is written.
Examined(c) ==
    pc[c] = "write" /\ ~Blind(request[c]) =>
        old[c] = m[request[c].key] /\ Writes(request[c], old[c])

RangeInPlace(c) ==
    /\ pc[c] \in {"copy", "copied"} => next[c] \in Shards /\ c \notin visiting
    /\ pc[c] = "copy" => copies[c] = {}
    /\ next[c] # Absent => c \in Rangers
    /\ next[c] = Absent => copies[c] = {} /\ c \notin visiting

IndInv ==
    /\ TypeOK
    /\ LocksHeld
    /\ \A c \in Clients : CallsInPlace(c) /\ Examined(c) /\ RangeInPlace(c)

-----------------------------------------------------------------------------
\* Every key has a shard (getShard).
LEMMA ShardOfKey ==
    \A k \in Keys :
        getShard(k) \in Shards /\ getShard(k) \in Nat /\ getShard(k) < numShards
BY MapAssumption, SMT DEF getShard

\* A client in a call has one of the calls, which has its shard.
LEMMA CallOf ==
    ASSUME TypeOK, NEW c \in Clients, request[c] # Absent
    PROVE  /\ request[c] \in Requests /\ request[c].key \in Keys
           /\ request[c].op \in Ops /\ ShardOf(c) \in Shards
<1>1. request[c] \in Requests
  BY DEF TypeOK
<1>2. request[c].key \in Keys /\ request[c].op \in Ops
  BY <1>1, MapAssumption
<1> QED
  BY <1>1, <1>2, ShardOfKey DEF ShardOf

\* Init establishes the invariant.
LEMMA InvInit == Init => IndInv
<1> SUFFICES ASSUME Init PROVE IndInv
  OBVIOUS
<1>1. TypeOK
  BY MapAssumption, SMT DEF Init, TypeOK, Labels
<1>2. LocksHeld
  BY SMT DEF Init, LocksHeld, Reading, Writing
<1>3. \A c \in Clients : CallsInPlace(c) /\ Examined(c) /\ RangeInPlace(c)
  BY MapAssumption, SMT DEF Init, CallsInPlace, Examined, RangeInPlace
<1> QED
  BY <1>1, <1>2, <1>3 DEF IndInv

\* The invariant holds on when a call begins.
LEMMA InvCall ==
    ASSUME IndInv, NEW c \in Clients, NEW r \in Requests, Call(c, r)
    PROVE  IndInv'
<1> USE MapAssumption DEF Call, Goto, FirstLock, vars, locks, iteration
<1>1. TypeOK'
  <2>1. pc' \in [Clients -> Labels]
    BY SMT DEF IndInv, TypeOK, Labels, FirstLock
  <2>2. readers' \in [Shards -> SUBSET Clients]
    BY DEF IndInv, TypeOK
  <2>3. old' \in [Clients -> Slots]
    BY SMT DEF IndInv, TypeOK, CallsInPlace
  <2>4. request' \in [Clients -> Requests \union {Absent}]
    BY SMT DEF IndInv, TypeOK
  <2> QED
    BY <2>1, <2>2, <2>3, <2>4, SMT DEF IndInv, TypeOK
<1>2. LocksHeld'
  BY ShardOfKey, SMT DEF IndInv, TypeOK, LocksHeld, CallsInPlace, RangeInPlace, Reading, Writing, ShardOf
<1>3. \A d \in Clients : CallsInPlace(d)'
  BY SMT DEF IndInv, TypeOK, CallsInPlace, FirstLock, RangeInPlace, Blind
<1>4. \A d \in Clients : Examined(d)'
  BY SMT DEF IndInv, TypeOK, Examined, CallsInPlace, Writing, LocksHeld, ShardOf, Blind
<1>5. \A d \in Clients : RangeInPlace(d)'
  BY SMT DEF IndInv, TypeOK, CallsInPlace, RangeInPlace
<1> QED
  BY <1>1, <1>2, <1>3, <1>4, <1>5 DEF IndInv

\* The invariant holds on when a client gets the read lock.
LEMMA InvRLock ==
    ASSUME IndInv, NEW c \in Clients, RLock(c)
    PROVE  IndInv'
<1>a. /\ request[c] \in Requests /\ request[c].key \in Keys
      /\ request[c].op \in Ops /\ ShardOf(c) \in Shards
  BY CallOf, SMT DEF IndInv, CallsInPlace, RLock
<1>b. m[request[c].key] \in Slots
  BY <1>a DEF IndInv, TypeOK
<1> USE <1>a, <1>b, MapAssumption DEF RLock, Goto, TakeRLock, vars, locks, iteration
<1>1. TypeOK'
  <2>1. pc' \in [Clients -> Labels]
    BY SMT DEF IndInv, TypeOK, Labels, FirstLock
  <2>2. readers' \in [Shards -> SUBSET Clients]
    BY DEF IndInv, TypeOK
  <2>3. old' \in [Clients -> Slots]
    BY SMT DEF IndInv, TypeOK, CallsInPlace
  <2>4. request' \in [Clients -> Requests \union {Absent}]
    BY SMT DEF IndInv, TypeOK
  <2> QED
    BY <2>1, <2>2, <2>3, <2>4, SMT DEF IndInv, TypeOK
<1>2. LocksHeld'
  BY ShardOfKey, SMT DEF IndInv, TypeOK, LocksHeld, CallsInPlace, RangeInPlace, Reading, Writing, ShardOf
<1>3. \A d \in Clients : CallsInPlace(d)'
  BY SMT DEF IndInv, TypeOK, CallsInPlace, FirstLock, RangeInPlace, Blind
<1>4. \A d \in Clients : Examined(d)'
  BY SMT DEF IndInv, TypeOK, Examined, CallsInPlace, Writing, LocksHeld, ShardOf, Blind
<1>5. \A d \in Clients : RangeInPlace(d)'
  BY SMT DEF IndInv, TypeOK, CallsInPlace, RangeInPlace
<1> QED
  BY <1>1, <1>2, <1>3, <1>4, <1>5 DEF IndInv

\* The invariant holds on when a client reads.
LEMMA InvRead ==
    ASSUME IndInv, NEW c \in Clients, Read(c)
    PROVE  IndInv'
<1>a. /\ request[c] \in Requests /\ request[c].key \in Keys
      /\ request[c].op \in Ops /\ ShardOf(c) \in Shards
  BY CallOf, SMT DEF IndInv, CallsInPlace, Read
<1>b. m[request[c].key] \in Slots
  BY <1>a DEF IndInv, TypeOK
<1> USE <1>a, <1>b, MapAssumption DEF Read, Goto, vars, locks, iteration
<1>1. TypeOK'
  <2>1. pc' \in [Clients -> Labels]
    BY SMT DEF IndInv, TypeOK, Labels, FirstLock
  <2>2. readers' \in [Shards -> SUBSET Clients]
    BY DEF IndInv, TypeOK
  <2>3. old' \in [Clients -> Slots]
    BY SMT DEF IndInv, TypeOK, CallsInPlace
  <2>4. request' \in [Clients -> Requests \union {Absent}]
    BY SMT DEF IndInv, TypeOK
  <2> QED
    BY <2>1, <2>2, <2>3, <2>4, SMT DEF IndInv, TypeOK
<1>2. LocksHeld'
  BY ShardOfKey, SMT DEF IndInv, TypeOK, LocksHeld, CallsInPlace, RangeInPlace, Reading, Writing, ShardOf
<1>3. \A d \in Clients : CallsInPlace(d)'
  BY SMT DEF IndInv, TypeOK, CallsInPlace, FirstLock, RangeInPlace, Blind
<1>4. \A d \in Clients : Examined(d)'
  BY SMT DEF IndInv, TypeOK, Examined, CallsInPlace, Writing, LocksHeld, ShardOf, Blind
<1>5. \A d \in Clients : RangeInPlace(d)'
  BY SMT DEF IndInv, TypeOK, CallsInPlace, RangeInPlace
<1> QED
  BY <1>1, <1>2, <1>3, <1>4, <1>5 DEF IndInv

\* The invariant holds on when a client gives the read lock back.
LEMMA InvRUnlock ==
    ASSUME IndInv, NEW c \in Clients, RUnlock(c)
    PROVE  IndInv'
<1>a. /\ request[c] \in Requests /\ request[c].key \in Keys
      /\ request[c].op \in Ops /\ ShardOf(c) \in Shards
  BY CallOf, SMT DEF IndInv, CallsInPlace, RUnlock
<1>b. m[request[c].key] \in Slots
  BY <1>a DEF IndInv, TypeOK
<1> USE <1>a, <1>b, MapAssumption DEF RUnlock, Goto, ReleaseRLock, AfterLook, Missed, vars, locks, iteration
<1>1. TypeOK'
  <2>1. pc' \in [Clients -> Labels]
    BY SMT DEF IndInv, TypeOK, Labels, FirstLock
  <2>2. readers' \in [Shards -> SUBSET Clients]
    BY DEF IndInv, TypeOK
  <2>3. old' \in [Clients -> Slots]
    BY SMT DEF IndInv, TypeOK, CallsInPlace
  <2>4. request' \in [Clients -> Requests \union {Absent}]
    BY SMT DEF IndInv, TypeOK
  <2> QED
    BY <2>1, <2>2, <2>3, <2>4, SMT DEF IndInv, TypeOK
<1>2. LocksHeld'
  BY ShardOfKey, SMT DEF IndInv, TypeOK, LocksHeld, CallsInPlace, RangeInPlace, Reading, Writing, ShardOf
<1>3. \A d \in Clients : CallsInPlace(d)'
  BY SMT DEF IndInv, TypeOK, CallsInPlace, FirstLock, RangeInPlace, Blind
<1>4. \A d \in Clients : Examined(d)'
  BY SMT DEF IndInv, TypeOK, Examined, CallsInPlace, Writing, LocksHeld, ShardOf, Blind
<1>5. \A d \in Clients : RangeInPlace(d)'
  BY SMT DEF IndInv, TypeOK, CallsInPlace, RangeInPlace
<1> QED
  BY <1>1, <1>2, <1>3, <1>4, <1>5 DEF IndInv

\* The invariant holds on when a client gets the lock.
LEMMA InvLock ==
    ASSUME IndInv, NEW c \in Clients, Lock(c)
    PROVE  IndInv'
<1>a. /\ request[c] \in Requests /\ request[c].key \in Keys
      /\ request[c].op \in Ops /\ ShardOf(c) \in Shards
  BY CallOf, SMT DEF IndInv, CallsInPlace, Lock
<1>b. m[request[c].key] \in Slots
  BY <1>a DEF IndInv, TypeOK
<1> USE <1>a, <1>b, MapAssumption DEF Lock, Goto, TakeLock, vars, locks, iteration
<1>1. TypeOK'
  BY SMT DEF IndInv, TypeOK, Labels, CallsInPlace, FirstLock
<1>2. LocksHeld'
  BY ShardOfKey, SMT DEF IndInv, TypeOK, LocksHeld, CallsInPlace, RangeInPlace, Reading, Writing, ShardOf
<1>3. \A d \in Clients : CallsInPlace(d)'
  BY SMT DEF IndInv, TypeOK, CallsInPlace, FirstLock, RangeInPlace, Blind
<1>4. \A d \in Clients : Examined(d)'
  BY SMT DEF IndInv, TypeOK, Examined, CallsInPlace, Writing, LocksHeld, ShardOf, Blind
<1>5. \A d \in Clients : RangeInPlace(d)'
  BY SMT DEF IndInv, TypeOK, CallsInPlace, RangeInPlace
<1> QED
  BY <1>1, <1>2, <1>3, <1>4, <1>5 DEF IndInv

\* The invariant holds on when a client examines its entry.
LEMMA InvExamine ==
    ASSUME IndInv, NEW c \in Clients, Examine(c)
    PROVE  IndInv'
<1>a. /\ request[c] \in Requests /\ request[c].key \in Keys
      /\ request[c].op \in Ops /\ ShardOf(c) \in Shards
  BY CallOf, SMT DEF IndInv, CallsInPlace, Examine
<1>b. m[request[c].key] \in Slots
  BY <1>a DEF IndInv, TypeOK
<1> USE <1>a, <1>b, MapAssumption DEF Examine, Goto, Writes, Present, vars, locks, iteration
<1>1. TypeOK'
  <2>1. pc' \in [Clients -> Labels]
    BY SMT DEF IndInv, TypeOK, Labels, FirstLock
  <2>2. readers' \in [Shards -> SUBSET Clients]
    BY DEF IndInv, TypeOK
  <2>3. old' \in [Clients -> Slots]
    BY SMT DEF IndInv, TypeOK, CallsInPlace
  <2>4. request' \in [Clients -> Requests \union {Absent}]
    BY SMT DEF IndInv, TypeOK
  <2> QED
    BY <2>1, <2>2, <2>3, <2>4, SMT DEF IndInv, TypeOK
<1>2. LocksHeld'
  BY ShardOfKey, SMT DEF IndInv, TypeOK, LocksHeld, CallsInPlace, RangeInPlace, Reading, Writing, ShardOf
<1>3. \A d \in Clients : CallsInPlace(d)'
  BY SMT DEF IndInv, TypeOK, CallsInPlace, FirstLock, RangeInPlace, Blind
<1>4. \A d \in Clients : Examined(d)'
  BY SMT DEF IndInv, TypeOK, Examined, CallsInPlace, Writing, LocksHeld, ShardOf, Blind
<1>5. \A d \in Clients : RangeInPlace(d)'
  BY SMT DEF IndInv, TypeOK, CallsInPlace, RangeInPlace
<1> QED
  BY <1>1, <1>2, <1>3, <1>4, <1>5 DEF IndInv

\* The invariant holds on when a client writes.
LEMMA InvWrite ==
    ASSUME IndInv, NEW c \in Clients, Write(c)
    PROVE  IndInv'
<1>a. /\ request[c] \in Requests /\ request[c].key \in Keys
      /\ request[c].op \in Ops /\ ShardOf(c) \in Shards
  BY CallOf, SMT DEF IndInv, CallsInPlace, Write
<1>b. m[request[c].key] \in Slots
  BY <1>a DEF IndInv, TypeOK
<1> USE <1>a, <1>b, MapAssumption DEF Write, Goto, Written, vars, locks, iteration
<1>1. TypeOK'
  BY SMT DEF IndInv, TypeOK, Labels, CallsInPlace, FirstLock
<1>2. LocksHeld'
  BY ShardOfKey, SMT DEF IndInv, TypeOK, LocksHeld, CallsInPlace, RangeInPlace, Reading, Writing, ShardOf
<1>3. \A d \in Clients : CallsInPlace(d)'
  BY SMT DEF IndInv, TypeOK, CallsInPlace, FirstLock, RangeInPlace, Blind
<1>4. \A d \in Clients : Examined(d)'
  BY SMT DEF IndInv, TypeOK, Examined, CallsInPlace, Writing, LocksHeld, ShardOf, Blind
<1>5. \A d \in Clients : RangeInPlace(d)'
  BY SMT DEF IndInv, TypeOK, CallsInPlace, RangeInPlace
<1> QED
  BY <1>1, <1>2, <1>3, <1>4, <1>5 DEF IndInv

\* The invariant holds on when a client gives the lock back.
LEMMA InvUnlock ==
    ASSUME IndInv, NEW c \in Clients, Unlock(c)
    PROVE  IndInv'
<1>a. /\ request[c] \in Requests /\ request[c].key \in Keys
      /\ request[c].op \in Ops /\ ShardOf(c) \in Shards
  BY CallOf, SMT DEF IndInv, CallsInPlace, Unlock
<1>b. m[request[c].key] \in Slots
  BY <1>a DEF IndInv, TypeOK
<1> USE <1>a, <1>b, MapAssumption DEF Unlock, Goto, ReleaseLock, vars, locks, iteration
<1>1. TypeOK'
  BY SMT DEF IndInv, TypeOK, Labels, CallsInPlace, FirstLock
<1>2. LocksHeld'
  BY ShardOfKey, SMT DEF IndInv, TypeOK, LocksHeld, CallsInPlace, RangeInPlace, Reading, Writing, ShardOf
<1>3. \A d \in Clients : CallsInPlace(d)'
  BY SMT DEF IndInv, TypeOK, CallsInPlace, FirstLock, RangeInPlace, Blind
<1>4. \A d \in Clients : Examined(d)'
  BY SMT DEF IndInv, TypeOK, Examined, CallsInPlace, Writing, LocksHeld, ShardOf, Blind
<1>5. \A d \in Clients : RangeInPlace(d)'
  BY SMT DEF IndInv, TypeOK, CallsInPlace, RangeInPlace
<1> QED
  BY <1>1, <1>2, <1>3, <1>4, <1>5 DEF IndInv

\* The invariant holds on when a call returns.
LEMMA InvReturn ==
    ASSUME IndInv, NEW c \in Clients, Return(c)
    PROVE  IndInv'
<1>a. /\ request[c] \in Requests /\ request[c].key \in Keys
      /\ request[c].op \in Ops /\ ShardOf(c) \in Shards
  BY CallOf, SMT DEF IndInv, CallsInPlace, Return
<1>b. m[request[c].key] \in Slots
  BY <1>a DEF IndInv, TypeOK
<1> USE <1>a, <1>b, MapAssumption DEF Return, Goto, vars, locks, iteration
<1>1. TypeOK'
  BY SMT DEF IndInv, TypeOK, Labels, CallsInPlace, FirstLock
<1>2. LocksHeld'
  BY ShardOfKey, SMT DEF IndInv, TypeOK, LocksHeld, CallsInPlace, RangeInPlace, Reading, Writing, ShardOf
<1>3. \A d \in Clients : CallsInPlace(d)'
  BY SMT DEF IndInv, TypeOK, CallsInPlace, FirstLock, RangeInPlace, Blind
<1>4. \A d \in Clients : Examined(d)'
  BY SMT DEF IndInv, TypeOK, Examined, CallsInPlace, Writing, LocksHeld, ShardOf, Blind
<1>5. \A d \in Clients : RangeInPlace(d)'
  BY SMT DEF IndInv, TypeOK, CallsInPlace, RangeInPlace
<1> QED
  BY <1>1, <1>2, <1>3, <1>4, <1>5 DEF IndInv

\* The invariant holds on when a Range begins.
LEMMA InvBeginRange ==
    ASSUME IndInv, NEW c \in Rangers, BeginRange(c)
    PROVE  IndInv'
<1> USE MapAssumption DEF BeginRange, Goto, vars, locks, iteration
<1>1. TypeOK'
  BY SMT DEF IndInv, TypeOK, Labels, RangeInPlace, CallsInPlace
<1>2. LocksHeld'
  BY ShardOfKey, SMT DEF IndInv, TypeOK, LocksHeld, CallsInPlace, RangeInPlace, Reading, Writing, ShardOf
<1>3. \A d \in Clients : CallsInPlace(d)'
  BY SMT DEF IndInv, TypeOK, CallsInPlace, FirstLock, RangeInPlace, Blind
<1>4. \A d \in Clients : Examined(d)'
  BY SMT DEF IndInv, TypeOK, Examined, CallsInPlace, Writing, LocksHeld, ShardOf, Blind
<1>5. \A d \in Clients : RangeInPlace(d)'
  BY SMT DEF IndInv, TypeOK, CallsInPlace, RangeInPlace
<1> QED
  BY <1>1, <1>2, <1>3, <1>4, <1>5 DEF IndInv

\* The invariant holds on when a Range gets the read lock of a shard.
LEMMA InvRangeLock ==
    ASSUME IndInv, NEW c \in Rangers, RangeLock(c)
    PROVE  IndInv'
<1> USE MapAssumption DEF RangeLock, Goto, TakeRLock, Iterating, vars, locks, iteration
<1>1. TypeOK'
  BY SMT DEF IndInv, TypeOK, Labels, RangeInPlace, CallsInPlace
<1>2. LocksHeld'
  BY ShardOfKey, SMT DEF IndInv, TypeOK, LocksHeld, CallsInPlace, RangeInPlace, Reading, Writing, ShardOf
<1>3. \A d \in Clients : CallsInPlace(d)'
  BY SMT DEF IndInv, TypeOK, CallsInPlace, FirstLock, RangeInPlace, Blind
<1>4. \A d \in Clients : Examined(d)'
  BY SMT DEF IndInv, TypeOK, Examined, CallsInPlace, Writing, LocksHeld, ShardOf, Blind
<1>5. \A d \in Clients : RangeInPlace(d)'
  BY SMT DEF IndInv, TypeOK, CallsInPlace, RangeInPlace
<1> QED
  BY <1>1, <1>2, <1>3, <1>4, <1>5 DEF IndInv

\* The invariant holds on when a Range copies a shard.
LEMMA InvCopy ==
    ASSUME IndInv, NEW c \in Clients, Copy(c)
    PROVE  IndInv'
<1> USE MapAssumption DEF Copy, Goto, Pairs, KeysOfShard, Present, vars, locks, iteration
<1>1. TypeOK'
  BY SMT DEF IndInv, TypeOK, Labels, RangeInPlace, CallsInPlace
<1>2. LocksHeld'
  BY ShardOfKey, SMT DEF IndInv, TypeOK, LocksHeld, CallsInPlace, RangeInPlace, Reading, Writing, ShardOf
<1>3. \A d \in Clients : CallsInPlace(d)'
  BY SMT DEF IndInv, TypeOK, CallsInPlace, FirstLock, RangeInPlace, Blind
<1>4. \A d \in Clients : Examined(d)'
  BY SMT DEF IndInv, TypeOK, Examined, CallsInPlace, Writing, LocksHeld, ShardOf, Blind
<1>5. \A d \in Clients : RangeInPlace(d)'
  BY SMT DEF IndInv, TypeOK, CallsInPlace, RangeInPlace
<1> QED
  BY <1>1, <1>2, <1>3, <1>4, <1>5 DEF IndInv

\* The invariant holds on when a Range gives the lock back.
LEMMA InvRangeUnlock ==
    ASSUME IndInv, NEW c \in Clients, RangeUnlock(c)
    PROVE  IndInv'
<1> USE MapAssumption DEF RangeUnlock, Goto, ReleaseRLock, vars, locks, iteration
<1>1. TypeOK'
  BY SMT DEF IndInv, TypeOK, Labels, RangeInPlace, CallsInPlace
<1>2. LocksHeld'
  BY ShardOfKey, SMT DEF IndInv, TypeOK, LocksHeld, CallsInPlace, RangeInPlace, Reading, Writing, ShardOf
<1>3. \A d \in Clients : CallsInPlace(d)'
  BY SMT DEF IndInv, TypeOK, CallsInPlace, FirstLock, RangeInPlace, Blind
<1>4. \A d \in Clients : Examined(d)'
  BY SMT DEF IndInv, TypeOK, Examined, CallsInPlace, Writing, LocksHeld, ShardOf, Blind
<1>5. \A d \in Clients : RangeInPlace(d)'
  BY SMT DEF IndInv, TypeOK, CallsInPlace, RangeInPlace
<1> QED
  BY <1>1, <1>2, <1>3, <1>4, <1>5 DEF IndInv

\* The invariant holds on when a Range calls its function.
LEMMA InvVisit ==
    ASSUME IndInv, NEW c \in Rangers, Visit(c)
    PROVE  IndInv'
<1> USE MapAssumption DEF Visit, Goto, Iterating, vars, locks, iteration
<1>1. TypeOK'
  BY SMT DEF IndInv, TypeOK, Labels, RangeInPlace, CallsInPlace
<1>2. LocksHeld'
  BY ShardOfKey, SMT DEF IndInv, TypeOK, LocksHeld, CallsInPlace, RangeInPlace, Reading, Writing, ShardOf
<1>3. \A d \in Clients : CallsInPlace(d)'
  BY SMT DEF IndInv, TypeOK, CallsInPlace, FirstLock, RangeInPlace, Blind
<1>4. \A d \in Clients : Examined(d)'
  BY SMT DEF IndInv, TypeOK, Examined, CallsInPlace, Writing, LocksHeld, ShardOf, Blind
<1>5. \A d \in Clients : RangeInPlace(d)'
  BY SMT DEF IndInv, TypeOK, CallsInPlace, RangeInPlace
<1> QED
  BY <1>1, <1>2, <1>3, <1>4, <1>5 DEF IndInv

\* The invariant holds on when the function of a Range asks for more.
LEMMA InvContinue ==
    ASSUME IndInv, NEW c \in Rangers, Continue(c)
    PROVE  IndInv'
<1> USE MapAssumption DEF Continue, Goto, Iterating, vars, locks, iteration
<1>1. TypeOK'
  BY SMT DEF IndInv, TypeOK, Labels, RangeInPlace, CallsInPlace
<1>2. LocksHeld'
  BY ShardOfKey, SMT DEF IndInv, TypeOK, LocksHeld, CallsInPlace, RangeInPlace, Reading, Writing, ShardOf
<1>3. \A d \in Clients : CallsInPlace(d)'
  BY SMT DEF IndInv, TypeOK, CallsInPlace, FirstLock, RangeInPlace, Blind
<1>4. \A d \in Clients : Examined(d)'
  BY SMT DEF IndInv, TypeOK, Examined, CallsInPlace, Writing, LocksHeld, ShardOf, Blind
<1>5. \A d \in Clients : RangeInPlace(d)'
  BY SMT DEF IndInv, TypeOK, CallsInPlace, RangeInPlace
<1> QED
  BY <1>1, <1>2, <1>3, <1>4, <1>5 DEF IndInv

\* The invariant holds on when a Range ends.
LEMMA InvEndRange ==
    ASSUME IndInv, NEW c \in Rangers, EndRange(c)
    PROVE  IndInv'
<1> USE MapAssumption DEF EndRange, Goto, Iterating, vars, locks, iteration
<1>1. TypeOK'
  BY SMT DEF IndInv, TypeOK, Labels, RangeInPlace, CallsInPlace
<1>2. LocksHeld'
  BY ShardOfKey, SMT DEF IndInv, TypeOK, LocksHeld, CallsInPlace, RangeInPlace, Reading, Writing, ShardOf
<1>3. \A d \in Clients : CallsInPlace(d)'
  BY SMT DEF IndInv, TypeOK, CallsInPlace, FirstLock, RangeInPlace, Blind
<1>4. \A d \in Clients : Examined(d)'
  BY SMT DEF IndInv, TypeOK, Examined, CallsInPlace, Writing, LocksHeld, ShardOf, Blind
<1>5. \A d \in Clients : RangeInPlace(d)'
  BY SMT DEF IndInv, TypeOK, CallsInPlace, RangeInPlace
<1> QED
  BY <1>1, <1>2, <1>3, <1>4, <1>5 DEF IndInv

\* Every step keeps the invariant.
LEMMA InvStep == IndInv /\ [Next]_vars => IndInv'
<1> SUFFICES ASSUME IndInv, [Next]_vars PROVE IndInv'
  OBVIOUS
<1>1. ASSUME NEW c \in Clients, NEW r \in Requests, Call(c, r) PROVE IndInv'
  BY <1>1, InvCall
<1>2. ASSUME NEW c \in Clients, RLock(c) \/ Lock(c) \/ Proceeds(c) PROVE IndInv'
  BY <1>2, InvRLock, InvRead, InvRUnlock, InvLock, InvExamine, InvWrite,
     InvUnlock, InvReturn, InvCopy, InvRangeUnlock DEF Proceeds
<1>3. ASSUME NEW c \in Rangers,
             BeginRange(c) \/ RangeLock(c) \/ Visit(c) \/ Continue(c) \/ EndRange(c)
      PROVE  IndInv'
  BY <1>3, InvBeginRange, InvRangeLock, InvVisit, InvContinue, InvEndRange
<1>4. CASE UNCHANGED vars
  BY <1>4 DEF vars, locks, iteration, IndInv, TypeOK, LocksHeld, Reading, Writing,
     ShardOf, CallsInPlace, Examined, RangeInPlace
<1> QED
  BY <1>1, <1>2, <1>3, <1>4 DEF Next

\* The invariant always holds.
LEMMA Invariance == Spec => []IndInv
BY InvInit, InvStep, PTL DEF Spec

\* Every lock, local and entry has its type: only goroutines hold locks, and
\* only values are stored.
THEOREM TypeCorrect == Spec => []TypeOK
<1>1. IndInv => TypeOK
  BY DEF IndInv
<1> QED
  BY <1>1, Invariance, PTL

\* The locks keep a goroutine that writes a Go map apart from all others that
\* use it, whatever the calls and however they nest in the functions of Ranges.
THEOREM NoRaces == Spec => []NoMapRace
<1>1. IndInv => NoMapRace
  <2> SUFFICES ASSUME IndInv, NEW c \in Clients, NEW d \in Clients, c # d,
                      pc[c] = "write"
               PROVE  Uses(c) \cap Uses(d) = {}
    BY DEF NoMapRace
  <2>1. Uses(c) = {ShardOf(c)} /\ ShardOf(c) \in Shards /\ writer[ShardOf(c)] = c
    BY CallOf DEF Uses, IndInv, LocksHeld, Writing, CallsInPlace
  <2>2. readers[ShardOf(c)] = {}
    BY <2>1, MapAssumption DEF IndInv, LocksHeld
  <2>3. ~Reading(d, ShardOf(c)) /\ ~Writing(d, ShardOf(c))
    BY <2>1, <2>2 DEF IndInv, LocksHeld
  <2> QED
    BY <2>1, <2>3, SMT DEF Uses, Reading, Writing
<1> QED
  BY <1>1, Invariance, PTL

-----------------------------------------------------------------------------
(* Refinement.                                                             *)

\* A step of one client's call shows in that client's entries only.
LEMMA CallShows ==
    ASSUME NEW c \in Clients,
           \A d \in Clients \ {c} :
             pc'[d] = pc[d] /\ request'[d] = request[d] /\ old'[d] = old[d]
    PROVE  /\ status' = [status EXCEPT ![c] = StatusOf(c)']
           /\ reply' = [reply EXCEPT ![c] = ReplyOf(c)']
<1>1. \A d \in Clients \ {c} : StatusOf(d)' = StatusOf(d) /\ ReplyOf(d)' = ReplyOf(d)
  BY DEF StatusOf, ReplyOf, Effective, Missed, Blind
<1>2. status' = [d \in Clients |-> StatusOf(d)'] /\ reply' = [d \in Clients |-> ReplyOf(d)']
  BY DEF status, reply
<1> QED
  BY <1>1, <1>2 DEF status, reply

\* A step that leaves the iterations alone does not show in them.
LEMMA RangesSame ==
    ASSUME next' = next,
           \A d \in Clients : (pc[d] = "copied") <=> (pc'[d] = "copied")
    PROVE  ranging' = ranging /\ looked' = looked
<1>1. \A d \in Clients : LookedAt(d)' = LookedAt(d)
  BY DEF LookedAt, getShard
<1>2. looked' = [d \in Clients |-> LookedAt(d)']
  BY DEF looked
<1> QED
  BY <1>1, <1>2 DEF ranging, looked

\* A step of an iteration does not show in the calls, as long as the client
\* that takes it is in none.
LEMMA CallsSame ==
    ASSUME NEW c \in Clients, request' = request, old' = old,
           \A d \in Clients \ {c} : pc'[d] = pc[d],
           pc[c] \in {"idle", "copy", "copied"},
           pc'[c] \in {"idle", "copy", "copied"}
    PROVE  status' = status /\ reply' = reply
<1>1. \A d \in Clients : Effective(d)' = Effective(d)
  BY DEF Effective, Missed
<1>2. \A d \in Clients : StatusOf(d)' = StatusOf(d) /\ ReplyOf(d)' = ReplyOf(d)
  BY <1>1 DEF StatusOf, ReplyOf, Blind
<1> QED
  BY <1>2 DEF status, reply

\* A call is a call.
LEMMA RefCall ==
    ASSUME IndInv, NEW c \in Clients, NEW r \in Requests, Call(c, r)
    PROVE  Map!Call(c, r)
<1> USE DEF Call, Goto, FirstLock
<1>1. /\ pc'[c] \in {"rlock", "lock"} /\ request'[c] = r /\ r # Absent
      /\ request[c] = Absent
  BY MapAssumption DEF IndInv, TypeOK, CallsInPlace
<1>2. StatusOf(c) = "idle" /\ StatusOf(c)' = "called"
  BY <1>1 DEF StatusOf, Effective
<1>3. ReplyOf(c) = Absent /\ ReplyOf(c)' = Absent
  BY <1>1 DEF ReplyOf, Effective
<1>4. /\ status' = [status EXCEPT ![c] = "called"]
      /\ reply' = [reply EXCEPT ![c] = Absent]
  BY <1>2, <1>3, CallShows DEF IndInv, TypeOK
<1>5. ranging' = ranging /\ looked' = looked
  BY <1>1, RangesSame DEF IndInv, TypeOK, iteration
<1> QED
  BY <1>2, <1>3, <1>4, <1>5 DEF Map!Call, Map!iteration, iteration, status, reply, ranging

\* A step within a call that shows neither in its status nor in its reply.
LEMMA Stutters ==
    ASSUME IndInv, NEW c \in Clients, UNCHANGED <<m, request, iteration>>,
           \A d \in Clients \ {c} : pc'[d] = pc[d] /\ old'[d] = old[d],
           (pc[c] = "copied") <=> (pc'[c] = "copied"),
           StatusOf(c)' = StatusOf(c), ReplyOf(c)' = ReplyOf(c)
    PROVE  UNCHANGED Map!vars
<1>1. status' = status /\ reply' = reply
  BY CallShows DEF status, reply
<1>2. ranging' = ranging /\ looked' = looked
  BY RangesSame DEF iteration
<1> QED
  BY <1>1, <1>2 DEF Map!vars, Map!iteration, iteration

\* A step at which a call takes effect: it becomes "done", leaves its key what
\* the promise says and has found what is there.
LEMMA TakesEffect ==
    ASSUME IndInv, NEW c \in Clients, UNCHANGED <<request, iteration>>,
           \A d \in Clients \ {c} : pc'[d] = pc[d] /\ old'[d] = old[d],
           pc[c] \in {"read", "examine", "write"},
           pc'[c] \in {"runlock", "unlock"},
           pc'[c] = "runlock" => ~Missed(c)',
           m' = [m EXCEPT ![request[c].key] = Map!After(request[c], @)],
           ~Blind(request[c]) => old'[c] = m[request[c].key]
    PROVE  Map!TakeEffect(c)
<1>1. request[c] # Absent
  BY DEF IndInv, CallsInPlace
<1>2. request[c].op \in Ops
  BY <1>1, CallOf DEF IndInv
<1>3. StatusOf(c) = "called" /\ StatusOf(c)' = "done"
  BY <1>1 DEF StatusOf, Effective
<1>4. ReplyOf(c)' = Map!Reply(request[c], m[request[c].key])
  BY <1>2 DEF ReplyOf, Effective, Blind, Map!Reply
<1>5. /\ status' = [status EXCEPT ![c] = "done"]
      /\ reply' = [reply EXCEPT ![c] = Map!Reply(request[c], m[request[c].key])]
  BY <1>3, <1>4, CallShows
<1>6. ranging' = ranging /\ looked' = looked
  BY RangesSame DEF iteration
<1> QED
  BY <1>3, <1>5, <1>6 DEF Map!TakeEffect, Map!iteration, iteration, status

\* Waiting for and getting a lock does not show.
LEMMA RefLocks ==
    ASSUME IndInv, NEW c \in Clients, RLock(c) \/ Lock(c)
    PROVE  UNCHANGED Map!vars
<1> USE DEF RLock, Lock, Goto
<1>1. /\ pc[c] \in {"rlock", "lock"} /\ pc'[c] \in {"read", "write", "examine"}
      /\ UNCHANGED <<m, request, old, iteration>>
      /\ \A d \in Clients \ {c} : pc'[d] = pc[d]
  BY DEF IndInv, TypeOK
<1>2. StatusOf(c)' = StatusOf(c) /\ ReplyOf(c)' = ReplyOf(c)
  BY <1>1 DEF StatusOf, ReplyOf, Effective, Blind
<1> QED
  BY <1>1, <1>2, Stutters

\* A read is where Load takes effect, and LoadOrStore when it finds a value;
\* when it finds none it goes on.
LEMMA RefRead ==
    ASSUME IndInv, NEW c \in Clients, Read(c)
    PROVE  Map!TakeEffect(c) \/ UNCHANGED Map!vars
<1>1. /\ pc[c] = "read" /\ pc'[c] = "runlock" /\ old'[c] = m[request[c].key]
      /\ UNCHANGED <<m, request, iteration>>
      /\ \A d \in Clients \ {c} : pc'[d] = pc[d] /\ old'[d] = old[d]
  BY DEF Read, Goto, IndInv, TypeOK
<1>2. CASE Missed(c)'
  <2>1. StatusOf(c)' = StatusOf(c) /\ ReplyOf(c)' = ReplyOf(c)
    BY <1>1, <1>2 DEF StatusOf, ReplyOf, Effective
  <2> QED
    BY <1>1, <2>1, Stutters
<1>3. CASE ~Missed(c)'
  <2>1. request[c] # Absent /\ request[c].op \in {"Load", "LoadOrStore"}
    BY <1>1, SMT DEF IndInv, CallsInPlace, FirstLock
  <2>2. request[c].key \in Keys /\ m \in [Keys -> Slots]
    BY <2>1, CallOf DEF IndInv, TypeOK
  <2>3. Map!After(request[c], m[request[c].key]) = m[request[c].key]
    BY <1>1, <1>3, <2>1 DEF Map!After, Missed
  <2>4. m' = [m EXCEPT ![request[c].key] = Map!After(request[c], @)]
    BY <1>1, <2>2, <2>3
  <2> QED
    BY <1>1, <1>3, <2>4, TakesEffect
<1> QED
  BY <1>2, <1>3

\* Giving the read lock back does not show: a LoadOrStore that has found
\* nothing was not in effect and still is not.
LEMMA RefRUnlock ==
    ASSUME IndInv, NEW c \in Clients, RUnlock(c)
    PROVE  UNCHANGED Map!vars
<1>1. /\ pc[c] = "runlock" /\ pc'[c] = (IF Missed(c) THEN "lock" ELSE "done")
      /\ UNCHANGED <<m, request, old, iteration>>
      /\ \A d \in Clients \ {c} : pc'[d] = pc[d]
  BY DEF RUnlock, AfterLook, Goto, IndInv, TypeOK
<1>2. StatusOf(c)' = StatusOf(c) /\ ReplyOf(c)' = ReplyOf(c)
  BY <1>1 DEF StatusOf, ReplyOf, Effective, Missed, Blind
<1> QED
  BY <1>1, <1>2, Stutters

\* An entry that is not to be written is a call in effect.
LEMMA RefExamine ==
    ASSUME IndInv, NEW c \in Clients, Examine(c)
    PROVE  Map!TakeEffect(c) \/ UNCHANGED Map!vars
<1> DEFINE value == m[request[c].key]
<1>1. /\ pc[c] = "examine" /\ old'[c] = value
      /\ pc'[c] = (IF Writes(request[c], value) THEN "write" ELSE "unlock")
      /\ UNCHANGED <<m, request, iteration>>
      /\ \A d \in Clients \ {c} : pc'[d] = pc[d] /\ old'[d] = old[d]
  BY DEF Examine, Goto, IndInv, TypeOK
<1>2. CASE Writes(request[c], value)
  <2>1. StatusOf(c)' = StatusOf(c) /\ ReplyOf(c)' = ReplyOf(c)
    BY <1>1, <1>2 DEF StatusOf, ReplyOf, Effective
  <2> QED
    BY <1>1, <2>1, Stutters
<1>3. CASE ~Writes(request[c], value)
  <2>1. /\ request[c] # Absent
        /\ request[c].op \in {"LoadAndDelete", "LoadOrStore", "Update"}
    BY <1>1 DEF IndInv, CallsInPlace
  <2>2. request[c].key \in Keys /\ m \in [Keys -> Slots]
    BY <2>1, CallOf DEF IndInv, TypeOK
  <2>3. Map!After(request[c], value) = value
    BY <1>3, <2>1 DEF Map!After, Writes, Present
  <2>4. m' = [m EXCEPT ![request[c].key] = Map!After(request[c], @)]
    BY <1>1, <2>2, <2>3
  <2> QED
    BY <1>1, <1>3, <2>4, TakesEffect
<1> QED
  BY <1>2, <1>3

\* A write is a call in effect, because what it had examined is still so.
LEMMA RefWrite ==
    ASSUME IndInv, NEW c \in Clients, Write(c)
    PROVE  Map!TakeEffect(c)
<1> DEFINE value == m[request[c].key]
<1>1. /\ pc[c] = "write" /\ pc'[c] = "unlock"
      /\ m' = [m EXCEPT ![request[c].key] = Written(request[c], old[c])]
      /\ UNCHANGED <<request, old, iteration>>
      /\ \A d \in Clients \ {c} : pc'[d] = pc[d]
  BY DEF Write, Goto, IndInv, TypeOK
<1>2. request[c] # Absent /\ request[c].op # "Load" /\ Examined(c)
  BY <1>1 DEF IndInv, CallsInPlace
<1>3. request[c].key \in Keys /\ request[c].op \in Ops /\ m \in [Keys -> Slots]
  BY <1>2, CallOf DEF IndInv, TypeOK
<1>4. ~Blind(request[c]) => old[c] = value /\ Writes(request[c], value)
  BY <1>1, <1>2 DEF Examined
<1>5. Written(request[c], old[c]) = Map!After(request[c], value)
  BY <1>2, <1>3, <1>4 DEF Written, Map!After, Writes, Present, Blind
<1>6. m' = [m EXCEPT ![request[c].key] = Map!After(request[c], @)]
  BY <1>1, <1>3, <1>5
<1> QED
  BY <1>1, <1>4, <1>6, TakesEffect

\* Giving the lock back does not show.
LEMMA RefUnlock ==
    ASSUME IndInv, NEW c \in Clients, Unlock(c)
    PROVE  UNCHANGED Map!vars
<1>1. /\ pc[c] = "unlock" /\ pc'[c] = "done"
      /\ UNCHANGED <<m, request, old, iteration>>
      /\ \A d \in Clients \ {c} : pc'[d] = pc[d]
  BY DEF Unlock, Goto, IndInv, TypeOK
<1>2. StatusOf(c)' = StatusOf(c) /\ ReplyOf(c)' = ReplyOf(c)
  BY <1>1 DEF StatusOf, ReplyOf, Effective, Blind
<1> QED
  BY <1>1, <1>2, Stutters

\* A return is a return.
LEMMA RefReturn ==
    ASSUME IndInv, NEW c \in Clients, Return(c)
    PROVE  Map!Return(c)
<1> USE DEF Return, Goto
<1>1. /\ pc[c] = "done" /\ pc'[c] = "idle" /\ request'[c] = Absent
      /\ request[c] # Absent
  BY DEF IndInv, TypeOK, CallsInPlace
<1>2. StatusOf(c) = "done" /\ StatusOf(c)' = "idle" /\ ReplyOf(c)' = Absent
  BY <1>1 DEF StatusOf, ReplyOf, Effective
<1>3. /\ status' = [status EXCEPT ![c] = "idle"]
      /\ reply' = [reply EXCEPT ![c] = Absent]
  BY <1>2, CallShows DEF IndInv, TypeOK
<1>4. ranging' = ranging /\ looked' = looked
  BY <1>1, RangesSame DEF IndInv, TypeOK, iteration
<1> QED
  BY <1>2, <1>3, <1>4 DEF Map!Return, Map!iteration, iteration, status

\* An iteration of a client that is in no call does not show in the calls.
LEMMA Idle ==
    ASSUME IndInv, NEW c \in Clients, pc[c] \in {"idle", "copy", "copied"}
    PROVE  StatusOf(c) = "idle" /\ ReplyOf(c) = Absent
BY DEF IndInv, CallsInPlace, StatusOf, ReplyOf, Effective

\* What a Range has looked at is below its next shard, and with the copy the
\* next shard as well.
LEMMA Looked ==
    ASSUME NEW c \in Clients, next[c] # Absent
    PROVE  /\ pc[c] = "copied" =>
                LookedAt(c) = {k \in Keys : getShard(k) < next[c] \/ getShard(k) = next[c]}
           /\ pc[c] # "copied" => LookedAt(c) = {k \in Keys : getShard(k) < next[c]}
BY DEF LookedAt

\* A step of the iteration of one client shows in what that client looked at.
LEMMA LookShows ==
    ASSUME NEW c \in Clients,
           \A d \in Clients \ {c} : pc'[d] = pc[d] /\ next'[d] = next[d]
    PROVE  looked' = [looked EXCEPT ![c] = LookedAt(c)']
<1>1. \A d \in Clients \ {c} : LookedAt(d)' = LookedAt(d)
  BY DEF LookedAt, getShard
<1>2. looked' = [d \in Clients |-> LookedAt(d)']
  BY DEF looked
<1> QED
  BY <1>1, <1>2 DEF looked

\* A Range that begins has looked at nothing.
LEMMA RefBeginRange ==
    ASSUME IndInv, NEW c \in Rangers, BeginRange(c)
    PROVE  Map!BeginRange(c)
<1>0. c \in Clients
  BY MapAssumption
<1>1. /\ pc[c] = "idle" /\ next[c] = Absent /\ next'[c] = 0 /\ 0 # Absent
      /\ pc' = pc /\ request' = request /\ old' = old
      /\ \A d \in Clients \ {c} : next'[d] = next[d]
  BY <1>0, MapAssumption DEF BeginRange, IndInv, TypeOK
<1>2. status' = status /\ reply' = reply
  BY <1>0, <1>1, CallsSame
<1>3. LookedAt(c) = {}
  BY <1>1 DEF LookedAt
<1>4. LookedAt(c)' = {}
  <2>1. \A k \in Keys : getShard(k) \in Nat
    BY ShardOfKey
  <2>2. LookedAt(c)' = {k \in Keys : getShard(k) < 0}
    BY <1>1 DEF LookedAt, getShard
  <2> QED
    BY <2>1, <2>2
<1>5. looked' = looked
  <2>1. looked' = [looked EXCEPT ![c] = {}]
    BY <1>0, <1>1, <1>4, LookShows
  <2> QED
    BY <1>0, <1>3, <2>1 DEF looked
<1>6. ranging' = ranging \union {c}
  BY <1>0, <1>1 DEF ranging
<1> QED
  BY <1>0, <1>1, <1>2, <1>5, <1>6, Idle DEF Map!BeginRange, BeginRange, status, ranging

\* The lock of a shard does not show.
LEMMA RefRangeLock ==
    ASSUME IndInv, NEW c \in Rangers, RangeLock(c)
    PROVE  UNCHANGED Map!vars
<1>0. c \in Clients
  BY MapAssumption
<1>1. /\ pc[c] = "idle" /\ pc'[c] = "copy"
      /\ UNCHANGED <<m, request, old, iteration>>
      /\ \A d \in Clients \ {c} : pc'[d] = pc[d]
  BY <1>0 DEF RangeLock, Iterating, Goto, IndInv, TypeOK
<1>2. status' = status /\ reply' = reply
  BY <1>0, <1>1, CallsSame
<1>3. ranging' = ranging /\ looked' = looked
  BY <1>1, RangesSame DEF iteration
<1> QED
  BY <1>1, <1>2, <1>3 DEF Map!vars, Map!iteration, iteration

\* The copy is a look at all keys of a shard.
LEMMA RefCopy ==
    ASSUME IndInv, NEW c \in Clients, Copy(c)
    PROVE  Map!Look(c, KeysOfShard(next[c]))
<1> DEFINE ks == KeysOfShard(next[c])
<1>1. /\ pc[c] = "copy" /\ pc'[c] = "copied" /\ copies[c] = {} /\ copies'[c] = Pairs(ks)
      /\ next[c] \in Shards /\ c \notin visiting
      /\ copies' = [copies EXCEPT ![c] = Pairs(ks)]
      /\ UNCHANGED <<m, request, old, next, visiting>>
      /\ \A d \in Clients \ {c} : pc'[d] = pc[d]
  BY DEF Copy, Goto, IndInv, TypeOK, RangeInPlace
<1>2. next[c] # Absent /\ next[c] \in Nat
  BY <1>1, MapAssumption
<1>3. status' = status /\ reply' = reply
  BY <1>1, CallsSame
<1>4. LookedAt(c) = {k \in Keys : getShard(k) < next[c]}
  BY <1>1, <1>2, Looked
<1>5. LookedAt(c)' = LookedAt(c) \union ks
  <2>1. LookedAt(c)' = {k \in Keys : getShard(k) < next[c] \/ getShard(k) = next[c]}
    BY <1>1, <1>2 DEF LookedAt, getShard
  <2> QED
    BY <1>4, <2>1 DEF KeysOfShard
<1>6. ks \subseteq Keys \ LookedAt(c)
  BY <1>2, <1>4 DEF KeysOfShard
<1>7. looked' = [looked EXCEPT ![c] = LookedAt(c) \union ks]
  BY <1>1, <1>5, LookShows
<1>8. looked' = [looked EXCEPT ![c] = @ \union ks] /\ looked[c] = LookedAt(c)
  BY <1>7 DEF looked
<1>9. copies' = [copies EXCEPT ![c] = @ \union
          {<<k, m[k]>> : k \in {j \in ks : m[j] # Absent}}]
  BY <1>1 DEF IndInv, TypeOK, Pairs, Present
<1>10. ranging' = ranging /\ c \in ranging
  BY <1>1, <1>2 DEF ranging
<1> QED
  BY <1>1, <1>3, <1>6, <1>8, <1>9, <1>10 DEF Map!Look

\* After the copy the shard counts as looked at, with its lock and without it.
LEMMA RefRangeUnlock ==
    ASSUME IndInv, NEW c \in Clients, RangeUnlock(c)
    PROVE  UNCHANGED Map!vars
<1>1. /\ pc[c] = "copied" /\ pc'[c] = "idle" /\ next[c] \in Shards
      /\ next'[c] = next[c] + 1
      /\ UNCHANGED <<m, request, old, copies, visiting>>
      /\ \A d \in Clients \ {c} : pc'[d] = pc[d] /\ next'[d] = next[d]
  BY DEF RangeUnlock, Goto, IndInv, TypeOK, RangeInPlace
<1>2. next[c] # Absent /\ next'[c] # Absent /\ next[c] \in Nat
  BY <1>1, MapAssumption
<1>3. status' = status /\ reply' = reply
  BY <1>1, CallsSame
<1>4. LookedAt(c)' = LookedAt(c)
  <2>1. LookedAt(c)' = {k \in Keys : getShard(k) < next[c] + 1}
    BY <1>1, <1>2 DEF LookedAt, getShard
  <2>2. LookedAt(c) = {k \in Keys : getShard(k) < next[c] \/ getShard(k) = next[c]}
    BY <1>1, <1>2, Looked
  <2>3. \A k \in Keys : getShard(k) \in Nat
    BY ShardOfKey
  <2> QED
    BY <1>2, <2>1, <2>2, <2>3
<1>5. looked' = looked
  <2>1. looked' = [looked EXCEPT ![c] = LookedAt(c)]
    BY <1>1, <1>4, LookShows
  <2> QED
    BY <2>1 DEF looked
<1>6. ranging' = ranging
  BY <1>1, <1>2 DEF ranging
<1> QED
  BY <1>1, <1>3, <1>5, <1>6 DEF Map!vars, Map!iteration

\* A pair is handed over once, and the function may go on.
LEMMA RefVisits ==
    ASSUME IndInv, NEW c \in Rangers, Visit(c) \/ Continue(c)
    PROVE  (\E pair \in copies[c] : Map!Visit(c, pair)) \/ Map!Continue(c)
<1>0. c \in Clients
  BY MapAssumption
<1>1. /\ pc[c] = "idle" /\ next[c] # Absent
      /\ UNCHANGED <<m, pc, request, old, next>>
  BY DEF Visit, Continue, Iterating
<1>2. status' = status /\ reply' = reply
  BY <1>0, <1>1, CallsSame
<1>3. ranging' = ranging /\ looked' = looked /\ c \in ranging
  BY <1>0, <1>1, RangesSame DEF ranging
<1>4. status[c] = "idle"
  BY <1>0, <1>1, Idle DEF status
<1> QED
  BY <1>1, <1>2, <1>3, <1>4 DEF Visit, Continue, Map!Visit, Map!Continue

\* A Range ends when its function says so or when all shards were copied.
LEMMA RefEndRange ==
    ASSUME IndInv, NEW c \in Rangers, EndRange(c)
    PROVE  Map!EndRange(c)
<1>0. c \in Clients
  BY MapAssumption
<1>1. /\ pc[c] = "idle" /\ next[c] # Absent /\ next'[c] = Absent
      /\ UNCHANGED <<m, pc, request, old>>
      /\ \A d \in Clients \ {c} : next'[d] = next[d]
  BY <1>0 DEF EndRange, Iterating, IndInv, TypeOK
<1>2. status' = status /\ reply' = reply
  BY <1>0, <1>1, CallsSame
<1>3. ranging' = ranging \ {c} /\ c \in ranging
  BY <1>0, <1>1 DEF ranging
<1>4. looked' = [looked EXCEPT ![c] = {}]
  <2>1. LookedAt(c)' = {}
    BY <1>1 DEF LookedAt
  <2> QED
    BY <1>0, <1>1, <2>1, LookShows
<1>5. next[c] = numShards => looked[c] = Keys
  <2>1. \A k \in Keys : getShard(k) < numShards
    BY ShardOfKey
  <2>2. LookedAt(c) = {k \in Keys : getShard(k) < next[c]}
    BY <1>0, <1>1, Looked
  <2>3. next[c] = numShards => LookedAt(c) = Keys
    BY <2>1, <2>2
  <2> QED
    BY <1>0, <2>3 DEF looked
<1>6. status[c] = "idle"
  BY <1>0, <1>1, Idle DEF status
<1> QED
  BY <1>1, <1>2, <1>3, <1>4, <1>5, <1>6 DEF EndRange, Map!EndRange

\* The empty map is the empty map.
LEMMA RefInit == Init => Map!Init
<1> SUFFICES ASSUME Init PROVE Map!Init
  OBVIOUS
<1>1. \A c \in Clients :
        StatusOf(c) = "idle" /\ ReplyOf(c) = Absent /\ LookedAt(c) = {}
  BY DEF Init, StatusOf, ReplyOf, Effective, LookedAt
<1> QED
  BY <1>1 DEF Init, Map!Init, status, reply, ranging, looked

\* Every step is a step of the promise or does not show.
LEMMA RefStep == IndInv /\ [Next]_vars => [Map!Next]_(Map!vars)
<1> SUFFICES ASSUME IndInv, [Next]_vars PROVE Map!Next \/ UNCHANGED Map!vars
  OBVIOUS
<1>1. ASSUME NEW c \in Clients, NEW r \in Requests, Call(c, r) PROVE Map!Next
  BY <1>1, RefCall DEF Map!Next
<1>2. ASSUME NEW c \in Clients, RLock(c) \/ Lock(c) \/ Proceeds(c)
      PROVE  Map!Next \/ UNCHANGED Map!vars
  <2>1. CASE RLock(c) \/ Lock(c)
    BY <2>1, RefLocks
  <2>2. CASE Read(c) \/ Examine(c) \/ Write(c) \/ Return(c)
    BY <2>2, RefRead, RefExamine, RefWrite, RefReturn DEF Map!Next
  <2>3. CASE RUnlock(c) \/ Unlock(c) \/ RangeUnlock(c)
    BY <2>3, RefRUnlock, RefUnlock, RefRangeUnlock
  <2>4. CASE Copy(c)
    <3>1. c \in Rangers
      <4>1. next[c] \in Shards
        BY <2>4 DEF Copy, IndInv, RangeInPlace
      <4> QED
        BY <4>1, MapAssumption DEF IndInv, RangeInPlace
    <3>2. KeysOfShard(next[c]) \in SUBSET Keys
      BY DEF KeysOfShard
    <3> QED
      BY <2>4, <3>1, <3>2, RefCopy DEF Map!Next
  <2> QED
    BY <1>2, <2>1, <2>2, <2>3, <2>4 DEF Proceeds
<1>3. ASSUME NEW c \in Rangers,
             BeginRange(c) \/ RangeLock(c) \/ Visit(c) \/ Continue(c) \/ EndRange(c)
      PROVE  Map!Next \/ UNCHANGED Map!vars
  <2>1. CASE RangeLock(c)
    BY <2>1, RefRangeLock
  <2>2. CASE BeginRange(c) \/ EndRange(c)
    BY <2>2, RefBeginRange, RefEndRange DEF Map!Next
  <2>3. CASE Visit(c) \/ Continue(c)
    BY <2>3, RefVisits DEF Map!Next
  <2> QED
    BY <1>3, <2>1, <2>2, <2>3
<1>4. CASE UNCHANGED vars
  <2>1. UNCHANGED <<m, pc, request, old, next, copies, visiting>>
    BY <1>4 DEF vars, iteration
  <2>2. \A c \in Clients : StatusOf(c)' = StatusOf(c) /\ ReplyOf(c)' = ReplyOf(c)
    BY <2>1 DEF StatusOf, ReplyOf, Effective, Missed, Blind
  <2>3. \A c \in Clients : LookedAt(c)' = LookedAt(c)
    BY <2>1 DEF LookedAt, getShard
  <2> QED
    BY <2>1, <2>2, <2>3 DEF Map!vars, Map!iteration, status, reply, ranging, looked
<1> QED
  BY <1>1, <1>2, <1>3, <1>4 DEF Next

\* ShardedMap keeps the promise of the ConcurrentMap interface: every call is
\* atomic on its key, LoadOrStore with its two looks included, and a Range
\* looks at every key once and hands over each pair once, for any number of
\* goroutines, shards and keys and any calls.
THEOREM PromiseKept == Spec => ImplementsMap
<1>1. Spec => Map!Init /\ [][Map!Next]_(Map!vars)
  BY RefInit, RefStep, Invariance, PTL DEF Spec
<1> QED
  BY <1>1 DEF ImplementsMap, Map!Spec
=============================================================================
