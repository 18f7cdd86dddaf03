----------------------------- MODULE ShardedMap -----------------------------
(***************************************************************************)
(* ShardedMap (src/internal/maps/sharded_map.go): an array of Go maps,     *)
(* each with a sync.RWMutex, used by any number of goroutines.  A Go map   *)
(* must not be written while it is used, so that taking a lock, reading,   *)
(* writing and releasing are steps of their own.  Implements               *)
(* ConcurrentMap.                                                          *)
(***************************************************************************)
EXTENDS Naturals

CONSTANTS
    Keys,
    Values,
    Clients,    \* goroutines
    Rangers,    \* those of them that call Range
    Requests,   \* the other calls that they make
    numShards,
    Absent      \* no value, no request

Shards == 0 .. numShards - 1
Slots == Values \union {Absent}
Ops == {"Load", "Store", "Delete", "LoadAndDelete", "LoadOrStore", "Update"}

ASSUME MapAssumption ==
    /\ numShards \in Nat \ {0} /\ Keys \subseteq Nat
    /\ Rangers \subseteq Clients
    /\ Absent \notin Values \union Clients \union Requests \union Nat
    /\ \A r \in Requests :
         /\ r.op \in Ops /\ r.key \in Keys
         /\ r.op \in {"Store", "LoadOrStore"} => r.arg \in Values
         /\ r.op = "Update" => r.arg \in [Slots -> Slots]

VARIABLES
    m,         \* key -> value, the maps of all shards
    writer,    \* shard -> the client that holds Lock
    readers,   \* shard -> the clients that hold RLock
    pc,        \* client -> where it is
    request,   \* client -> its call
    old,       \* client -> the value it has read, a local
    next,      \* client -> the shard its Range comes to next
    copies,    \* client -> keys and values, the copies of its Range
    visiting   \* the clients whose Range is in a call of its function

locks == <<writer, readers>>
iteration == <<next, copies, visiting>>
vars == <<m, locks, pc, request, old, iteration>>

Init ==
    /\ m = [k \in Keys |-> Absent]
    /\ writer = [s \in Shards |-> Absent]
    /\ readers = [s \in Shards |-> {}]
    /\ pc = [c \in Clients |-> "idle"]
    /\ request = [c \in Clients |-> Absent]
    /\ old = [c \in Clients |-> Absent]
    /\ next = [c \in Clients |-> Absent]
    /\ copies = [c \in Clients |-> {}]
    /\ visiting = {}

-----------------------------------------------------------------------------
(* Locks.                                                                  *)

\* numShards is a power of two: the bitwise AND is a remainder.
getShard(key) == key % numShards
ShardOf(c) == getShard(request[c].key)

Goto(c, label) == pc' = [pc EXCEPT ![c] = label]

TakeLock(c, s) ==
    /\ writer[s] = Absent /\ readers[s] = {}
    /\ writer' = [writer EXCEPT ![s] = c] /\ UNCHANGED readers
ReleaseLock(s) ==
    writer' = [writer EXCEPT ![s] = Absent] /\ UNCHANGED readers
TakeRLock(c, s) ==
    /\ writer[s] = Absent
    /\ readers' = [readers EXCEPT ![s] = @ \union {c}] /\ UNCHANGED writer
ReleaseRLock(c, s) ==
    readers' = [readers EXCEPT ![s] = @ \ {c}] /\ UNCHANGED writer

-----------------------------------------------------------------------------
(* Calls on one key.                                                       *)

\* Load, and the first look of LoadOrStore, share the lock.
FirstLock(r) == IF r.op \in {"Load", "LoadOrStore"} THEN "rlock" ELSE "lock"

\* From outside a Range, or from its function.
Call(c, r) ==
    /\ pc[c] = "idle" /\ (next[c] # Absent => c \in visiting)
    /\ request' = [request EXCEPT ![c] = r]
    /\ Goto(c, FirstLock(r))
    /\ UNCHANGED <<m, locks, old, iteration>>

RLock(c) ==
    /\ pc[c] = "rlock" /\ TakeRLock(c, ShardOf(c))
    /\ Goto(c, "read")
    /\ UNCHANGED <<m, request, old, iteration>>

Read(c) ==
    /\ pc[c] = "read"
    /\ old' = [old EXCEPT ![c] = m[request[c].key]]
    /\ Goto(c, "runlock")
    /\ UNCHANGED <<m, locks, request, iteration>>

\* LoadOrStore tries again, with the lock, what it has not found.
Missed(c) == request[c].op = "LoadOrStore" /\ old[c] = Absent
AfterLook_Unlocked(c) == IF Missed(c) THEN "write" ELSE "done"   \* mutant
AfterLook_Waits(c) == IF Missed(c) THEN "rlock" ELSE "done"   \* mutant
AfterLook(c) == IF Missed(c) THEN "lock" ELSE "done"

RUnlock(c) ==
    /\ pc[c] = "runlock" /\ ReleaseRLock(c, ShardOf(c))
    /\ Goto(c, AfterLook(c))
    /\ UNCHANGED <<m, request, old, iteration>>

\* Store and Delete do not look at what there is.
Blind(r) == r.op \in {"Store", "Delete"}

Lock(c) ==
    /\ pc[c] = "lock" /\ TakeLock(c, ShardOf(c))
    /\ Goto(c, IF Blind(request[c]) THEN "write" ELSE "examine")
    /\ UNCHANGED <<m, request, old, iteration>>

Present(value) == value # Absent
Writes_NoDoubleCheck(r, value) ==   \* mutant: what the read lock showed stands
    CASE r.op = "LoadAndDelete" -> Present(value)
      [] r.op = "Update" -> Present(r.arg[value]) \/ Present(value)
      [] OTHER -> TRUE
Writes(r, value) ==
    CASE r.op = "LoadOrStore" -> ~Present(value)
      [] r.op = "LoadAndDelete" -> Present(value)
      [] r.op = "Update" -> Present(r.arg[value]) \/ Present(value)
      [] OTHER -> TRUE

Examine(c) ==
    /\ pc[c] = "examine"
    /\ LET value == m[request[c].key]
       IN  /\ old' = [old EXCEPT ![c] = value]
           /\ Goto(c, IF Writes(request[c], value) THEN "write" ELSE "unlock")
    /\ UNCHANGED <<m, locks, request, iteration>>

\* What the call stores, or Absent where it deletes.
Written(r, value) ==
    CASE r.op \in {"Store", "LoadOrStore"} -> r.arg
      [] r.op = "Update" -> r.arg[value]
      [] OTHER -> Absent

Write(c) ==
    /\ pc[c] = "write"
    /\ m' = [m EXCEPT ![request[c].key] = Written(request[c], old[c])]
    /\ Goto(c, "unlock")
    /\ UNCHANGED <<locks, request, old, iteration>>

Unlock(c) ==
    /\ pc[c] = "unlock" /\ ReleaseLock(ShardOf(c))
    /\ Goto(c, "done")
    /\ UNCHANGED <<m, request, old, iteration>>

Return(c) ==
    /\ pc[c] = "done"
    /\ request' = [request EXCEPT ![c] = Absent]
    /\ old' = [old EXCEPT ![c] = Absent]
    /\ Goto(c, "idle")
    /\ UNCHANGED <<m, locks, iteration>>

-----------------------------------------------------------------------------
(* Range.                                                                  *)

Iterating(c) == pc[c] = "idle" /\ next[c] # Absent

BeginRange(c) ==
    /\ pc[c] = "idle" /\ next[c] = Absent
    /\ next' = [next EXCEPT ![c] = 0]
    /\ UNCHANGED <<m, locks, pc, request, old, copies, visiting>>

RangeLock(c) ==
    /\ Iterating(c) /\ c \notin visiting
    /\ next[c] < numShards /\ copies[c] = {}
    /\ TakeRLock(c, next[c])
    /\ Goto(c, "copy")
    /\ UNCHANGED <<m, request, old, iteration>>

KeysOfShard(s) == {k \in Keys : getShard(k) = s}
Pairs(ks) == {<<k, m[k]>> : k \in {j \in ks : Present(m[j])}}

Copy(c) ==
    /\ pc[c] = "copy"
    /\ copies' = [copies EXCEPT ![c] = Pairs(KeysOfShard(next[c]))]
    /\ Goto(c, "copied")
    /\ UNCHANGED <<m, locks, request, old, next, visiting>>

RangeUnlock(c) ==
    /\ pc[c] = "copied" /\ ReleaseRLock(c, next[c])
    /\ next' = [next EXCEPT ![c] = @ + 1]
    /\ Goto(c, "idle")
    /\ UNCHANGED <<m, request, old, copies, visiting>>

\* Without the lock, so that the function may use the map.
Visit(c) ==
    /\ Iterating(c) /\ c \notin visiting
    /\ \E pair \in copies[c] : copies' = [copies EXCEPT ![c] = @ \ {pair}]
    /\ visiting' = visiting \union {c}
    /\ UNCHANGED <<m, locks, pc, request, old, next>>

Continue(c) ==
    /\ Iterating(c) /\ c \in visiting
    /\ visiting' = visiting \ {c}
    /\ UNCHANGED <<m, locks, pc, request, old, next, copies>>

EndRange(c) ==
    /\ Iterating(c)
    /\ c \in visiting \/ (next[c] = numShards /\ copies[c] = {})
    /\ next' = [next EXCEPT ![c] = Absent]
    /\ copies' = [copies EXCEPT ![c] = {}]
    /\ visiting' = visiting \ {c}
    /\ UNCHANGED <<m, locks, pc, request, old>>

-----------------------------------------------------------------------------
Acquires(c) == RLock(c) \/ Lock(c) \/ RangeLock(c)
Proceeds(c) ==
    \/ Read(c) \/ RUnlock(c) \/ Examine(c) \/ Write(c) \/ Unlock(c)
    \/ Return(c) \/ Copy(c) \/ RangeUnlock(c)

Next ==
    \/ \E c \in Clients :
        \/ \E r \in Requests : Call(c, r)
        \/ RLock(c) \/ Lock(c) \/ Proceeds(c)
    \/ \E c \in Rangers :
        BeginRange(c) \/ RangeLock(c) \/ Visit(c) \/ Continue(c) \/ EndRange(c)

\* Go runs every goroutine that can run, and its RWMutex, which lets no new
\* reader pass a waiting writer and hands over in turn, starves nobody.
Fairness == \A c \in Clients : WF_vars(Proceeds(c)) /\ SF_vars(Acquires(c))

Spec == Init /\ [][Next]_vars /\ Fairness

-----------------------------------------------------------------------------
(* Properties.                                                             *)

Labels == {"idle", "rlock", "read", "runlock", "lock", "examine", "write",
           "unlock", "done", "copy", "copied"}

TypeOK ==
    /\ m \in [Keys -> Slots]
    /\ writer \in [Shards -> Clients \union {Absent}]
    /\ readers \in [Shards -> SUBSET Clients]
    /\ pc \in [Clients -> Labels]
    /\ request \in [Clients -> Requests \union {Absent}]
    /\ old \in [Clients -> Slots]
    /\ next \in [Clients -> 0 .. numShards \union {Absent}]
    /\ copies \in [Clients -> SUBSET (Keys \X Values)]
    /\ visiting \subseteq Clients

\* The shard whose Go map a client is using.
Uses(c) ==
    CASE pc[c] \in {"read", "examine", "write"} -> {ShardOf(c)}
      [] pc[c] = "copy" -> {next[c]}
      [] OTHER -> {}

\* No Go map is written while another goroutine reads or writes it, which
\* would end the program ("concurrent map read and map write").
NoMapRace ==
    \A c, d \in Clients : c # d /\ pc[c] = "write" => Uses(c) \cap Uses(d) = {}

\* The call has taken effect.
Effective(c) ==
    pc[c] \in {"runlock", "unlock", "done"} /\ ~(pc[c] = "runlock" /\ Missed(c))

StatusOf(c) ==
    CASE request[c] = Absent -> "idle"
      [] Effective(c) -> "done"
      [] OTHER -> "called"

ReplyOf(c) ==
    IF Effective(c) /\ ~Blind(request[c]) THEN old[c] ELSE Absent

\* A shard counts from the copy on.
LookedAt(c) ==
    IF next[c] = Absent THEN {}
    ELSE {k \in Keys : getShard(k) < next[c]
                       \/ (pc[c] = "copied" /\ getShard(k) = next[c])}

status == [c \in Clients |-> StatusOf(c)]
reply == [c \in Clients |-> ReplyOf(c)]
ranging == {c \in Clients : next[c] # Absent}
looked == [c \in Clients |-> LookedAt(c)]

Map == INSTANCE ConcurrentMap WITH contents <- m, found <- copies

\* Every call is atomic on its key and tells the truth about what it found,
\* LoadOrStore with its two looks included, and a Range hands over each key
\* at most once and misses none that stays (the contract in maps.go).
ImplementsMap == Map!Spec

\* Nobody waits for a lock for ever, though functions of a Range call the map
\* that is being iterated ("To prevent deadlocks, it does not hold the lock
\* while calling the function").
EveryCallReturns ==
    \A c \in Clients : request[c] # Absent ~> request[c] = Absent
=============================================================================
