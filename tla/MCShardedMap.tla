---------------------------- MODULE MCShardedMap ----------------------------
(* Two goroutines, one of which iterates, on three keys in two shards.      *)
EXTENDS ShardedMap, TLC

CONSTANTS c1, c2, v1, v2

\* The closure of cleanupProcesses, for v1, and one that fills a gap.
DropV1 == v1 :> Absent @@ v2 :> v2 @@ Absent :> Absent
Swap == v1 :> v2 @@ v2 :> v1 @@ Absent :> v1

Call1(op, key) == [op |-> op, key |-> key, arg |-> Absent]
Call2(op, key, arg) == [op |-> op, key |-> key, arg |-> arg]

MCRequests ==
    {Call1("Load", 0), Call1("Delete", 0), Call1("LoadAndDelete", 0),
     Call2("Store", 2, v1), Call2("LoadOrStore", 0, v1),
     Call2("LoadOrStore", 0, v2),
     Call2("Update", 0, DropV1), Call2("Update", 0, Swap),
     Call2("Store", 1, v1)}
=============================================================================
