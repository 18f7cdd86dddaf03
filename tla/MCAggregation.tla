---------------------------- MODULE MCAggregation ---------------------------
(* Two processes of one program, one of which hosts two services; an object  *)
(* for each, so that it is taken again only when its owner is cleaned up.    *)
EXTENDS Aggregation, TLC

CONSTANTS sys, a, b, nobody

MCProgramOf == (sys :> "System") @@ (nobody :> "unknown_process")
               @@ (a :> "svchost") @@ (b :> "svchost")
MCTagsOf(tags) == [p \in {sys, a, b} |-> IF p = a THEN tags ELSE {}]
MCTags == MCTagsOf(Tags)
Workload(e, t, n, s) ==
    [events |-> e, tags |-> t, threads |-> n, scrapes |-> s]
MCWorkloads == {Workload(2, 0, 0, 2), Workload(0, 2, 1, 2),
                Workload(1, 0, 1, 1), Workload(1, 0, 0, 3)}
Identical == Permutations(Objs) \union Permutations(Maps)
=============================================================================
