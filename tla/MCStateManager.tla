--------------------------- MODULE MCStateManager ---------------------------
(* Small instances of StateManager: a pid used by two processes in turn and *)
(* a process beside them, with events that are in order, or two processes   *)
(* on one pid with events that are lost, and late.                          *)
EXTENDS StateManager, TLC

CONSTANTS p1, p2, t1, o1, o2, o3, o4

OnePid == 2 :> p1 @@ 3 :> p1
TwoPids == 2 :> p1 @@ 3 :> p2 @@ 4 :> p1

Ordered == [procs |-> Keys, late |-> FALSE, lost |-> FALSE, scrapes |-> 3]
Hostile == [procs |-> {2, 4}, late |-> TRUE, lost |-> TRUE, scrapes |-> 2]

OrderedStream == {Ordered}
EveryStream == {Ordered, Hostile}

SpareObjs == Permutations(Objs \ {UnknownObj})
=============================================================================
