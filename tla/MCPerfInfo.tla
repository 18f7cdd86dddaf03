----------------------------- MODULE MCPerfInfo -----------------------------
(* Two instances of PerfInfo for TLC: ISRs and DPCs with two scrapes that    *)
(* may overlap, and the DPCs of a driver that is unloaded, over the three    *)
(* scrapes that a buffer takes to come back from the pool and be merged.     *)
EXTENDS PerfInfo, TLC

CONSTANTS d1

MCWorkloads ==
    {[isrs |-> 2, dpcs |-> 3, scrapes |-> 2, atOnce |-> 2, drivers |-> {None}],
     [isrs |-> 0, dpcs |-> 2, scrapes |-> 3, atOnce |-> 1, drivers |-> {d1}]}

Symmetry ==
    Permutations(CPUs) \union Permutations(Buffers) \union Permutations(Scrapers)
=============================================================================
