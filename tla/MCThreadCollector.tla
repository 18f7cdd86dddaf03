-------------------------- MODULE MCThreadCollector -------------------------
(* Two CPUs and two scrapes, which may overlap.                              *)
EXTENDS ThreadCollector, TLC

Identical == Permutations(Scrapers)
=============================================================================
