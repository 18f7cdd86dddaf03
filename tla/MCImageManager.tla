--------------------------- MODULE MCImageManager ---------------------------
(* Two images, one address in both ranges and one in the second only.       *)
EXTENDS ImageManager, TLC

CONSTANTS b1, b2, a1, a2, o1, o2, o3

TwoImages == {<<b1, a1>>, <<b2, a1>>, <<b2, a2>>}

SpareObjs == Permutations(Objs)
=============================================================================
