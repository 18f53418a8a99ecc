--------------------------- MODULE MCRuntimeStore ---------------------------
(* Instances of RuntimeStore.  p1 and p2 implement c1, p3 implements c2, and *)
(* px implements c1 under a colliding name.                                  *)
EXTENDS StoreRefinement, TLC

CONSTANTS b1, b2, c1, c2, p1, p2, p3, px

MCContractIdOf == [p \in Plugin |-> IF p = p3 THEN c2 ELSE c1]
MCCanonicalName == [p \in Plugin |-> IF p = px THEN "other" ELSE "own"]
MCDependencySets == {{c1}}
Symmetry == Permutations(BundleId)
=============================================================================
