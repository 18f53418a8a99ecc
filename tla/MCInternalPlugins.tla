------------------------- MODULE MCInternalPlugins -------------------------
(* Instances of InternalPlugins.                                             *)
EXTENDS InternalPlugins, TLC

CONSTANTS b1, b2, t1, t2, u1, u2
Symmetric == Permutations(Thread) \cup Permutations(User)
=============================================================================
