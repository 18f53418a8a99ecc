----------------------------- MODULE MCReadPath -----------------------------
(* Instances of ReadPath.                                                    *)
EXTENDS ReadPath, TLC

CONSTANTS r1, r2, k1, k2
Threads == Permutations(Reader) \cup Permutations(Client)
=============================================================================
