-------------------------- MODULE MCHostContracts --------------------------
(* Instances of HostContracts with InitStack: one host contract with a       *)
(* singleton and a multi-instance interface.  Threads, bundles and guest     *)
(* contracts are interchangeable.                                            *)
EXTENDS HostContracts, TLC

CONSTANTS h1, i1, i2
Contracts == i1 :> h1 @@ i2 :> h1
Symmetry == Permutations(Thread) \cup Permutations(Bundle) \cup Permutations(Contract)
=============================================================================
