-------------------------- MODULE MCPythonModules --------------------------
(* Instances of PythonModules.                                               *)
EXTENDS PythonModules, TLC

CONSTANTS r1, r2, b1, b2, m1, m2
Symmetric == Permutations(Runtime) \cup Permutations(Bundle) \cup Permutations(Name)
=============================================================================
