------------------------- MODULE MCBundleLifecycle -------------------------
(* Instances of BundleLifecycle: one plugin p1 that implements c1, and       *)
(* generations of width one, since no caller keeps a handle here.            *)
EXTENDS BundleLifecycle, TLC

CONSTANTS b1, b2, c1, p1, t1, t2, r1, r2

MCContractIdOf == [p \in Plugin |-> c1]
MCCanonicalName == [p \in Plugin |-> "own"]
NoDependencies == {{}}
SomeDependencies == {{}, {c1}}

\* One caller per bundle, or every caller for every bundle.
OwnBundle == [t \in Caller |-> IF t = t1 THEN {b1} ELSE {b2}]
AnyBundle == [t \in Caller |-> BundleId]

Readers == Permutations(Reader)
Callers == Permutations(Caller)
=============================================================================
