------------------------------ MODULE Startup ------------------------------
(***************************************************************************)
(* RuntimeBuilder::build: the bundles found in the plugin directories are  *)
(* ordered by a graph of what they provide and require, their versions are *)
(* checked, and they are loaded, providers first.  The graph is discarded; *)
(* from then on dependencies are what Cascade walks.  A runtime may also   *)
(* be built empty and its bundles loaded one by one, which checks nothing: *)
(* those are the initial states of Cascade.                                *)
(*                                                                         *)
(* A version is <<>>, when the manifest gives none, or <<major, minor>>;   *)
(* a contract id is a contract's name and a major version.  An entry of    *)
(* `provides` is a contract's name and the version after its `@`, if any.  *)
(* Within one thread, nobody else has the runtime before build returns.    *)
(***************************************************************************)
EXTENDS Cascade

CONSTANTS
  Directories      \* for each entry of the plugin directories, the manifests it may hold

Version == {<<>>} \cup (Nat \X Nat)
Manifests == UNION {UNION Range(dir) : dir \in Directories}

ASSUME StartupAssumption ==
  /\ \A dir \in Directories : DOMAIN dir \subseteq BundleId
  /\ \A m \in Manifests :
       /\ m.name \in BundleId /\ m.version \in Version
       /\ \A spec \in m.provides : spec.version \in Version
       /\ \A dep \in m.dependencies : dep.min_version \in Version

VARIABLES
  entry,           \* the directory entry scan_dirs is at
  discovered,      \* the manifests found, and <<>> once build has returned
  compatibility,   \* of the builder, chosen when it first matters
  phase,           \* of build
  load_order       \* the bundles still to load

startup == <<entry, discovered, compatibility, phase, load_order>>
startupVars == <<vars, startup>>

StartupTypeOK ==
  /\ entry \in 1 .. 1 + Bundles
  /\ discovered \in Seq(Manifests) /\ Len(discovered) < entry
  /\ compatibility \in {"Strict", "Relaxed"}
  /\ phase \in {"scanning", "loading", "built", "failed"}
  /\ load_order \in Seq(BundleId) /\ Len(load_order) <= Len(discovered)

-----------------------------------------------------------------------------
Found == DOMAIN discovered

\* The version of a manifest without one: for the graph, and for the check.
BundleVersion(m) == IF m.version = <<>> THEN <<1, 0>> ELSE m.version
ManifestVersion(m) == IF m.version = <<>> THEN <<0, 0>> ELSE m.version

Provides(m, contract) == \E spec \in m.provides : spec.contract = contract

\* The version an entry pins inline is the one provided, or else the bundle's.
ProvidedVersion(m, spec) == IF spec.version = <<>> THEN BundleVersion(m) ELSE spec.version
ProvidedIds(m) == {<<spec.contract, ProvidedVersion(m, spec)[1]>> : spec \in m.provides}
\* A dependency's contract id is canonical: of its name and minimum version.
RequiredId(dep) == <<dep.contract, IF dep.min_version = <<>> THEN 0 ELSE dep.min_version[1]>>

Providers(id) == {i \in Found : id \in ProvidedIds(discovered[i])}

\* bundle_map and provides_map: of several manifests with a name, the last.
ManifestOf(b) == discovered[Max({i \in Found : discovered[i].name = b})]
Names == {discovered[i].name : i \in Found}

\* from_manifests: a dependency that names a bundle needs that bundle to be
\* found and to provide a contract of that name, in any version.
NamedBundleProvides(dep) ==
  dep.bundle # 0 => dep.bundle \in Names /\ Provides(ManifestOf(dep.bundle), dep.contract)
UnsatisfiedCapability ==
  \E i \in Found : \E dep \in discovered[i].dependencies :
    ~NamedBundleProvides(dep) \/ Providers(RequiredId(dep)) = {}

\* build_edges: requirer to provider.  Of several providers the last is taken,
\* for a dependency that names a bundle as well.
Edges ==
  [i \in BundleId |->
     IF i \notin Found THEN {}
     ELSE {Max(Providers(RequiredId(dep))) :
             dep \in {d \in discovered[i].dependencies : Providers(RequiredId(d)) # {}}}]

\* detect_cycles (tarjan_scc): two nodes that reach each other.
DependencyCycle(edges) ==
  LET reach == [i \in Found |-> Reach(edges, i)]
  IN  \E i, j \in Found : i # j /\ j \in reach[i] /\ i \in reach[j]

\* The orders toposort may return; it fails if a node is its own provider.
Toposort(edges) ==
  {s \in Bijection(Found, Found) : \A m, n \in Found : s[n] \in edges[s[m]] => m < n}

\* Faulty variant: requirers first.
RequirersFirst(s) == [n \in Found |-> discovered[s[n]].name]
\* topological_order turns toposort's order around.
TopologicalOrder(s) == [n \in Found |-> discovered[s[Len(discovered) + 1 - n]].name]

\* Faulty variant: the first provider.
FirstByName(contract) ==
  discovered[Min({i \in Found : Provides(discovered[i], contract)})]
\* provider_map of validate_bundle_compatibility, by the bare name: the last.
\* Its bundle version is compared, whatever its entry pins.
ProviderByName(contract) ==
  discovered[Max({i \in Found : Provides(discovered[i], contract)})]

IsCompatibleWith(provided, required) ==
  provided[1] = required[1] /\ provided[2] >= required[2]

VersionMismatch ==
  \E i \in Found : \E dep \in discovered[i].dependencies :
    /\ dep.min_version # <<>> /\ \E j \in Found : Provides(discovered[j], dep.contract)
    /\ ~IsCompatibleWith(ManifestVersion(ProviderByName(dep.contract)), dep.min_version)

-----------------------------------------------------------------------------
\* scan_dirs, at an entry that holds a bundle.
ScanFinds ==
  /\ phase = "scanning"
  /\ \E dir \in Directories :
       /\ entry \in DOMAIN dir /\ \A i \in Found : discovered[i] \in UNION Range(dir)
       /\ \E m \in dir[entry] : discovered' = Append(discovered, m)
  /\ entry' = entry + 1
  /\ UNCHANGED <<compatibility, phase, load_order, vars>>

\* At one that does not, or whose manifest is unreadable: a diagnostic, no more.
ScanSkips ==
  /\ phase = "scanning" /\ entry <= Bundles
  /\ entry' = entry + 1
  /\ UNCHANGED <<discovered, compatibility, phase, load_order, vars>>

Scanned == phase = "scanning" /\ entry > Bundles

\* build returns an error; the runtime is dropped with what it had loaded.
Fail ==
  /\ phase' = "failed" /\ entry' = 1 /\ discovered' = <<>> /\ load_order' = <<>>
  /\ loaded' = {}
  /\ UNCHANGED <<compatibility, rigid, call, stack, visited, order, failed, outcome, calls>>

\* from_manifests, validate_bundle_compatibility or topological_order fails.
Refused(mode) ==
  \/ UnsatisfiedCapability
  \/ LET edges == Edges IN DependencyCycle(edges) \/ Toposort(edges) = {}
  \/ mode = "Strict" /\ VersionMismatch
BuildRefused == Scanned /\ Refused("Strict") /\ Fail

BuildOrders(mode) ==
  /\ Scanned /\ ~Refused(mode)
  /\ LET edges == Edges IN \E s \in Toposort(edges) : load_order' = TopologicalOrder(s)
  /\ compatibility' = mode
  /\ phase' = "loading"
  /\ UNCHANGED <<entry, discovered, vars>>

\* load_manifest_with_source, for the next bundle.
BuildLoads ==
  /\ phase = "loading" /\ load_order # <<>> /\ Head(load_order) \notin loaded
  /\ loaded' = loaded \cup {Head(load_order)}
  /\ load_order' = Tail(load_order)
  /\ UNCHANGED <<entry, discovered, compatibility, phase, rigid, call, stack, visited, order, failed, outcome, calls>>

\* The loader, the signature or the commit fails, or a bundle of the name is
\* registered already.
BuildLoadFails ==
  /\ phase = "loading" /\ load_order # <<>>
  /\ Fail

\* build returns the runtime.  A bundle depends on every bundle that exports
\* one of the contracts it declared (bundles_depending_on_any).
BuildReturns ==
  /\ phase = "loading" /\ load_order = <<>>
  /\ phase' = "built" /\ entry' = 1 /\ discovered' = <<>> /\ compatibility' = "Relaxed"
  /\ depends' = [b \in BundleId |->
       {p \in loaded \ {b} : b \in loaded /\ \E dep \in ManifestOf(b).dependencies :
          RequiredId(dep) \in ProvidedIds(ManifestOf(p))}]
  /\ reinit' \in SUBSET loaded
  /\ UNCHANGED <<load_order, foreign, loaded, call, stack, visited, order, failed, outcome, calls>>

-----------------------------------------------------------------------------
Unused ==
  /\ depends = [b \in BundleId |-> {}] /\ reinit = {} /\ foreign = {}
  /\ call = [kind |-> "none", target |-> 1, found |-> {}]
  /\ stack = <<>> /\ visited = {} /\ order = <<>> /\ failed = {}
  /\ outcome = [kind |-> "none", target |-> 1, found |-> {}, result |-> "none"]
  /\ calls = 0

StartupInit ==
  /\ entry = 1 /\ discovered = <<>> /\ load_order = <<>> /\ compatibility = "Relaxed"
  /\ \/ Unused /\ loaded = {} /\ phase = "scanning"
     \/ Init /\ phase = "built"

StartupNext ==
  \/ ScanFinds \/ ScanSkips \/ BuildRefused \/ (\E mode \in {"Strict", "Relaxed"} : BuildOrders(mode)) \/ BuildLoads \/ BuildLoadFails \/ BuildReturns
  \/ phase = "built" /\ Next /\ UNCHANGED startup

\* The calling thread goes on with the call it is in.
StartupSpec == StartupInit /\ [][StartupNext]_startupVars /\ WF_vars(Step)

-----------------------------------------------------------------------------
\* No two bundles found have a name in common; build fails on such a pair, but
\* may first load the second in the place of the first.
DistinctNames == Cardinality(Names) = Len(discovered)

\* Whenever a bundle is initialised during start-up, a bundle that provides each
\* contract it requires is loaded already ("Dispatch each bundle to its loader in
\* topo order", "providers first", build).
ProvidersFirst ==
  phase = "loading" /\ DistinctNames =>
    \A b \in loaded : \A dep \in ManifestOf(b).dependencies :
      \E p \in loaded : RequiredId(dep) \in ProvidedIds(ManifestOf(p))

\* The manifest gives a version of its own to what it provides of a contract.
Pinned(m, contract) == \A spec \in m.provides : spec.contract = contract => spec.version # <<>>

\* In a strict build a bundle that provides each contract a bundle requires, in
\* a version that meets the minimum, is loaded before it, although the order and
\* the check choose providers by different keys and defaults ("Strict: returns
\* Err on any mismatch", validate_bundle_compatibility).  The exception is a
\* contract whose last provider pins it inline: the check compares that bundle's
\* version and the order takes the pinned one.
StrictHonoured ==
  phase = "loading" /\ DistinctNames /\ compatibility = "Strict" =>
    \A b \in loaded : \A dep \in {d \in ManifestOf(b).dependencies : d.min_version # <<>>} :
      \/ \E p \in loaded : \E spec \in ManifestOf(p).provides :
           LET provided == ProvidedVersion(ManifestOf(p), spec)
           IN  /\ spec.contract = dep.contract
               /\ provided[1] = dep.min_version[1] /\ provided[2] >= dep.min_version[2]
      \/ \E i \in Found :
           /\ Provides(discovered[i], dep.contract) /\ Pinned(discovered[i], dep.contract)
           /\ \A j \in Found : Provides(discovered[j], dep.contract) => j <= i

\* Not guaranteed, see the README: a bundle that is required by name is loaded
\* before the bundle that names it
\* ("Bundles with no dependencies load first", topological_order).
NamedBundleFirst ==
  phase = "loading" /\ DistinctNames =>
    \A b \in loaded : \A dep \in ManifestOf(b).dependencies :
      dep.bundle # 0 => dep.bundle \in loaded

-----------------------------------------------------------------------------
(***************************************************************************)
(* The inductive invariant of the proofs.                                  *)
(***************************************************************************)

\* Nobody calls into a runtime that build has not returned.
BuildAlone == phase # "built" => Unused /\ (phase # "loading" => loaded = {})

\* What is loaded and what is still to load are an order of toposort's, turned
\* around, over manifests that passed the checks.
LoadsInOrder ==
  phase = "loading" =>
    /\ ~UnsatisfiedCapability
    /\ compatibility = "Strict" => ~VersionMismatch
    /\ \E s \in Toposort(Edges) :
         LET done == Len(discovered) - Len(load_order)
         IN  /\ \A n \in 1 .. Len(load_order) : load_order[n] = TopologicalOrder(s)[done + n]
             /\ loaded = {TopologicalOrder(s)[n] : n \in 1 .. done}

StartupInv == WalkInv /\ StartupTypeOK /\ BuildAlone /\ LoadsInOrder
=============================================================================
