--------------------------- MODULE PythonModules ---------------------------
(***************************************************************************)
(* Python bundles of all runtimes of a process share one interpreter and   *)
(* its sys.modules, and import their packages under the same names.  The   *)
(* Python loader keeps them apart: under a process-wide lock it snapshots  *)
(* sys.modules, runs the bundle and moves what the bundle imported to keys *)
(* with a prefix of its own, which unload deletes.                         *)
(*                                                                         *)
(* Each runtime loads and unloads from one thread; the interpreter gives   *)
(* the GIL up during imports, so their steps interleave.  A module object  *)
(* is the directory it came from and the load that imported it.            *)
(***************************************************************************)
EXTENDS Integers, Sequences

CONSTANTS
  Runtime,
  Bundle,         \* bundle directories
  Name,           \* module names that every bundle ships and imports
  None,           \* no module under a name
  MaxLoads        \* bound: loads in a behaviour

Nobody == 0
Load == 1 .. MaxLoads
Module == [dir : Bundle, load : Load]

ASSUME PythonModulesAssumption ==
  MaxLoads \in Nat /\ None \notin Module

VARIABLES
  sys_modules,      \* the modules under their own names, None where there is none
  isolated,         \* the modules under a prefix: [prefix, name, module]
  sys_path,         \* the bundle directories inserted, latest first
  load_lock,        \* the load that holds PYTHON_LOAD_LOCK
  loading,          \* what each runtime is doing
  module_prefixes,  \* per runtime and bundle, the prefixes of its loads
  loads,            \* number of loads; the isolation nonce
  imported,         \* the modules each load's code was given: [load, name, module]
  failed            \* the loads that returned an error

vars == <<sys_modules, isolated, sys_path, load_lock, loading, module_prefixes, loads,
          imported, failed>>

NoLoad == [phase |-> "none"]
Loading == [phase : {"waiting", "running"}, bundle : Bundle, load : Load,
            before : SUBSET Name, todo : SUBSET Name]

TypeOK ==
  /\ sys_modules \in [Name -> Module \cup {None}]
  /\ \A m \in isolated : m.prefix \in Load /\ m.name \in Name /\ m.module \in Module
  /\ sys_path \in Seq(Bundle)
  /\ load_lock \in Load \cup {Nobody}
  /\ loading \in [Runtime -> Loading \cup {NoLoad}]
  /\ module_prefixes \in [Runtime -> [Bundle -> SUBSET Load]]
  /\ loads \in 0 .. MaxLoads
  /\ imported \subseteq [load : Load, name : Name, module : Module]
  /\ failed \subseteq Load

-----------------------------------------------------------------------------
Loaded(r, b) == module_prefixes[r][b] # {}
Running(r) == loading[r].phase = "running"

\* load, up to the load lock; the runtime refuses a bundle it has.
BeginLoad(r, b) ==
  /\ loading[r] = NoLoad /\ ~Loaded(r, b) /\ loads < MaxLoads
  /\ loads' = loads + 1
  /\ loading' = [loading EXCEPT ![r] =
       [phase |-> "waiting", bundle |-> b, load |-> loads + 1, before |-> {}, todo |-> Name]]
  /\ UNCHANGED <<sys_modules, isolated, sys_path, load_lock, module_prefixes, imported, failed>>

\* Faulty variant: no lock.
NoLock(l) == UNCHANGED load_lock
\* acquire_load_lock.
AcquireLoadLock(l) == load_lock = Nobody /\ load_lock' = l

\* sys.path gets the bundle's directory, sys.modules is snapshot.
Prepare(r) ==
  /\ loading[r].phase = "waiting"
  /\ AcquireLoadLock(loading[r].load)
  /\ sys_path' = <<loading[r].bundle>> \o sys_path
  /\ loading' = [loading EXCEPT ![r].phase = "running",
                                ![r].before = {n \in Name : sys_modules[n] # None}]
  /\ UNCHANGED <<sys_modules, isolated, module_prefixes, loads, imported, failed>>

\* An import statement: the module of that name, or a new one from the first
\* directory on sys.path.
ImportModule(n, l) ==
  LET m == IF sys_modules[n] # None THEN sys_modules[n] ELSE [dir |-> sys_path[1], load |-> l]
  IN  /\ sys_modules' = [sys_modules EXCEPT ![n] = m]
      /\ imported' = imported \cup {[load |-> l, name |-> n, module |-> m]}

\* The bundle's code and its polyplug_init import what they ship.
Import(r, n) ==
  /\ Running(r) /\ n \in loading[r].todo
  /\ ImportModule(n, loading[r].load)
  /\ loading' = [loading EXCEPT ![r].todo = @ \ {n}]
  /\ UNCHANGED <<isolated, sys_path, load_lock, module_prefixes, loads, failed>>

\* Faulty variant: the bundle's id alone.
PrefixById(b, l) == CHOOSE k \in Load : \A r \in Runtime : \A j \in module_prefixes[r][b] \cup {l} : k <= j
\* next_isolation_prefix: the bundle's id and a nonce of the process.
IsolationPrefix(b, l) == l

\* isolate deletes the names it moved.
IsolateMoves(moved, b) == [n \in Name |-> IF n \in moved THEN None ELSE sys_modules[n]]

\* isolate_bundle_modules moves the names new since the snapshot and found under
\* the bundle's directory; the lock is released and the prefix is tracked.
Isolate(r) ==
  LET b == loading[r].bundle
      moved == {n \in Name \ loading[r].before : sys_modules[n] # None /\ sys_modules[n].dir = b}
      prefix == IsolationPrefix(b, loading[r].load)
  IN  /\ Running(r) /\ loading[r].todo = {}
      /\ sys_modules' = IsolateMoves(moved, b)
      /\ isolated' = isolated \cup {[prefix |-> prefix, name |-> n, module |-> sys_modules[n]] : n \in moved}
      /\ module_prefixes' = [module_prefixes EXCEPT ![r][b] = @ \cup {prefix}]
      /\ load_lock' = Nobody
      /\ loading' = [loading EXCEPT ![r] = NoLoad]
      /\ UNCHANGED <<sys_path, loads, imported, failed>>

\* exec_module, polyplug_init or a registration fails, after any number of
\* imports: load returns before isolate_bundle_modules, and what the bundle
\* imported stays under its own name.
LoadFails(r) ==
  /\ Running(r)
  /\ failed' = failed \cup {loading[r].load}
  /\ load_lock' = Nobody
  /\ loading' = [loading EXCEPT ![r] = NoLoad]
  /\ UNCHANGED <<sys_modules, isolated, sys_path, module_prefixes, loads, imported>>

\* unload: purge_prefix_from_sys_modules for every prefix of the bundle.
Unload(r, b) ==
  /\ loading[r] = NoLoad /\ Loaded(r, b)
  /\ isolated' = {m \in isolated : m.prefix \notin module_prefixes[r][b]}
  /\ module_prefixes' = [module_prefixes EXCEPT ![r][b] = {}]
  /\ UNCHANGED <<sys_modules, sys_path, load_lock, loading, loads, imported, failed>>

-----------------------------------------------------------------------------
Init ==
  /\ sys_modules = [n \in Name |-> None]
  /\ isolated = {} /\ sys_path = <<>> /\ load_lock = Nobody
  /\ loading = [r \in Runtime |-> NoLoad]
  /\ module_prefixes = [r \in Runtime |-> [b \in Bundle |-> {}]]
  /\ loads = 0 /\ imported = {} /\ failed = {}

Next ==
  \E r \in Runtime :
    \/ Prepare(r) \/ Isolate(r) \/ LoadFails(r)
    \/ \E n \in Name : Import(r, n)
    \/ \E b \in Bundle : BeginLoad(r, b) \/ Unload(r, b)

Spec == Init /\ [][Next]_vars

-----------------------------------------------------------------------------
\* A bundle's code is given the modules of its own load, whatever was loaded
\* before or is being loaded: "the next bundle imports its own generated package
\* instead of this one's cached copy" (PythonLoader::load, isolation.rs).
OwnModules == \A i \in imported : i.module.load = i.load

\* What the loader does guarantee: a module of another load comes from a load
\* that failed, never from one that is under way, is loaded or was unloaded
\* (PYTHON_LOAD_LOCK, isolate_bundle_modules).
OnlyFailedLeak == \A i \in imported : i.module.load = i.load \/ i.module.load \in failed

\* A loaded bundle keeps every module its load created under its prefix, whatever
\* other bundles and runtimes load, unload or leave behind ("never collide in the
\* shared sys.modules", isolation.rs), and an unloaded one keeps none.
Tracked(l, b) == \E r \in Runtime : l \in module_prefixes[r][b]
Own == {i \in imported : i.module.load = i.load}
IsolatedExact ==
  isolated = {[prefix |-> i.load, name |-> i.name, module |-> i.module] :
                i \in {j \in Own : Tracked(j.load, j.module.dir)}}

-----------------------------------------------------------------------------
(***************************************************************************)
(* What the properties rest on: where the loads under way are, and what    *)
(* they find in sys.modules.                                               *)
(***************************************************************************)

\* No two loads have one nonce, the load that runs has the load lock, and a
\* load that failed is over.
LoadsApart ==
  /\ \A r \in Runtime : loading[r] # NoLoad => loading[r].load <= loads /\ loading[r].load \notin failed
  /\ \A r, s \in Runtime :
       loading[r] # NoLoad /\ loading[s] # NoLoad /\ loading[r].load = loading[s].load => r = s
  /\ \A r \in Runtime : Running(r) => load_lock = loading[r].load
  /\ \A l \in failed : l <= loads

\* Between loads, the names that bundles import hold what failed loads left; a
\* load that runs has these in its snapshot, and its own modules under the rest.
NamesTracked ==
  /\ load_lock = Nobody => \A n \in Name : sys_modules[n] # None => sys_modules[n].load \in failed
  /\ \A r \in Runtime : loading[r].phase = "waiting" => loading[r].todo = Name
  /\ \A r \in Runtime : Running(r) =>
       /\ Len(sys_path) > 0 /\ sys_path[1] = loading[r].bundle
       /\ \A n \in loading[r].before : sys_modules[n] # None /\ sys_modules[n].load \in failed
       /\ \A n \in Name \ loading[r].before : sys_modules[n] =
            IF n \in loading[r].todo THEN None
            ELSE [dir |-> loading[r].bundle, load |-> loading[r].load]

\* What a load in progress has been given: nothing before it runs, then under
\* each name it has imported and not found, a module of its own.
ImportsTracked ==
  /\ \A i \in imported : i.load <= loads
  /\ \A r \in Runtime : loading[r] # NoLoad =>
       \A i \in Own : i.load = loading[r].load =>
         Running(r) /\ i.module.dir = loading[r].bundle /\ i.name \notin loading[r].before
  /\ \A r \in Runtime : Running(r) =>
       \A n \in Name \ (loading[r].before \cup loading[r].todo) :
         [load |-> loading[r].load, name |-> n,
          module |-> [dir |-> loading[r].bundle, load |-> loading[r].load]] \in imported

\* A tracked prefix is that of one finished load of one bundle of one runtime.
PrefixesApart ==
  /\ \A r \in Runtime, b \in Bundle : \A l \in module_prefixes[r][b] :
       /\ l <= loads
       /\ \A s \in Runtime : loading[s] # NoLoad => loading[s].load # l
  /\ \A r, s \in Runtime, b, c \in Bundle : \A l \in module_prefixes[r][b] \cap module_prefixes[s][c] :
       r = s /\ b = c

\* The inductive invariant of the Python loader.
ModuleInv ==
  TypeOK /\ LoadsApart /\ NamesTracked /\ ImportsTracked /\ PrefixesApart /\ OnlyFailedLeak /\ IsolatedExact
=============================================================================
