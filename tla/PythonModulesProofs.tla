------------------------ MODULE PythonModulesProofs ------------------------
(***************************************************************************)
(* Proofs about PythonModules, for any set of runtimes, bundles and module *)
(* names, and loads that fail at any point: a bundle is given its own      *)
(* modules or what failed loads left, and the modules under prefixes are   *)
(* exactly those that the loads of the loaded bundles created.             *)
(***************************************************************************)
EXTENDS PythonModules, TLAPS

-----------------------------------------------------------------------------
(***************************************************************************)
(* What a runtime is doing.                                                *)
(***************************************************************************)

\* A load in progress waits or runs, and has all its fields.
LEMMA LoadingFacts ==
  ASSUME TypeOK, NEW r \in Runtime
  PROVE  /\ loading[r] = NoLoad \/ loading[r] \in Loading
         /\ loading[r].phase \in {"waiting", "running"} => loading[r] \in Loading /\ loading[r] # NoLoad
         /\ loading[r] # NoLoad => /\ loading[r].load \in Load /\ loading[r].bundle \in Bundle
                                   /\ loading[r].load # Nobody /\ loading[r].todo \subseteq Name
  <1>1. loading[r] = NoLoad \/ loading[r] \in Loading BY DEF TypeOK
  <1>2. loading[r] \in Loading => /\ loading[r].phase \in {"waiting", "running"}
                                  /\ loading[r].load \in Load /\ loading[r].bundle \in Bundle
                                  /\ loading[r].todo \subseteq Name
    BY DEF Loading
  <1>3. NoLoad.phase = "none" BY DEF NoLoad
  <1>4. \A l \in Load : l # Nobody BY PythonModulesAssumption DEF Load, Nobody
  <1> QED BY <1>1, <1>2, <1>3, <1>4

\* The load lock is free or of the one load that runs.
LEMMA OneRuns ==
  ASSUME TypeOK, LoadsApart, NEW r \in Runtime, Running(r)
  PROVE  /\ load_lock # Nobody
         /\ \A s \in Runtime : Running(s) => s = r
  <1>1. load_lock = loading[r].load /\ loading[r] # NoLoad BY LoadingFacts DEF LoadsApart, Running
  <1>2. load_lock # Nobody BY <1>1, LoadingFacts
  <1>3. ASSUME NEW s \in Runtime, Running(s) PROVE s = r
    <2>1. load_lock = loading[s].load /\ loading[s] # NoLoad BY <1>3, LoadingFacts DEF LoadsApart, Running
    <2> QED BY <2>1, <1>1 DEF LoadsApart
  <1> QED BY <1>2, <1>3

\* What is kept under prefixes, member by member.
LEMMA KeptMembers ==
  IsolatedExact <=>
    \A m : m \in isolated <=>
      \E i \in Own : /\ Tracked(i.load, i.module.dir)
                      /\ m = [prefix |-> i.load, name |-> i.name, module |-> i.module]
  BY DEF IsolatedExact

-----------------------------------------------------------------------------
(***************************************************************************)
(* The steps of a load and of an unload keep the invariant.                *)
(***************************************************************************)

\* A load begins with a nonce no load had.
LEMMA BeginKeeps ==
  ASSUME ModuleInv, NEW r \in Runtime, NEW b \in Bundle, BeginLoad(r, b)
  PROVE  ModuleInv'
  <1> DEFINE new == [phase |-> "waiting", bundle |-> b, load |-> loads + 1, before |-> {}, todo |-> Name]
  <1>1. loads + 1 \in Load /\ loads' = loads + 1 /\ loads \in Nat
    BY PythonModulesAssumption DEF ModuleInv, TypeOK, BeginLoad, Load
  <1>2. new \in Loading /\ new.phase = "waiting" /\ new.load = loads + 1 /\ new.before = {} /\ new.todo = Name
    BY <1>1 DEF Loading
  <1>3. loading' = [loading EXCEPT ![r] = new] BY DEF BeginLoad
  <1> HIDE DEF new
  <1>4. loading'[r] = new /\ \A s \in Runtime : s # r => loading'[s] = loading[s]
    BY <1>3 DEF ModuleInv, TypeOK
  <1>5. TypeOK'
    <2>1. loading' \in [Runtime -> Loading \cup {NoLoad}] BY <1>2, <1>3 DEF ModuleInv, TypeOK
    <2>2. loads' \in 0 .. MaxLoads BY <1>1, PythonModulesAssumption DEF Load
    <2> QED BY <2>1, <2>2 DEF ModuleInv, TypeOK, BeginLoad
  <1>6. \A s \in Runtime : loading[s] # NoLoad => loading[s].load \in Nat /\ loading[s].load <= loads
    BY LoadingFacts, PythonModulesAssumption DEF ModuleInv, LoadsApart, Load
  <1>7. LoadsApart'
    <2>0. failed' = failed /\ failed \subseteq Nat /\ \A k \in failed : k <= loads
      BY PythonModulesAssumption DEF BeginLoad, ModuleInv, TypeOK, LoadsApart, Load
    <2>f. \A k \in failed : k <= loads' BY <2>0, <1>1
    <2>1. \A s \in Runtime : loading'[s] # NoLoad => loading'[s].load <= loads' /\ loading'[s].load \notin failed'
      <3>1. loads + 1 \notin failed BY <2>0, <1>1
      <3>2. \A s \in Runtime : loading[s] # NoLoad => loading[s].load \notin failed BY DEF ModuleInv, LoadsApart
      <3> QED BY <3>1, <3>2, <2>0, <1>1, <1>2, <1>4, <1>6
    <2>2. \A s, q \in Runtime : loading'[s] # NoLoad /\ loading'[q] # NoLoad /\ loading'[s].load = loading'[q].load => s = q
      BY <1>1, <1>2, <1>4, <1>6 DEF ModuleInv, LoadsApart
    <2>3. \A s \in Runtime : loading'[s].phase = "running" => load_lock' = loading'[s].load
      BY <1>2, <1>4 DEF ModuleInv, LoadsApart, Running, BeginLoad
    <2> QED BY <2>0, <2>f, <2>1, <2>2, <2>3 DEF LoadsApart, Running
  <1>8. NamesTracked'
    <2>2. \A s \in Runtime : loading'[s].phase = "waiting" => loading'[s].todo = Name BY <1>2, <1>4 DEF ModuleInv, NamesTracked
    <2>3. \A s \in Runtime : loading'[s].phase = "running" => loading'[s] = loading[s] BY <1>2, <1>4
    <2> QED BY <2>2, <2>3 DEF ModuleInv, NamesTracked, Running, BeginLoad
  <1>11. ImportsTracked'
    <2>0. imported' = imported BY DEF BeginLoad
    <2>1. \A i \in imported : i.load \in Nat /\ i.load <= loads
      BY PythonModulesAssumption DEF ModuleInv, TypeOK, ImportsTracked, Load
    <2>2. \A i \in imported : i.load <= loads' /\ i.load # new.load BY <2>1, <1>1, <1>2
    <2>3. \A s \in Runtime : loading'[s].phase = "running" => loading'[s] = loading[s] BY <1>2, <1>4
    <2>4. ASSUME NEW s \in Runtime, loading'[s] # NoLoad, NEW i \in imported, i.module.load = i.load,
                 i.load = loading'[s].load
          PROVE  /\ loading'[s].phase = "running" /\ i.module.dir = loading'[s].bundle
                 /\ i.name \notin loading'[s].before
      <3>1. s # r BY <2>2, <2>4, <1>4
      <3> QED BY <3>1, <2>4, <1>4 DEF ModuleInv, ImportsTracked, Own, Running
    <2>5. ASSUME NEW s \in Runtime, loading'[s].phase = "running"
          PROVE  \A n \in Name \ (loading'[s].before \cup loading'[s].todo) :
                   [load |-> loading'[s].load, name |-> n,
                    module |-> [dir |-> loading'[s].bundle, load |-> loading'[s].load]] \in imported
      BY <2>3, <2>5 DEF ModuleInv, ImportsTracked, Running
    <2> QED BY <2>0, <2>2, <2>4, <2>5 DEF ImportsTracked, Own, Running
  <1>9. PrefixesApart'
    <2>1. ASSUME NEW s \in Runtime, NEW c \in Bundle, NEW l \in module_prefixes[s][c], NEW q \in Runtime
          PROVE  l <= loads' /\ (loading'[q] # NoLoad => loading'[q].load # l)
      <3>1. l \in Load BY DEF ModuleInv, TypeOK
      <3>2. l \in Nat /\ l <= loads BY <3>1, PythonModulesAssumption DEF ModuleInv, PrefixesApart, Load
      <3> QED BY <3>2, <1>1, <1>2, <1>4 DEF ModuleInv, PrefixesApart
    <2> QED BY <2>1 DEF ModuleInv, PrefixesApart, BeginLoad
  <1>10. OnlyFailedLeak' /\ IsolatedExact' BY DEF ModuleInv, OnlyFailedLeak, IsolatedExact, Own, Tracked, BeginLoad
  <1> QED BY <1>5, <1>7, <1>8, <1>9, <1>10, <1>11 DEF ModuleInv

\* A load that gets the lock finds what failed loads left, and snapshots it.
LEMMA PrepareKeeps ==
  ASSUME ModuleInv, NEW r \in Runtime, Prepare(r)
  PROVE  ModuleInv'
  <1>1. loading[r] \in Loading /\ loading[r] # NoLoad /\ loading[r].load # Nobody /\ loading[r].bundle \in Bundle
        /\ loading[r].load \in Load
    BY LoadingFacts DEF Prepare, ModuleInv
  <1> DEFINE found == {n \in Name : sys_modules[n] # None}
  <1>2. \A n \in Name : sys_modules[n] # None => sys_modules[n].load \in failed
    BY DEF Prepare, AcquireLoadLock, ModuleInv, NamesTracked
  <1>3. loading' = [loading EXCEPT ![r].phase = "running", ![r].before = found] BY DEF Prepare
  <1>f. found \subseteq Name /\ \A n \in Name : n \in found <=> sys_modules[n] # None OBVIOUS
  <1> HIDE DEF found
  <1>4. /\ loading'[r] \in Loading /\ loading'[r].phase = "running" /\ loading'[r].before = found
        /\ loading'[r].load = loading[r].load /\ loading'[r].bundle = loading[r].bundle
        /\ loading'[r].todo = Name
    <2>1. ASSUME NEW l \in Loading
          PROVE  LET k == [l EXCEPT !.phase = "running", !.before = found]
                 IN  /\ k \in Loading /\ k.phase = "running" /\ k.before = found
                     /\ k.load = l.load /\ k.bundle = l.bundle /\ k.todo = l.todo
      BY <1>f DEF Loading
    <2>2. loading'[r] = [loading[r] EXCEPT !.phase = "running", !.before = found] BY <1>3, Zenon DEF ModuleInv, TypeOK
    <2>3. loading[r].todo = Name BY DEF Prepare, ModuleInv, NamesTracked
    <2> QED BY <2>1, <2>2, <2>3, <1>1, Zenon
  <1>5. \A s \in Runtime : s # r => loading'[s] = loading[s] BY <1>3 DEF ModuleInv, TypeOK
  <1>6. loading' \in [Runtime -> Loading \cup {NoLoad}]
    <2>1. loading' = [loading EXCEPT ![r] = loading'[r]] BY <1>3 DEF ModuleInv, TypeOK
    <2> QED BY <2>1, <1>4 DEF ModuleInv, TypeOK
  <1>7. sys_path' \in Seq(Bundle) /\ Len(sys_path') > 0 /\ sys_path'[1] = loading[r].bundle
    BY <1>1 DEF Prepare, ModuleInv, TypeOK
  <1>8. TypeOK' BY <1>1, <1>6, <1>7 DEF Prepare, AcquireLoadLock, ModuleInv, TypeOK
  <1>9. \A s \in Runtime : ~Running(s)
    BY LoadingFacts DEF Running, Prepare, AcquireLoadLock, ModuleInv, LoadsApart
  <1>10. \A s \in Runtime : loading'[s].phase = "running" => s = r BY <1>5, <1>9 DEF Running
  <1>11. loading'[r] # NoLoad BY <1>4 DEF NoLoad
  <1>12. LoadsApart'
    <2>1. \A s \in Runtime : /\ loading'[s] # NoLoad => loading[s] # NoLoad
                             /\ loading'[s].load = loading[s].load
      BY <1>1, <1>4, <1>5
    <2>2. load_lock' = loading[r].load /\ loads' = loads /\ failed' = failed BY DEF Prepare, AcquireLoadLock
    <2> QED BY <2>1, <2>2, <1>4, <1>10 DEF ModuleInv, LoadsApart, Running
  <1>13. NamesTracked'
    <2>1. load_lock' # Nobody /\ sys_modules' = sys_modules /\ failed' = failed BY <1>1 DEF Prepare, AcquireLoadLock
    <2>3. \A s \in Runtime : loading'[s].phase = "waiting" => loading'[s].todo = Name BY <1>4, <1>5 DEF ModuleInv, NamesTracked
    <2>4. \A n \in found : sys_modules[n] # None /\ sys_modules[n].load \in failed BY <1>2, <1>f
    <2>5. \A n \in Name \ found : n \in loading'[r].todo /\ sys_modules[n] = None BY <1>4, <1>f
    <2> QED BY <2>1, <2>3, <2>4, <2>5, <1>4, <1>7, <1>10 DEF NamesTracked, Running
  <1>16. ImportsTracked'
    <2>0. imported' = imported /\ loads' = loads BY DEF Prepare
    <2>1. \A i \in Own : i.load # loading[r].load
      BY <1>1, <1>9 DEF ModuleInv, ImportsTracked
    <2>2. ASSUME NEW s \in Runtime, loading'[s] # NoLoad, NEW i \in Own, i.load = loading'[s].load
          PROVE  /\ loading'[s].phase = "running" /\ i.module.dir = loading'[s].bundle
                 /\ i.name \notin loading'[s].before
      <3>1. s # r BY <2>1, <2>2, <1>4
      <3> QED BY <3>1, <2>2, <1>5 DEF ModuleInv, ImportsTracked, Running
    <2>3. Name \ (loading'[r].before \cup loading'[r].todo) = {} BY <1>4
    <2> QED BY <2>0, <2>2, <2>3, <1>10 DEF ModuleInv, ImportsTracked, Own, Running
  <1>14. PrefixesApart'
    <2>1. \A s \in Runtime : /\ loading'[s] # NoLoad => loading[s] # NoLoad
                             /\ loading'[s].load = loading[s].load
      BY <1>1, <1>4, <1>5
    <2>2. module_prefixes' = module_prefixes /\ loads' = loads BY DEF Prepare
    <2> QED BY <2>1, <2>2 DEF ModuleInv, PrefixesApart
  <1>15. OnlyFailedLeak' /\ IsolatedExact' BY DEF ModuleInv, OnlyFailedLeak, IsolatedExact, Own, Tracked, Prepare
  <1> QED BY <1>8, <1>12, <1>13, <1>14, <1>15, <1>16 DEF ModuleInv

\* An import gives a load a module of its own, or one that a failed load left.
LEMMA ImportKeeps ==
  ASSUME ModuleInv, NEW r \in Runtime, NEW n \in Name, Import(r, n)
  PROVE  ModuleInv'
  <1> DEFINE own == [dir |-> loading[r].bundle, load |-> loading[r].load]
             rest == loading[r].todo \ {n}
             got == IF n \in loading[r].before THEN sys_modules[n] ELSE own
             entry == [load |-> loading[r].load, name |-> n, module |-> got]
  <1>1. /\ loading[r] \in Loading /\ loading[r] # NoLoad /\ loading[r].before \subseteq Name
        /\ loading[r].load \in Load /\ loading[r].bundle \in Bundle /\ loading[r].todo \subseteq Name
        /\ loading[r].phase = "running" /\ n \in loading[r].todo /\ Running(r)
    BY LoadingFacts DEF Import, Running, ModuleInv, Loading
  <1>2. own \in Module /\ own # None /\ own.load = loading[r].load /\ own.dir = loading[r].bundle
    BY <1>1, PythonModulesAssumption DEF Module
  <1>3. /\ sys_path[1] = loading[r].bundle
        /\ \A x \in loading[r].before : sys_modules[x] # None /\ sys_modules[x].load \in failed
        /\ \A x \in Name \ loading[r].before : sys_modules[x] = IF x \in loading[r].todo THEN None ELSE own
    BY <1>1 DEF ModuleInv, NamesTracked
  <1> HIDE DEF own
  <1>g. /\ got \in Module /\ got # None
        /\ n \in loading[r].before => got = sys_modules[n] /\ got.load \in failed
        /\ n \notin loading[r].before => got = own
    BY <1>1, <1>2, <1>3, PythonModulesAssumption DEF ModuleInv, TypeOK
  <1>4. /\ sys_modules' = [sys_modules EXCEPT ![n] = got]
        /\ imported' = imported \cup {entry}
    <2>1. (IF sys_modules[n] # None THEN sys_modules[n] ELSE [dir |-> sys_path[1], load |-> loading[r].load]) = got
      BY <1>1, <1>3 DEF own
    <2> HIDE DEF got
    <2> QED BY <2>1 DEF Import, ImportModule
  <1>e. entry.load = loading[r].load /\ entry.name = n /\ entry.module = got OBVIOUS
  <1> HIDE DEF got, entry
  <1>5. loading' = [loading EXCEPT ![r] = [loading[r] EXCEPT !.todo = rest]]
    BY Zenon DEF Import
  <1>6. UNCHANGED <<isolated, sys_path, load_lock, module_prefixes, loads, failed>> BY DEF Import
  <1>7. ASSUME NEW l \in Loading
        PROVE  LET k == [l EXCEPT !.todo = rest]
               IN  /\ k \in Loading /\ k.phase = l.phase /\ k.before = l.before
                   /\ k.load = l.load /\ k.bundle = l.bundle /\ k.todo = rest
    <2>1. rest \subseteq Name BY <1>1
    <2> HIDE DEF rest
    <2> QED BY <2>1 DEF Loading
  <1>r. \A x \in Name : x \in rest <=> x \in loading[r].todo /\ x # n OBVIOUS
  <1> HIDE DEF rest
  <1>8. loading'[r] = [loading[r] EXCEPT !.todo = rest] BY <1>5, Zenon DEF ModuleInv, TypeOK
  <1>9. /\ loading'[r] \in Loading /\ loading'[r].phase = "running" /\ loading'[r].before = loading[r].before
        /\ loading'[r].load = loading[r].load /\ loading'[r].bundle = loading[r].bundle
        /\ loading'[r].todo = rest
    BY <1>1, <1>7, <1>8, Zenon
  <1>10. loading' = [loading EXCEPT ![r] = loading'[r]] BY <1>5, <1>8, Zenon DEF ModuleInv, TypeOK
  <1>11. \A s \in Runtime : s # r => loading'[s] = loading[s] BY <1>10 DEF ModuleInv, TypeOK
  <1>12. TypeOK'
    <2>1. loading' \in [Runtime -> Loading \cup {NoLoad}] BY <1>9, <1>10 DEF ModuleInv, TypeOK
    <2>2. sys_modules' \in [Name -> Module \cup {None}] BY <1>g, <1>4 DEF ModuleInv, TypeOK
    <2>3. entry \in [load : Load, name : Name, module : Module] BY <1>1, <1>g DEF entry
    <2>4. imported' \subseteq [load : Load, name : Name, module : Module] BY <2>3, <1>4 DEF ModuleInv, TypeOK
    <2> QED BY <2>1, <2>2, <2>4, <1>6 DEF ModuleInv, TypeOK
  <1>13. \A s \in Runtime : /\ loading'[s] # NoLoad => loading[s] # NoLoad
                            /\ loading'[s].load = loading[s].load /\ loading'[s].phase = loading[s].phase
                            /\ loading'[s].bundle = loading[s].bundle /\ loading'[s].before = loading[s].before
    BY <1>1, <1>9, <1>11
  <1>14. LoadsApart' BY <1>6, <1>13 DEF ModuleInv, LoadsApart, Running
  <1>15. load_lock # Nobody /\ \A s \in Runtime : Running(s) => s = r
    BY <1>1, OneRuns DEF ModuleInv
  <1>16. NamesTracked'
    <2>1. load_lock' # Nobody BY <1>6, <1>15
    <2>3. \A s \in Runtime : loading'[s].phase = "waiting" => loading'[s].todo = Name
      BY <1>9, <1>11 DEF ModuleInv, NamesTracked
    <2>4. \A s \in Runtime : loading'[s].phase = "running" => s = r BY <1>13, <1>15 DEF Running
    <2>5. Len(sys_path') > 0 /\ sys_path'[1] = loading'[r].bundle BY <1>1, <1>6, <1>9 DEF ModuleInv, NamesTracked
    <2>6. \A x \in loading[r].before : sys_modules'[x] # None /\ sys_modules'[x].load \in failed
      BY <1>1, <1>3, <1>4, <1>g DEF ModuleInv, TypeOK
    <2>7. \A x \in Name \ loading[r].before : sys_modules'[x] = IF x \in rest THEN None ELSE own
      BY <1>3, <1>4, <1>g, <1>r DEF ModuleInv, TypeOK
    <2> QED BY <2>1, <2>3, <2>4, <2>5, <2>6, <2>7, <1>6, <1>9 DEF NamesTracked, Running, own
  <1>17. PrefixesApart' BY <1>6, <1>13 DEF ModuleInv, PrefixesApart
  <1>18. OnlyFailedLeak' BY <1>2, <1>4, <1>6, <1>e, <1>g DEF ModuleInv, OnlyFailedLeak
  <1>19. ImportsTracked'
    <2>1. \A i \in imported' : i.load <= loads'
      BY <1>1, <1>4, <1>6, <1>e DEF ModuleInv, ImportsTracked, LoadsApart
    <2>2. entry.module.load = entry.load => entry.module.dir = loading[r].bundle /\ n \notin loading[r].before
      BY <1>1, <1>2, <1>e, <1>g DEF ModuleInv, LoadsApart
    <2>3. \A s \in Runtime : loading[s] # NoLoad /\ loading[s].load = entry.load => s = r
      BY <1>1, <1>e DEF ModuleInv, LoadsApart
    <2>4. ASSUME NEW s \in Runtime, loading'[s] # NoLoad, NEW i \in imported', i.module.load = i.load,
                 i.load = loading'[s].load
          PROVE  /\ loading'[s].phase = "running" /\ i.module.dir = loading'[s].bundle
                 /\ i.name \notin loading'[s].before
      <3>1. CASE i \in imported BY <3>1, <2>4, <1>13 DEF ModuleInv, ImportsTracked, Own, Running
      <3>2. CASE i = entry BY <3>2, <2>2, <2>3, <2>4, <1>1, <1>13, <1>e
      <3> QED BY <3>1, <3>2, <1>4
    <2>5. ASSUME NEW x \in Name \ (loading[r].before \cup rest)
          PROVE  [load |-> loading[r].load, name |-> x, module |-> own] \in imported'
      <3>1. CASE x = n BY <3>1, <2>5, <1>4, <1>g DEF entry
      <3>2. CASE x # n
        <4>1. x \in Name \ (loading[r].before \cup loading[r].todo) BY <3>2, <2>5, <1>r
        <4> QED BY <4>1, <1>1, <1>4 DEF ModuleInv, ImportsTracked, own
      <3> QED BY <3>1, <3>2
    <2>6. \A s \in Runtime : loading'[s].phase = "running" => s = r BY <1>13, <1>15 DEF Running
    <2> QED BY <2>1, <2>4, <2>5, <2>6, <1>9 DEF ImportsTracked, Own, Running, own
  <1>20. IsolatedExact'
    <2>1. \A b \in Bundle : ~Tracked(entry.load, b)
      BY <1>1, <1>e DEF ModuleInv, PrefixesApart, Tracked
    <2>2. \A l, b : Tracked(l, b)' = Tracked(l, b) BY <1>6 DEF Tracked
    <2>3. entry.module.dir \in Bundle BY <1>e, <1>g DEF Module
    <2>4. {j \in Own' : Tracked(j.load, j.module.dir)'} = {j \in Own : Tracked(j.load, j.module.dir)}
      BY <2>1, <2>2, <2>3, <1>4 DEF Own
    <2> QED BY <2>4, <1>6 DEF ModuleInv, IsolatedExact
  <1> QED BY <1>12, <1>14, <1>16, <1>17, <1>18, <1>19, <1>20 DEF ModuleInv

\* What the end of a load changes of the loads: its runtime is free again.
LEMMA LoadEnds ==
  ASSUME ModuleInv, NEW r \in Runtime, Running(r), load_lock' = Nobody,
         loading' = [loading EXCEPT ![r] = NoLoad], loads' = loads,
         failed' \subseteq failed \cup {loading[r].load}
  PROVE  /\ \A s \in Runtime : loading'[s] # NoLoad => s # r /\ loading'[s] = loading[s]
         /\ \A s \in Runtime : loading'[s].phase # "running"
         /\ \A s \in Runtime : loading'[s] # NoLoad => loading'[s].load # loading[r].load
         /\ LoadsApart'
         /\ loading' \in [Runtime -> Loading \cup {NoLoad}]
  <1>1. loading'[r] = NoLoad /\ \A s \in Runtime : s # r => loading'[s] = loading[s] BY DEF ModuleInv, TypeOK
  <1>2. \A s \in Runtime : loading'[s].phase # "running" BY <1>1, OneRuns DEF NoLoad, Running, ModuleInv
  <1>3. loading[r] # NoLoad BY LoadingFacts DEF Running, ModuleInv
  <1>4. \A s \in Runtime : loading'[s] # NoLoad => loading'[s].load # loading[r].load
    BY <1>1, <1>3 DEF ModuleInv, LoadsApart
  <1>f. \A l \in failed' : l <= loads BY <1>3 DEF ModuleInv, LoadsApart
  <1>5. LoadsApart' BY <1>1, <1>2, <1>4, <1>f DEF ModuleInv, LoadsApart, Running
  <1>6. loading' \in [Runtime -> Loading \cup {NoLoad}] BY DEF ModuleInv, TypeOK
  <1> QED BY <1>1, <1>2, <1>4, <1>5, <1>6

\* What a load that ends leaves of the other loads' imports.
LEMMA ImportsStay ==
  ASSUME ModuleInv, UNCHANGED <<imported, loads>>,
         \A s \in Runtime : loading'[s] # NoLoad => loading'[s] = loading[s],
         \A s \in Runtime : loading'[s].phase # "running"
  PROVE  ImportsTracked'
  BY DEF ModuleInv, ImportsTracked, Own, Running

\* A load that fails leaves its modules to the failed loads' names.
LEMMA FailKeeps ==
  ASSUME ModuleInv, NEW r \in Runtime, LoadFails(r)
  PROVE  ModuleInv'
  <1>1. /\ Running(r) /\ load_lock' = Nobody
        /\ loading' = [loading EXCEPT ![r] = NoLoad]
        /\ failed' = failed \cup {loading[r].load}
        /\ UNCHANGED <<sys_modules, isolated, sys_path, module_prefixes, loads, imported>>
    BY DEF LoadFails
  <1>0. loading[r].load \in Load BY <1>1, LoadingFacts DEF ModuleInv, Running
  <1>2. /\ \A s \in Runtime : loading'[s] # NoLoad => s # r /\ loading'[s] = loading[s]
        /\ \A s \in Runtime : loading'[s].phase # "running"
        /\ LoadsApart' /\ loading' \in [Runtime -> Loading \cup {NoLoad}]
    BY <1>1, LoadEnds
  <1>3. TypeOK' BY <1>0, <1>1, <1>2 DEF ModuleInv, TypeOK
  <1>4. \A n \in Name : sys_modules[n] # None => sys_modules[n].load \in failed'
    <2>1. ASSUME NEW n \in Name \ loading[r].before, sys_modules[n] # None
          PROVE  sys_modules[n].load = loading[r].load
      <3>1. sys_modules[n] = IF n \in loading[r].todo THEN None
                             ELSE [dir |-> loading[r].bundle, load |-> loading[r].load]
        BY <1>1, Zenon DEF ModuleInv, NamesTracked
      <3>2. sys_modules[n] = [dir |-> loading[r].bundle, load |-> loading[r].load] BY <2>1, <3>1
      <3> QED BY <3>2
    <2>2. \A n \in loading[r].before : sys_modules[n].load \in failed BY <1>1 DEF ModuleInv, NamesTracked
    <2> QED BY <1>1, <2>1, <2>2
  <1>5. \A s \in Runtime : loading'[s].phase = "waiting" => loading'[s] = loading[s]
    BY <1>2 DEF NoLoad
  <1>6. NamesTracked' BY <1>1, <1>2, <1>4, <1>5 DEF ModuleInv, NamesTracked, Running
  <1>7. PrefixesApart' BY <1>1, <1>2 DEF ModuleInv, PrefixesApart
  <1>8. OnlyFailedLeak' /\ IsolatedExact' BY <1>1 DEF ModuleInv, OnlyFailedLeak, IsolatedExact, Own, Tracked
  <1>9. ImportsTracked' BY <1>1, <1>2, ImportsStay
  <1> QED BY <1>2, <1>3, <1>6, <1>7, <1>8, <1>9 DEF ModuleInv

\* A load that succeeds moves the modules it created under its own prefix.
LEMMA IsolateKeeps ==
  ASSUME ModuleInv, NEW r \in Runtime, Isolate(r)
  PROVE  ModuleInv'
  <1> DEFINE b == loading[r].bundle
             l == loading[r].load
             own == [dir |-> b, load |-> l]
             new == Name \ loading[r].before
             mine == {[prefix |-> l, name |-> n, module |-> own] : n \in new}
  <1>1. loading[r] # NoLoad /\ l \in Load /\ b \in Bundle /\ Running(r) /\ loading[r].todo = {}
    BY LoadingFacts DEF Isolate, Running, ModuleInv
  <1>2. own \in Module /\ own # None /\ own.dir = b /\ own.load = l BY <1>1, PythonModulesAssumption DEF Module
  <1>3. /\ \A n \in new : sys_modules[n] = own
        /\ \A n \in loading[r].before : sys_modules[n] # None /\ sys_modules[n].load \in failed
    BY <1>1 DEF ModuleInv, NamesTracked
  <1> HIDE DEF own
  <1>5. {n \in Name \ loading[r].before : sys_modules[n] # None /\ sys_modules[n].dir = b} = new
    BY <1>2, <1>3
  <1>6. sys_modules' = [n \in Name |-> IF n \in new THEN None ELSE sys_modules[n]]
    BY <1>5, Zenon DEF Isolate, IsolateMoves
  <1>7. isolated' = isolated \cup mine
    <2>1. isolated' = isolated \cup {[prefix |-> l, name |-> n, module |-> sys_modules[n]] : n \in new}
      BY <1>5, Zenon DEF Isolate, IsolationPrefix
    <2> QED BY <2>1, <1>3, Zenon
  <1>8. module_prefixes' = [module_prefixes EXCEPT ![r][b] = module_prefixes[r][b] \cup {l}]
    BY Zenon DEF Isolate, IsolationPrefix
  <1>9. /\ load_lock' = Nobody /\ loading' = [loading EXCEPT ![r] = NoLoad]
        /\ UNCHANGED <<sys_path, loads, imported, failed>>
    BY Zenon DEF Isolate
  <1>10. /\ \A s \in Runtime : loading'[s] # NoLoad => s # r /\ loading'[s] = loading[s]
         /\ \A s \in Runtime : loading'[s].phase # "running"
         /\ \A s \in Runtime : loading'[s] # NoLoad => loading'[s].load # l
         /\ LoadsApart' /\ loading' \in [Runtime -> Loading \cup {NoLoad}]
    BY <1>1, <1>9, LoadEnds
  <1>n. new \subseteq Name /\ \A n \in Name \ new : n \in loading[r].before OBVIOUS
  <1>m. ASSUME NEW n \in new
        PROVE  [load |-> l, name |-> n, module |-> own] \in Own
    BY <1>1, <1>2 DEF ModuleInv, ImportsTracked, Own, own
  <1>o. ASSUME NEW i \in Own, i.load = l
        PROVE  i.name \in new /\ i.module = own
    <2>1. i.module \in Module /\ i.name \in Name /\ i.module.load = l BY <1>o DEF ModuleInv, TypeOK, Own
    <2>2. i.module.dir = b /\ i.name \in new BY <1>1, <1>o, <2>1 DEF ModuleInv, ImportsTracked
    <2>3. i.module = own BY <2>1, <2>2 DEF own, Module
    <2> QED BY <2>2, <2>3
  <1> HIDE DEF b, l, new
  <1>11. /\ module_prefixes' \in [Runtime -> [Bundle -> SUBSET Load]]
         /\ module_prefixes'[r][b] = module_prefixes[r][b] \cup {l}
         /\ \A s \in Runtime, c \in Bundle :
              s # r \/ c # b => module_prefixes'[s][c] = module_prefixes[s][c]
    BY <1>1, <1>8 DEF ModuleInv, TypeOK
  <1>12. \A s \in Runtime, c \in Bundle : l \notin module_prefixes[s][c]
    BY <1>1 DEF ModuleInv, PrefixesApart, l
  <1>13. TypeOK'
    <2>1. sys_modules' \in [Name -> Module \cup {None}] BY <1>6 DEF ModuleInv, TypeOK
    <2>2. \A m \in isolated' : m.prefix \in Load /\ m.name \in Name /\ m.module \in Module
      BY <1>1, <1>2, <1>7, <1>n DEF ModuleInv, TypeOK
    <2> QED BY <2>1, <2>2, <1>9, <1>10, <1>11 DEF ModuleInv, TypeOK
  <1>14. \A s \in Runtime : loading'[s].phase = "waiting" => loading'[s] = loading[s]
    BY <1>10 DEF NoLoad
  <1>15. NamesTracked'
    <2>1. \A n \in Name : sys_modules'[n] # None => sys_modules'[n].load \in failed'
      BY <1>3, <1>6, <1>9, <1>n
    <2> QED BY <2>1, <1>10, <1>14 DEF ModuleInv, NamesTracked, Running
  <1>16. PrefixesApart'
    <2>1. ASSUME NEW s \in Runtime, NEW c \in Bundle, NEW k \in module_prefixes'[s][c]
          PROVE  k <= loads' /\ \A q \in Runtime : loading'[q] # NoLoad => loading'[q].load # k
      <3>1. CASE k \in module_prefixes[s][c] BY <3>1, <1>9, <1>10 DEF ModuleInv, PrefixesApart
      <3>2. CASE k = l
        <4>1. l <= loads BY <1>1 DEF l, ModuleInv, LoadsApart
        <4> QED BY <3>2, <4>1, <1>9, <1>10
      <3> QED BY <3>1, <3>2, <1>11
    <2>2. ASSUME NEW s \in Runtime, NEW q \in Runtime, NEW c \in Bundle, NEW d \in Bundle,
                 NEW k \in module_prefixes'[s][c] \cap module_prefixes'[q][d]
          PROVE  s = q /\ c = d
      <3>1. CASE k = l BY <3>1, <1>11, <1>12
      <3>2. CASE k # l
        <4>1. k \in module_prefixes[s][c] \cap module_prefixes[q][d] BY <3>2, <1>11
        <4> QED BY <4>1 DEF ModuleInv, PrefixesApart
      <3> QED BY <3>1, <3>2
    <2> QED BY <2>1, <2>2 DEF PrefixesApart
  <1>17. OnlyFailedLeak' BY <1>9 DEF ModuleInv, OnlyFailedLeak
  <1>18. IsolatedExact'
    <2>1. Own' = Own BY <1>9 DEF Own
    <2>2. ASSUME NEW k, NEW c \in Bundle
          PROVE  Tracked(k, c)' <=> Tracked(k, c) \/ (k = l /\ c = b)
      BY <1>1, <1>11 DEF Tracked
    <2>3. \A i \in Own : i.module.dir \in Bundle BY DEF ModuleInv, TypeOK, Own, Module
    <2>4. ASSUME NEW m
          PROVE  m \in mine <=> \E i \in Own : /\ i.load = l /\ i.module.dir = b
                                               /\ m = [prefix |-> i.load, name |-> i.name, module |-> i.module]
      <3>1. ASSUME NEW n \in new, m = [prefix |-> l, name |-> n, module |-> own]
            PROVE  \E i \in Own : /\ i.load = l /\ i.module.dir = b
                                  /\ m = [prefix |-> i.load, name |-> i.name, module |-> i.module]
        <4>1. PICK i \in Own : i = [load |-> l, name |-> n, module |-> own] BY <1>m
        <4> QED BY <3>1, <4>1, <1>2
      <3>2. ASSUME NEW i \in Own, i.load = l,
                   m = [prefix |-> i.load, name |-> i.name, module |-> i.module]
            PROVE  m \in mine
        BY <3>2, <1>o
      <3> QED BY <3>1, <3>2
    <2> HIDE DEF mine
    <2>5. ASSUME NEW m
          PROVE  m \in isolated' <=>
                   \E i \in Own' : /\ Tracked(i.load, i.module.dir)'
                                   /\ m = [prefix |-> i.load, name |-> i.name, module |-> i.module]
      <3>1. m \in isolated <=>
              \E i \in Own : /\ Tracked(i.load, i.module.dir)
                             /\ m = [prefix |-> i.load, name |-> i.name, module |-> i.module]
        BY KeptMembers DEF ModuleInv
      <3>2. m \in isolated' <=> m \in isolated \/ m \in mine BY <1>7
      <3> QED BY <3>1, <3>2, <2>1, <2>2, <2>3, <2>4
    <2> QED BY <2>5 DEF IsolatedExact
  <1>19. ImportsTracked' BY <1>9, <1>10, ImportsStay
  <1> QED BY <1>10, <1>13, <1>15, <1>16, <1>17, <1>18, <1>19 DEF ModuleInv

\* An unload deletes the modules under the bundle's prefixes and no others.
LEMMA UnloadKeeps ==
  ASSUME ModuleInv, NEW r \in Runtime, NEW b \in Bundle, Unload(r, b)
  PROVE  ModuleInv'
  <1>1. /\ isolated' = {m \in isolated : m.prefix \notin module_prefixes[r][b]}
        /\ module_prefixes' = [module_prefixes EXCEPT ![r][b] = {}]
        /\ UNCHANGED <<sys_modules, sys_path, load_lock, loading, loads, imported, failed>>
    BY DEF Unload
  <1>2. /\ module_prefixes' \in [Runtime -> [Bundle -> SUBSET Load]]
        /\ module_prefixes'[r][b] = {}
        /\ \A s \in Runtime, c \in Bundle :
             s # r \/ c # b => module_prefixes'[s][c] = module_prefixes[s][c]
    BY <1>1 DEF ModuleInv, TypeOK
  <1>3. TypeOK' BY <1>1, <1>2 DEF ModuleInv, TypeOK
  <1>4. LoadsApart' /\ NamesTracked' /\ OnlyFailedLeak'
    BY <1>1 DEF ModuleInv, LoadsApart, NamesTracked, OnlyFailedLeak, Running
  <1>5. \A s \in Runtime, c \in Bundle : module_prefixes'[s][c] \subseteq module_prefixes[s][c] BY <1>2
  <1>6. PrefixesApart' BY <1>1, <1>5 DEF ModuleInv, PrefixesApart
  <1>7. IsolatedExact'
    <2>1. \A i \in Own : i.module.dir \in Bundle BY DEF ModuleInv, TypeOK, Own, Module
    <2>2. Own' = Own BY <1>1 DEF Own
    <2>3. ASSUME NEW k, NEW c \in Bundle
          PROVE  Tracked(k, c)' <=> Tracked(k, c) /\ k \notin module_prefixes[r][b]
      <3>1. ASSUME NEW s \in Runtime, k \in module_prefixes'[s][c]
            PROVE  k \in module_prefixes[s][c] /\ k \notin module_prefixes[r][b]
        <4>1. s # r \/ c # b BY <3>1, <1>2
        <4> QED BY <4>1, <3>1, <1>5 DEF ModuleInv, PrefixesApart
      <3>2. ASSUME NEW s \in Runtime, k \in module_prefixes[s][c], k \notin module_prefixes[r][b]
            PROVE  k \in module_prefixes'[s][c]
        BY <3>2, <1>2
      <3> QED BY <3>1, <3>2 DEF Tracked
    <2>4. ASSUME NEW m
          PROVE  m \in isolated' <=>
                   \E i \in Own' : /\ Tracked(i.load, i.module.dir)'
                                   /\ m = [prefix |-> i.load, name |-> i.name, module |-> i.module]
      <3>1. m \in isolated <=>
              \E i \in Own : /\ Tracked(i.load, i.module.dir)
                             /\ m = [prefix |-> i.load, name |-> i.name, module |-> i.module]
        BY KeptMembers DEF ModuleInv
      <3>2. m \in isolated' <=> m \in isolated /\ m.prefix \notin module_prefixes[r][b] BY <1>1
      <3> QED BY <3>1, <3>2, <2>1, <2>2, <2>3
    <2> QED BY <2>4 DEF IsolatedExact
  <1>8. ImportsTracked' BY <1>1 DEF ModuleInv, ImportsTracked, Own, Running
  <1> QED BY <1>3, <1>4, <1>6, <1>7, <1>8 DEF ModuleInv

-----------------------------------------------------------------------------
\* ModuleInv holds in every state of the Python loader, with loads of several
\* runtimes interleaved at every import and loads that fail at any point.
THEOREM ModuleInvariant == Spec => []ModuleInv
  <1>1. Init => ModuleInv
    <2> SUFFICES ASSUME Init PROVE ModuleInv OBVIOUS
    <2>1. TypeOK BY PythonModulesAssumption DEF Init, TypeOK, NoLoad, Nobody
    <2>2. LoadsApart /\ NamesTracked BY DEF Init, LoadsApart, NamesTracked, Running, NoLoad
    <2>3. PrefixesApart /\ OnlyFailedLeak /\ ImportsTracked
      BY DEF Init, PrefixesApart, OnlyFailedLeak, ImportsTracked, Own, Running, NoLoad
    <2>4. IsolatedExact BY DEF Init, IsolatedExact, Own
    <2> QED BY <2>1, <2>2, <2>3, <2>4 DEF ModuleInv
  <1>2. ModuleInv /\ [Next]_vars => ModuleInv'
    <2> SUFFICES ASSUME ModuleInv, [Next]_vars PROVE ModuleInv' OBVIOUS
    <2>1. CASE UNCHANGED vars
      BY <2>1 DEF vars, ModuleInv, TypeOK, LoadsApart, NamesTracked, ImportsTracked, PrefixesApart, OnlyFailedLeak,
                  IsolatedExact, Own, Tracked, Running
    <2>2. CASE Next
      BY <2>2, BeginKeeps, PrepareKeeps, ImportKeeps, IsolateKeeps, FailKeeps, UnloadKeeps DEF Next
    <2> QED BY <2>1, <2>2
  <1> QED BY <1>1, <1>2, PTL DEF Spec

\* A bundle's code is given the modules of its own load, or what a failed load
\* left under a name: never those of a load under way, loaded or unloaded
\* (PythonLoader::load, isolate_bundle_modules).
THEOREM OnlyFailedLoadsLeak == Spec => []OnlyFailedLeak
  <1>1. ModuleInv => OnlyFailedLeak BY DEF ModuleInv
  <1> QED BY <1>1, ModuleInvariant, PTL

\* The modules kept under prefixes are exactly those that the loads of the
\* loaded bundles created (isolate_bundle_modules, purge_prefix_from_sys_modules).
THEOREM PrefixesHoldLoaded == Spec => []IsolatedExact
  <1>1. ModuleInv => IsolatedExact BY DEF ModuleInv
  <1> QED BY <1>1, ModuleInvariant, PTL
=============================================================================
