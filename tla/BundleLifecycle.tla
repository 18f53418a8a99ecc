-------------------------- MODULE BundleLifecycle --------------------------
(***************************************************************************)
(* Load, unload and reload of native bundles as the runtime drives them:   *)
(* the calls of runtime.rs and reload.rs step by step, the registry of     *)
(* RuntimeStore, the libraries of polyplug_native's loader with their      *)
(* epoch-deferred dlclose, and threads that call into bundles under an     *)
(* epoch pin (create_guest_instance, destroy_guest_instance).              *)
(*                                                                         *)
(* A call of one caller is split wherever the code drops its locks or runs *)
(* foreign code: between a check and its use, around callbacks and around  *)
(* the loader.  Signatures, manifests and versions are abstracted to calls *)
(* that may fail.  Live-instance counts and resident roots are left to the *)
(* internal plugins.                                                       *)
(***************************************************************************)
EXTENDS RuntimeStore

CONSTANTS
  Caller,             \* threads that load, unload and reload
  Reader,             \* threads that call into bundles under a pin
  Manages,            \* Caller -> the bundles it loads, unloads and reloads
  MaxLibraries        \* bound: dlopen calls in a behaviour

Library == 1 .. MaxLibraries
NoLibrary == 0

ASSUME LifecycleAssumption ==
  /\ Manages \in [Caller -> SUBSET BundleId]
  /\ MaxLibraries \in Nat
  /\ Images = MaxLibraries + 1       \* image l is the mapping library l made

VARIABLES
  libraries,         \* NativeLoader.libraries
  opened,            \* number of libraries opened so far
  mapping,           \* the image each library keeps mapped
  latest,            \* the library opened last for each bundle
  deferred,          \* libraries scheduled for dlclose, with the pins they wait for
  closed,            \* libraries closed
  bundle_manifests,  \* the bundles with an entry in Runtime.bundle_manifests
  call,              \* what each caller is doing
  reader,            \* what each reader is doing
  hot_reload_enabled \* RuntimeConfig::hot_reload_enabled, fixed when the runtime is built

loader == <<libraries, opened, mapping, latest, deferred, closed>>
lifecycleVars == <<vars, loader, bundle_manifests, call, reader, hot_reload_enabled>>

NoCall == [phase |-> "none"]
CallPhase == {"staged", "init", "installed", "published", "cleanup",
              "checked", "notified", "forget", "reclaim", "preparing", "failed"}
Call == [op : {"load", "unload", "reload"}, bundle_id : BundleId, phase : CallPhase,
         library : Library \cup {NoLibrary},
         loader_name : BOOLEAN]       \* unload found the loader to reclaim with

\* A call that has opened a library knows it.
LibrariesKnown ==
  \A t \in Caller : call[t] # NoCall /\ call[t].phase \in {"init", "installed"} =>
    call[t].library \in 1 .. opened

LoaderTypeOK ==
  /\ libraries \in [BundleId -> Library \cup {NoLibrary}]
  /\ opened \in 0 .. MaxLibraries
  /\ mapping \in [Library -> Image]
  /\ latest \in [BundleId -> Library \cup {NoLibrary}]
  /\ deferred \subseteq [library : Library, pins : SUBSET Reader]
  /\ closed \subseteq Library

LifecycleTypeOK ==
  /\ TypeOK /\ LoaderTypeOK
  /\ bundle_manifests \subseteq BundleId
  /\ call \in [Caller -> Call \cup {NoCall}]
  /\ LibrariesKnown
  /\ reader \in [Reader -> [phase : {"out", "pinned", "calling"}, image : Image]]
  /\ hot_reload_enabled \in BOOLEAN

-----------------------------------------------------------------------------
Pinned == {r \in Reader : reader[r].phase # "out"}

\* An image stays mapped while one library that maps it is open: dlopen of an
\* unchanged file only counts up.
Mapped(i) == \E l \in 1 .. opened : l \notin closed /\ mapping[l] = i

Busy(b) == \E t \in Caller : call[t] # NoCall /\ call[t].bundle_id = b

Step(t, phase) == call' = [call EXCEPT ![t].phase = phase]
Return(t) == call' = [call EXCEPT ![t] = NoCall]

\* Faulty variant: dlclose at once.
CloseNow(l) == closed' = closed \cup {l} /\ UNCHANGED deferred
\* schedule_reclaim: dlclose once every reader pinned now has unpinned.
ScheduleReclaim(l) ==
  /\ deferred' = deferred \cup {[library |-> l, pins |-> Pinned]}
  /\ UNCHANGED closed

\* dlopen of bundle b's file: the mapping it already has when the file is
\* unchanged, else a new one.
Dlopen(b, i) ==
  /\ opened < MaxLibraries
  /\ \/ i = opened + 1
     \/ latest[b] # NoLibrary /\ i = mapping[latest[b]] /\ Mapped(i)
  /\ opened' = opened + 1
  /\ mapping' = [mapping EXCEPT ![opened + 1] = i]
  /\ latest' = [latest EXCEPT ![b] = opened + 1]
  /\ UNCHANGED <<libraries, deferred, closed>>

\* Faulty variants: the superseded library is forgotten, or kept in the map.
InstallForgets(b, l) ==
  libraries' = [libraries EXCEPT ![b] = l] /\ UNCHANGED <<deferred, closed>>
InstallKeepsOld(b, l) ==
  IF libraries[b] # NoLibrary THEN ScheduleReclaim(l) /\ UNCHANGED libraries
  ELSE libraries' = [libraries EXCEPT ![b] = l] /\ UNCHANGED <<deferred, closed>>
\* The end of load_inner: install the library, schedule the superseded one.
Install(b, l) ==
  /\ libraries' = [libraries EXCEPT ![b] = l]
  /\ IF libraries[b] = NoLibrary THEN UNCHANGED <<deferred, closed>>
     ELSE ScheduleReclaim(libraries[b])

\* Faulty variant: the loader keeps the library of an unloaded bundle.
KeepLibrary(b) == UNCHANGED loader
\* NativeLoader::unload.
LoaderUnload(b) ==
  /\ libraries' = [libraries EXCEPT ![b] = NoLibrary]
  /\ IF libraries[b] = NoLibrary THEN UNCHANGED <<deferred, closed>>
     ELSE ScheduleReclaim(libraries[b])
  /\ UNCHANGED <<opened, mapping, latest>>

-----------------------------------------------------------------------------
Start(t, op, b, phase, loader_name) ==
  /\ call[t] = NoCall /\ b \in Manages[t]
  /\ call' = [call EXCEPT ![t] =
       [op |-> op, bundle_id |-> b, phase |-> phase, library |-> NoLibrary,
        loader_name |-> loader_name]]

In(t, op, phase) == call[t] # NoCall /\ call[t].op = op /\ call[t].phase = phase

\* load_manifest_with_source up to begin_prepared_bundle_transaction: the
\* bundle must not be registered.
LoadBegins(t, b) ==
  /\ b \notin bundle_data
  /\ Start(t, "load", b, "staged", FALSE)
  /\ UNCHANGED <<vars, loader, bundle_manifests, reader>>

\* load_inner opens the library; the runtime's lock-free part of the load runs
\* init, whose registrations stay in the caller's own transaction.
LoadOpens(t) ==
  /\ In(t, "load", "staged")
  /\ \E i \in Image : Dlopen(call[t].bundle_id, i)
  /\ call' = [call EXCEPT ![t].phase = "init", ![t].library = opened + 1]
  /\ UNCHANGED <<vars, bundle_manifests, reader>>

\* load_inner returns before init: no file, no symbol, another ABI version.
LoadOpenFails(t) ==
  /\ In(t, "load", "staged")
  /\ Step(t, "cleanup")
  /\ UNCHANGED <<vars, loader, bundle_manifests, reader>>

\* init succeeded, in a load or in a reload.
LoaderInstalls(t) ==
  /\ In(t, "load", "init") \/ In(t, "reload", "init")
  /\ Install(call[t].bundle_id, call[t].library)
  /\ Step(t, "installed")
  /\ UNCHANGED <<vars, opened, mapping, latest, bundle_manifests, reader>>

\* init failed: reclaim_failed_init.
InitFails(t) ==
  /\ In(t, "load", "init") \/ In(t, "reload", "init")
  /\ ScheduleReclaim(call[t].library)
  /\ Step(t, IF call[t].op = "load" THEN "cleanup" ELSE "failed")
  /\ UNCHANGED <<vars, libraries, opened, mapping, latest, bundle_manifests, reader>>

\* unload_registered_bundle holds the residents lock that a commit needs.
ResidentsFree == \A t \in Caller : ~In(t, "unload", "forget")

\* commit_prepared_bundle_transaction_with_handles up to the registration.
LoadCommits(t) ==
  /\ In(t, "load", "installed")
  /\ ResidentsFree
  /\ \E S \in SUBSET Free : \E occ \in [S -> Plugin], deps \in DependencySets :
       RegisterPreparedBundle(call[t].bundle_id, occ, deps, mapping[call[t].library])
  /\ Step(t, "published")
  /\ UNCHANGED <<loader, bundle_manifests, reader>>

\* The commit fails: the provider set is not the manifest's, a function count
\* differs, or the registry refuses (BundleAlreadyRegistered among others).
LoadCommitFails(t) ==
  /\ In(t, "load", "installed")
  /\ Step(t, "cleanup")
  /\ UNCHANGED <<vars, loader, bundle_manifests, reader>>

\* The commit's last statement, after the bundle is published.
LoadRecordsManifest(t) ==
  /\ In(t, "load", "published")
  /\ bundle_manifests' = bundle_manifests \cup {call[t].bundle_id}
  /\ Return(t)
  /\ UNCHANGED <<vars, loader, reader>>

\* A failed load discards its transaction and has the loader unload the bundle.
LoadCleansUp(t) ==
  /\ In(t, "load", "cleanup")
  /\ LoaderUnload(call[t].bundle_id)
  /\ Return(t)
  /\ UNCHANGED <<vars, bundle_manifests, reader>>

-----------------------------------------------------------------------------
\* bundle_exported_contracts and bundles_depending_on_any.
Exported(b) == {c \in GuestContractId : guest_contract_index[c] \cap plugin_slots[b] # {}}
Dependents(b) ==
  {d \in bundle_data \ {b} : bundle_declared_deps[d] \cap Exported(b) # {}}

\* unload_bundle refuses with DependencyInUse.
MayUnload(b) == Dependents(b) = {}

\* unload_bundle's checks.
UnloadBegins(t, b) ==
  /\ b \in bundle_data /\ MayUnload(b)
  /\ Start(t, "unload", b, "checked", FALSE)
  /\ UNCHANGED <<vars, loader, bundle_manifests, reader>>

\* Faulty variant: the loader reclaims before the registry forgets.
UnloadReclaimsEarly(t) ==
  /\ In(t, "unload", "checked")
  /\ LoaderUnload(call[t].bundle_id)
  /\ Step(t, "notified")
  /\ UNCHANGED <<vars, bundle_manifests, reader>>
\* bundle_loader_name, then the Unloading callback.
UnloadNotifies(t) ==
  /\ In(t, "unload", "checked")
  /\ call' = [call EXCEPT ![t].phase = "notified",
                          ![t].loader_name = call[t].bundle_id \in bundle_manifests]
  /\ UNCHANGED <<vars, loader, bundle_manifests, reader>>

\* invalidate_bundle under the lifecycle locks; a bundle that is gone by now
\* is no error.
UnloadInvalidates(t) ==
  /\ In(t, "unload", "notified")
  /\ ResidentsFree
  /\ \/ InvalidateBundle(call[t].bundle_id)
     \/ call[t].bundle_id \notin bundle_data /\ UNCHANGED vars
  /\ Step(t, "forget")
  /\ UNCHANGED <<loader, bundle_manifests, reader>>

\* forget_bundle_manifest, then the lifecycle locks are released.
UnloadForgets(t) ==
  /\ In(t, "unload", "forget")
  /\ bundle_manifests' = bundle_manifests \ {call[t].bundle_id}
  /\ Step(t, "reclaim")
  /\ UNCHANGED <<vars, loader, reader>>

\* reclaim_via_loader: nothing to do without a loader name.
UnloadReclaims(t) ==
  /\ In(t, "unload", "reclaim")
  /\ IF call[t].loader_name THEN LoaderUnload(call[t].bundle_id) ELSE UNCHANGED loader
  /\ Return(t)
  /\ UNCHANGED <<vars, bundle_manifests, reader>>

-----------------------------------------------------------------------------
\* reload_bundle takes reload_serialize (held while `reload` is not idle),
\* snapshots the slots and fires Preparing.
ReloadBegins(t, b) ==
  /\ hot_reload_enabled
  /\ Start(t, "reload", b, "preparing", FALSE)
  /\ SnapshotSlots(b)
  /\ UNCHANGED <<loader, bundle_manifests, reader>>

\* begin_reload, and loader.reload opens the library.
ReloadOpens(t) ==
  /\ In(t, "reload", "preparing")
  /\ \E i \in Image : BeginReload(i) /\ Dlopen(call[t].bundle_id, i)
  /\ call' = [call EXCEPT ![t].phase = "init", ![t].library = opened + 1]
  /\ UNCHANGED <<bundle_manifests, reader>>

\* begin_reload, and loader.reload returns before init.
ReloadOpenFails(t) ==
  /\ In(t, "reload", "preparing")
  /\ BeginReload(reload.image)
  /\ Step(t, "failed")
  /\ UNCHANGED <<loader, bundle_manifests, reader>>

\* The new version's init registers a contract, into the open window.
InitRegisters(t) ==
  /\ In(t, "reload", "init")
  /\ Register(call[t].bundle_id)
  /\ UNCHANGED <<held, loader, bundle_manifests, call, reader>>

\* apply_reload_swap and the new manifest under the bundle_manifests lock.
ReloadSwaps(t) ==
  /\ In(t, "reload", "installed")
  /\ SwapSucceeds
  /\ bundle_manifests' = bundle_manifests \cup {call[t].bundle_id}
  /\ Return(t)
  /\ UNCHANGED <<loader, reader>>

\* apply_reload_swap returns an error; the loader is not told.
ReloadSwapFails(t) ==
  /\ In(t, "reload", "installed")
  /\ SwapFails
  /\ Return(t)
  /\ UNCHANGED <<loader, bundle_manifests, reader>>

\* The loader failed: abort_reload and the Failed callback.
ReloadAborts(t) ==
  /\ In(t, "reload", "failed")
  /\ AbortReload
  /\ Return(t)
  /\ UNCHANGED <<loader, bundle_manifests, reader>>

-----------------------------------------------------------------------------
\* A mediated call pins the epoch, ...
Pin(r) ==
  /\ reader[r].phase = "out"
  /\ reader' = [reader EXCEPT ![r].phase = "pinned"]
  /\ UNCHANGED <<vars, loader, bundle_manifests, call>>

\* ... finds the slot that holds the interface (bundle_id_for_guest_interface)
\* and runs its code, ...
Enter(r) ==
  /\ reader[r].phase = "pinned"
  /\ \E c \in GuestContractId : \E s \in guest_contract_index[c] :
       /\ tenant[s] # Vacant
       /\ reader' = [reader EXCEPT ![r] = [phase |-> "calling", image |-> tenant[s].image]]
  /\ UNCHANGED <<vars, loader, bundle_manifests, call>>

\* ... and unpins.
Unpin(r) ==
  /\ reader[r].phase # "out"
  /\ reader' = [reader EXCEPT ![r] = [phase |-> "out", image |-> 0]]
  /\ deferred' = {[d EXCEPT !.pins = @ \ {r}] : d \in deferred}
  /\ UNCHANGED <<vars, libraries, opened, mapping, latest, closed, bundle_manifests, call>>

\* The epoch has moved past every pin: the deferred dlclose runs.
Dlclose(d) ==
  /\ d.pins = {}
  /\ deferred' = deferred \ {d}
  /\ closed' = closed \cup {d.library}
  /\ UNCHANGED <<vars, libraries, opened, mapping, latest, bundle_manifests, call, reader>>

-----------------------------------------------------------------------------
LifecycleInit ==
  /\ Init
  /\ libraries = [b \in BundleId |-> NoLibrary]
  /\ opened = 0
  /\ mapping = [l \in Library |-> 0]
  /\ latest = [b \in BundleId |-> NoLibrary]
  /\ deferred = {} /\ closed = {} /\ bundle_manifests = {}
  /\ call = [t \in Caller |-> NoCall]
  /\ reader = [r \in Reader |-> [phase |-> "out", image |-> 0]]
  /\ hot_reload_enabled \in BOOLEAN

LoadStep(t) ==
  \/ \E b \in BundleId : LoadBegins(t, b)
  \/ LoadOpens(t) \/ LoadOpenFails(t) \/ LoadCommits(t) \/ LoadCommitFails(t)
  \/ LoadRecordsManifest(t) \/ LoadCleansUp(t)
UnloadStep(t) ==
  \/ \E b \in BundleId : UnloadBegins(t, b)
  \/ UnloadNotifies(t) \/ UnloadInvalidates(t) \/ UnloadForgets(t) \/ UnloadReclaims(t)
ReloadCallStep(t) ==
  \/ \E b \in BundleId : ReloadBegins(t, b)
  \/ ReloadOpens(t) \/ ReloadOpenFails(t) \/ InitRegisters(t)
  \/ ReloadSwaps(t) \/ ReloadSwapFails(t) \/ ReloadAborts(t)

LifecycleNext ==
  /\ \/ \E t \in Caller : \/ LoadStep(t) \/ UnloadStep(t) \/ ReloadCallStep(t)
                          \/ LoaderInstalls(t) \/ InitFails(t)
     \/ \E r \in Reader : Pin(r) \/ Enter(r) \/ Unpin(r)
     \/ \E d \in deferred : Dlclose(d)
  /\ UNCHANGED hot_reload_enabled

LifecycleSpec == LifecycleInit /\ [][LifecycleNext]_lifecycleVars

-----------------------------------------------------------------------------
\* A call under an epoch pin never runs in an unmapped image (native unload:
\* "keeps the code pages mapped until it completes").
PinnedCallMapped ==
  \A r \in Reader : reader[r].phase = "calling" => Mapped(reader[r].image)

\* Where hot reload is off, that holds: schedule_reclaim on unload and on a
\* failed init waits for the pins.  A reload breaks it (PinnedCallMapped).
ColdCallMapped == hot_reload_enabled \/ PinnedCallMapped

\* Where hot reload is off, every interface readers can find is backed by a
\* mapped image: "There is no window in which the interface is live but its
\* backing library is unmapped."
PublishedMapped ==
  \/ hot_reload_enabled
  \/ \A c \in GuestContractId : \A s \in published.index[c] :
       published.tenant[s] # Vacant => Mapped(published.tenant[s].image)

\* A bundle with providers that no call is working on has its manifest and an
\* installed library that is not on its way to dlclose, and all its slots point
\* into it (load_manifest_with_source, load_inner, reload_bundle).
LoadedBacked ==
  \A b \in bundle_data : ~Busy(b) /\ plugin_slots[b] # {} =>
    /\ b \in bundle_manifests
    /\ libraries[b] # NoLibrary
    /\ \A s \in plugin_slots[b] : tenant[s].image = mapping[libraries[b]]
    /\ libraries[b] \notin closed
    /\ \A d \in deferred : d.library # libraries[b]

\* An unloaded bundle that no call is working on has left no library and no
\* manifest behind (native unload: "never parked alive forever"), where hot
\* reload is off; the failed reload of a bundle that is gone leaves its library.
NothingLeft ==
  \A b \in BundleId \ bundle_data : ~Busy(b) =>
    libraries[b] = NoLibrary /\ b \notin bundle_manifests
UnloadedReclaimed == hot_reload_enabled \/ NothingLeft

\* Where the libraries are: with a call that runs init, installed, or waiting
\* for dlclose.
InInit == {t \in Caller : call[t] # NoCall /\ call[t].phase = "init"}
InHand == {call[t].library : t \in InInit}
Installed == {libraries[b] : b \in BundleId} \ {NoLibrary}
Waiting == {d.library : d \in deferred}

\* Every library opened is in exactly one place: with the call that runs its
\* init, installed, waiting for dlclose, or closed; none is closed twice
\* (load_inner, schedule_reclaim, NativeLoader::unload).
LibraryAccounted ==
  /\ 1 .. opened = InHand \cup Installed \cup Waiting \cup closed
  /\ InHand \cap (Installed \cup Waiting \cup closed) = {}
  /\ Installed \cap (Waiting \cup closed) = {}
  /\ Waiting \cap closed = {}
  /\ \A t, u \in InInit : call[t].library = call[u].library => t = u
  /\ \A a, b \in BundleId : libraries[a] = libraries[b] => a = b \/ libraries[a] = NoLibrary
  /\ \A d, e \in deferred : d.library = e.library => d = e

-----------------------------------------------------------------------------
(***************************************************************************)
(* What the properties rest on where no two callers work on one bundle.    *)
(***************************************************************************)
CallersApart == \A t, u \in Caller : t # u => Manages[t] \cap Manages[u] = {}

Phases ==
  ({"load"} \X {"staged", "init", "installed", "published", "cleanup"})
    \cup ({"unload"} \X {"checked", "notified", "forget", "reclaim"})
    \cup ({"reload"} \X {"preparing", "init", "installed", "failed"})

\* A caller works on a bundle of its own, and the reload of the registry is
\* that of the one caller that reloads.
CallTracked(t) ==
  call[t] # NoCall =>
    /\ call[t].bundle_id \in Manages[t]
    /\ <<call[t].op, call[t].phase>> \in Phases
    /\ call[t].op = "reload" =>
         /\ reload # Idle /\ reload.bundle_id = call[t].bundle_id
         /\ reload.phase = "preparing" <=> call[t].phase = "preparing"
CallsTracked ==
  /\ \A t \in Caller : CallTracked(t)
  /\ reload # Idle => \E t \in Caller : call[t] # NoCall /\ call[t].op = "reload"

\* No call has the slots of b in a state of its own.
Settled(b) ==
  \A t \in Caller : call[t] # NoCall /\ call[t].bundle_id = b =>
    call[t].phase \in {"published", "checked", "notified"}

\* The library of b is the one its slots point into.
Backed(b) == libraries[b] # NoLibrary /\ image[b] = mapping[libraries[b]]

\* The slots of a bundle are backed by its library, but while its reload is
\* between the install and the swap; a load has none before its commit, an
\* unload none after it invalidated.
BundleBacked(b) ==
  Settled(b) /\ plugin_slots[b] # {} =>
    /\ Backed(b)
    /\ \/ b \in bundle_manifests
       \/ \E t \in Caller : call[t] # NoCall /\ call[t].bundle_id = b /\ call[t].phase = "published"
CallBacked(t) ==
  call[t] # NoCall =>
    LET b == call[t].bundle_id
    IN  /\ call[t].op = "load" /\ call[t].phase # "published" => b \notin bundle_data
        /\ call[t].phase \in {"forget", "reclaim"} => b \notin bundle_data
        /\ call[t].phase = "installed" => libraries[b] = call[t].library
        /\ call[t].op = "reload" /\ call[t].phase \in {"init", "installed"} =>
             reload.image = mapping[call[t].library]
        /\ call[t].op = "reload" /\ reload.old_slots # {} =>
             b \in bundle_manifests /\ (call[t].phase # "installed" => Backed(b))
SlotsBacked == (\A b \in BundleId : BundleBacked(b)) /\ (\A t \in Caller : CallBacked(t))

\* The inductive invariant of the lifecycle.
LifecycleInv ==
  LifecycleTypeOK /\ StoreInv /\ LibraryAccounted /\ CallsTracked /\ SlotsBacked

\* Where hot reload is off: a loaded bundle has its manifest, an unloaded one
\* no library, and an unload has found the loader to reclaim with.
ManifestTracked(t) ==
  call[t] # NoCall =>
    LET b == call[t].bundle_id
    IN  /\ call[t].op # "reload"
        /\ call[t].op = "load" => b \notin bundle_manifests
        /\ call[t].phase = "published" => b \in bundle_data
        /\ call[t].phase \in {"checked", "notified"} => b \in bundle_manifests /\ b \in bundle_data
        /\ call[t].phase \in {"notified", "forget", "reclaim"} => call[t].loader_name
        /\ call[t].phase = "reclaim" => b \notin bundle_manifests
ManifestsTracked ==
  /\ \A t \in Caller : ManifestTracked(t)
  /\ \A b \in bundle_data : ~Busy(b) => b \in bundle_manifests
  /\ NothingLeft

\* A call under a pin runs in a library that is installed or waits for the pin.
CallsHeld ==
  \A r \in Reader : reader[r].phase = "calling" =>
    \E l \in 1 .. opened :
      /\ mapping[l] = reader[r].image
      /\ \/ \E b \in BundleId : libraries[b] = l
         \/ \E d \in deferred : d.library = l /\ r \in d.pins

UnloadInv == LifecycleInv /\ ManifestsTracked /\ CallsHeld
=============================================================================
