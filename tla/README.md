# A TLA+ model of the polyplug runtime

polyplug loads plugin bundles written in several languages into one host process. A bundle
registers *guest contracts* (tables of functions); hosts and other bundles find a contract by its
id, resolve the handle to an interface and call it. Bundles are loaded, unloaded and hot-reloaded
while other threads keep finding, resolving and calling. This directory models the parts of the
runtime where the order of steps matters, checks them with TLC and proves, with TLAPS, the properties
of most of them for every number of bundles, threads and calls. Paths below are relative to `src/crates/`.

## 1. Inventory

| Component | State | Operations | Interacts with | Hard behaviour | What makes it correct | Module |
|---|---|---|---|---|---|---|
| Registry `polyplug/src/runtime_store.rs` | slots with generations, contract index, bundle data, name index, declared dependencies, reload set, published view | register, commit a prepared bundle, invalidate, begin/abort/apply reload, find, resolve | called by everything below; owned by the runtime | slot recycling, the reload window, errors in the middle of a mutation | to a reader it is a directory whose bundles change all at once; a handle resolves to its own registration or is stale | `RuntimeStore`, `Directory`, `StoreRefinement` |
| Hot reload `polyplug/src/reload.rs` | `reload_serialize`, a slot snapshot, the visited set | reload a bundle, cascade to dependents, notify the host | registry, loader, manifests, host callbacks | snapshot used after foreign code ran; failure at each point; recursion over cyclic dependencies | a failed reload is invisible; a successful one keeps common contracts; the cascade ends and reaches everyone | `RuntimeStore`, `BundleLifecycle`, `Cascade` |
| Bundle lifecycle `polyplug/src/runtime.rs` | `bundle_manifests`, loaders | load, unload, unload cascade | registry, loaders, host callbacks | two threads load, unload and reload the same bundle; checks that are stale when used | published code is mapped; unloading leaves nothing behind; no dependent is orphaned | `BundleLifecycle`, `Cascade` |
| Native loader `polyplug_native/src/loader.rs` | open libraries by bundle | load, reload, unload with epoch-deferred `dlclose` | runtime, crossbeam-epoch | libraries closed while a call runs in them | no library is lost or closed twice | `BundleLifecycle` |
| Init stack and staging `polyplug/src/runtime.rs`, `runtime_store.rs` | bundle ids per thread, prepared transactions per thread | push, pop, current, begin, stage, take, discard | loaders, registration callbacks, internal plugins | nested loads, two threads on one bundle, failure after a nested load | registrations go to the bundle whose code runs; a bundle is one whole transaction | `InitStack` |
| Internal plugins `polyplug/src/runtime.rs`, `ffi.rs` | roots, residents, lifecycle markers | begin, attach, commit, abort, unload, destroy the runtime | registry, instance accounting | thread affinity, lock order, backing freed under an instance | backing outlives its instances and is released once, by its owner | `InternalPlugins` |
| Instance accounting `polyplug/src/runtime.rs` | `instance_counts` | reserve, cancel, destroy | internal plugins, unload | counts by bundle id across re-registration | exact for internal plugins | `InternalPlugins` |
| Host contracts `polyplug/src/runtime.rs` | `host_contracts`, `singleton_instances` | register, unregister, get | provider callbacks that re-enter the runtime | two first callers; failed creation; stale cache | one instance of a singleton | `HostContracts` (on `InitStack`) |
| Read path `polyplug/src/runtime_store.rs` | published view, revision, epoch pins | publish, pin, load, unpin | every lookup | memory reclaimed under a reader | a loaded view is alive | `ReadPath` |
| Generated callers `polyplug_codegen/src/generators/rust.rs` | cached interface, instance and revision | new, revalidate, dispatch, reset, drop | read path | cache made stale between resolve and revision read | an interface that is current when resolved is alive when called | `ReadPath` |
| Builder, scanner, capability graph `polyplug/src/runtime_builder.rs`, `loader/scanner.rs`, `compatibility/` | discovered manifests, graph, load order | scan, match, order, check versions, load | loaders, lifecycle | three different keys for "the provider", cycles, duplicate names | providers first; a strict build meets its minimum versions where they are not pinned inline | `Startup` (on `Cascade`) |
| Call arena `polyplug_abi/src/types/call_arena.rs` | buffer cursor, overflow chain | new, alloc, reset, drop | dispatch, host allocator | alignment and overflow at the ends of blocks and of the address space | results do not overlap; blocks are reused and freed once | `CallArena` |
| VM loaders `polyplug_lua`, `polyplug_js`, `polyplug_python` | VM per bundle, instance tables, dispatch guards, `sys.modules` | create, destroy, dispatch, load, unload | each other, through guest code | VM locks, re-entrancy, lock order, imports that interleave | a thread waits for itself, or threads in a cycle, only where no guard applies; handles route to their own object; bundles keep their own modules | `VmDispatch`, `PythonModules` |
| FFI and last error `polyplug/src/ffi.rs`, `runtime.rs` | `last_error` | set, get, clear | all host calls | shared between threads by design | – | lifecycle calls in `InternalPlugins`, else not |
| .NET loader, signing, manifest parsing, logger, code generation, CLI, mirror generator, SDK validator | – | – | – | managed bridge, text, files, cryptography | – | not modelled |

`PROJECT.json` lists the components with their status and the hazards at their source lines.

## 2. Plan

Order of work, the most important behaviour first. All of it exists.

1. `RuntimeStore`: the registry, with its inductive invariant proved.
2. `BundleLifecycle` (EXTENDS `RuntimeStore`): the calls that drive registry and loader.
3. `ReadPath`: the atomic `publish` of `RuntimeStore` taken apart.
4. `InternalPlugins`: backing, markers, counts and locks.
5. `Cascade`: recursion over dependencies.
6. `RegistryProofs`: types and safety of the registry, and its refinement of `Directory`.
7. `Directory` and `StoreRefinement` (EXTENDS `RuntimeStore`): the abstract specification and the
   refinement mapping.
8. `InitStack`, and `HostContracts` (EXTENDS `InitStack`): the two kinds of foreign code that run
   inside the runtime's calls, on one call stack.
9. `Startup` (EXTENDS `Cascade`): the builder, from the scan to the states the cascades start in.
10. `CallArena`.
11. `VmDispatch`.
12. `PythonModules`.
13. Proofs about the other components: of `BundleLifecycle` in `RegistryProofs` too, and one module
    each for the rest: `ReadPathProofs`, `InternalPluginsProofs`, `HostContractsProofs`,
    `CallArenaProofs`, `VmDispatchProofs`, `PythonModulesProofs`, `CascadeProofs` (with `Startup`).

## 3. The modules

Every module names its variables and actions after the fields and functions of the code; the "map"
of `PROJECT.json` gives the lines. A step of a model is what the code does without letting another
thread see the state in between: a critical section, or the code between two critical sections,
callbacks or loader calls. Definitions marked *Faulty variant* are what a plausible mistake in the
code would turn the next definition into; they are used only to see that the properties notice.
Each module has a type invariant, which documents the shape of its state and serves the proofs.

**RuntimeStore.** One action per mutating method of `RuntimeStore`; each takes the write lock and
publishes before it releases it. The steps of a reload are separate, because the loader and the
host's callbacks run in between without a lock. `held` is one handle that some caller holds and
what has happened to its slot since. A tenant of a slot stands for `entry` and `interface`, which are
set and cleared together; index and slot lists are sets, so `find` may return any provider; version
filters are left out. `Spec` is every interleaving; `SerialSpec` is the discipline of a host that
neither loads nor unloads a bundle while it is reloading it (`NotReloading`); reloading a bundle that
is not loaded is part of it. Section 5 lists what goes wrong without that discipline.

**Directory, StoreRefinement.** `Directory` is what the registry promises its readers: seats that hold
offers, bundles whose offers are made, replaced and withdrawn all at once, tickets that are good until
their seat is given up and never again. `StoreRefinement` maps a slot to a seat, which holds an offer
when the published view indexes the slot, and the held handle to a ticket, which is good when it
resolves. Pending slots of a reload are thereby empty seats, and a whole reload, aborted, failed or
completed, is at most one step of the directory.

**BundleLifecycle.** Each caller is in at most one load, unload or reload, and the phases of the
call are where the code drops its locks. Libraries are numbered as they are opened; `deferred` holds
the ones scheduled for `dlclose` with the pins they wait for. A load or reload may fail at every
point at which the code returns an error. Readers pin, find and enter, as `create_guest_instance`
does. `Manages` says which caller handles which bundles, so that runs can give each caller its own
bundle or set two on one. `hot_reload_enabled`, the builder's setting, is either value in every run.

**ReadPath.** `publish` in three steps (swap, defer, bump), readers, and generated callers that
cache an interface without a pin. One slot is followed. Callers compare interfaces by address, so
interfaces have one (`Place`), and a new interface may get the address of a freed one; an instance is
represented by the interface that created it. `resolved_in` is a history variable: the publication
whose view the cached interface was resolved in.

**InternalPlugins.** Plugins are transactions, numbered as they begin. `held` makes explicit the
mutexes that calls keep across steps; the registry is reduced to which transaction each bundle has
published. `Disciplined` is the host discipline that lifecycle calls for one bundle do not overlap; an
internal and a loader-backed bundle do not share a name, and only what was staged is committed.

**InitStack.** A *window* is open from the begin of a prepared transaction to its end, and pushes the
bundle's id in between; the init code of a window may open more. `windows` is the ghost record of
whose code is running, against which the runtime's own `init_bundle_stack` is compared; every staged
or registered contract remembers the window that provided it. Transactions of one thread end
innermost first, which a loader's own push and pop guarantee and a host with several foreign
transactions must keep to. Code of another bundle that is called from an init is, in the code as in
the model, judged as the bundle being initialised. `NestsItself` lifts the restriction that no init
loads its own bundle.

**HostContracts** (on `InitStack`). The gets of a thread are a second stack, and each remembers how
many windows were open when it began, so that gets and windows interleave as calls nest: init code
asks for host contracts, and a provider's `create_instance` loads bundles and registers contracts. The
one call a provider may not make is a get of a singleton while it creates one (`CallbackMayGet`),
for which the thread would wait for itself.

**Cascade.** The recursion of `reload_bundle` and `unload_bundle_cascade` as a stack of frames, over
every dependency relation. What a bundle reaches (`Reach`) is the least set that has it and is closed
under the relation; the code's recursive collections are compared with that. What one reload or unload
does is left to the other modules: a reload succeeds or fails, and dependencies and flags stay what
they are, although a reload may bring new ones (`reload.rs:192`). Another thread unloads bundles during
an unload cascade, which holds no lock between its steps. What an unload of a candidate does to its
reload is the interleaving of two calls on one bundle that `BundleLifecycle` has and its run's
discipline excludes; the cascade does not repeat it. Other threads load nothing meanwhile.

**Startup** (on `Cascade`). `RuntimeBuilder::build`: the scan, entry by entry; the capability graph;
the version check; the order; the loads; every error. A version is a pair or absent, a contract id a
name and a major; an entry of `provides` may pin a version inline (`name@version`), which decides its
id. The bundle that an edge goes to (last provider of the id), the one the version check looks at (last
provider of the bare name, of which it compares the bundle's version) and the one a dependency may
name are kept apart, as they are in the code; so are the two readings of an absent version (1.0.0 in
the graph, 0.0.0 in the check). When `build` returns, `depends` is what `bundles_depending_on_any`
would compute, which may be cyclic although the graph was not: the graph has one provider per
dependency, the registry all of them. A second initial state is a runtime built empty, with every
dependency relation.

**CallArena.** Addresses are numbers up to `UsizeMax`, so that `checked_add` and the wrap it prevents
can be told apart. `heap` is the host allocator, which may hand out any free aligned region of a few
sites or null. Requests of size zero, with a bad alignment, or that exceed everything are included.

**VmDispatch.** `create_instance`, `destroy_instance` and `dispatch` of the three script loaders, with
the locks they take in order: Lua holds its instances mutex while it waits for the VM, then queues on
`dispatch_lock`; JavaScript clones the instance out of the map; Python does everything under the GIL,
which a foreign call gives up. A thread's calls nest through guest code, as `Calls` allows. The locks of
the VMs are not reentrant, as the loaders' comments have it, so a thread may come to wait for itself.
`Calls` of the run has functions and factories that call other contracts of their own bundle, in Lua
and JavaScript. `CallsOrdered` is the one discipline of guest code: an order of the VMs along which
calls go, calls within a VM included. `MCVmDispatch` evaluates it for the calls of the run.

**PythonModules.** All runtimes of a process share the interpreter's `sys.modules`. `load` takes
`PYTHON_LOAD_LOCK`, puts the bundle's directory on `sys.path`, snapshots, imports and isolates;
imports of different loads would interleave but for the lock. A load may fail after any number of
imports. Python does not support hot reload.

## 4. What the runs check

| Run | Instance | Shows |
|---|---|---|
| `store` | one bundle, three plugins for two contracts, three slots, generations mod 2 | `HandleExact`, `OneImagePerBundle`, `StoreInv`, `ReloadKeepsContracts`, `AbortKeepsProviders`, `ImplementsDirectory` |
| `lifecycle` | two callers with a bundle each that may depend on the other's, a pinned reader, three libraries, hot reload enabled or not | `ColdCallMapped`, `PublishedMapped`, `UnloadedReclaimed` (without hot reload); `LoadedBacked`, `LibraryAccounted` |
| `read_path` | two readers, two callers, three publications, addresses reused | `LoadedViewAlive`, `ResolvedInterfaceAlive` |
| `internal_plugins` | an internal and a loader-backed bundle, two threads, two users, three transactions | `BackingAlive`, `ResidentOnOwner`, `BackingAccounted`, `BackingFiled`, `CountExact`, `NoLockCycle` |
| `host_calls` | two threads, two bundles, two guest contracts, calls nested two deep, three windows; one host contract with a singleton and a multi-instance interface | `CallerExact`, `WholeTransactions`, `SingletonOnce` |
| `startup` | manifests of three directories (structures over two contracts; versions of one contract; inline versions; two bundles of one name), and every relation over three bundles; two cascade calls, at most one foreign resident, another thread's unloads | `ProvidersFirst`, `StrictHonoured`, `DependentsReloaded`, `CascadeComplete`, `NoOrphan`, `AffinityFirst`, `CallReturns` |
| `call_arena` | 64 addresses, a buffer at each end, sizes 0 to 62, four sites for blocks, three results at a time | `ResultsApart`, `BlocksOwned`, `RetentionBounded`, `FreshBlockServes` |
| `vm_dispatch` | two threads; two Lua, two JavaScript and one Python contract; calls nested three deep, within a bundle too | `ReentryUnguarded`, `NoLockCycle`, `HandleRoutes`, `GuardExact` |
| `python_modules` | two runtimes, two bundles, two module names, four loads, which fail at any point | `OnlyFailedLeak`, `IsolatedExact` |

Why the bounds are enough. *store*: three plugins, two of them for one contract, give every shape of
match between an old and a new set; three slots leave room for both sets at once, so recycling, holes
and growth all occur. A second bundle adds slots of another owner, and takes the run past its time;
that bundles do not disturb each other is what the proofs show for any number of them. Generations
wrap at two, so wrap-around happens everywhere; a handle is forgotten when the generation comes round
to its own again, which is the guarantee the code's u32 gives. *lifecycle*, *internal plugins*: three
libraries are an old one, its replacement and a later one; three transactions are one published, one
that races it and one after an unload. *host_calls*: depth two puts any call inside any other; three
windows are two that race and one after an unload; two contracts let a transaction be half done.
*startup*: three bundles contain every cycle shape, the diamond with an edge between its sides and two
providers of one contract, and two calls let the second start from what a failed first one left.
*call_arena*: the units are words; the sizes are one that fits a hole, one that does not, one that
overflows a block and one that overflows the address space. *vm_dispatch*: three deep is a call that
comes back to its own VM through another. *python_modules*: four loads are two racing ones, one that
fails, and one after an unload. Two threads exhibit every race the hazards name. Symmetry is
used only where no property distinguishes the elements and no liveness is checked.

Deadlock checking is off where the system may stop: bounds on calls and transactions are reached, or
the runtime is destroyed. It is off in `vm_dispatch` also because the system really does stop there: a
thread that re-enters its VM where no guard refuses it waits for itself. Which threads those are is
what `ReentryUnguarded` and `NoLockCycle` say.

## 5. Disagreements and the disciplines

Three disagreements between code and documentation are runs with `expect: violation`, each with a
finding that quotes the text. They need no unusual host: one caller, and for the first two a reader,
are enough.

| Run | Property | What happens |
|---|---|---|
| `lifecycle_reload_call` | `PinnedCallMapped` | the native reload schedules the old library for `dlclose` before the swap; a call that pins in between runs in an image that is closed under it |
| `read_path_reload` | `CheckedInterfaceAlive` | a generated caller resolves, a publication follows, and the caller pairs the old interface with the new revision |
| `python_failed_load` | `OwnModules` | a load fails after it imported and returns before it isolates; its packages stay under their common names, and the next bundle is given them |

In the passing runs the properties stop where a further claim of the documentation fails. The runs have
these behaviours, and each property is stated so that it says exactly what holds beside them:

* Lua re-entry. "A cross-call that would re-enter a VM already executing a dispatch on the same thread
  returns `AbiErrorCode::ReentrantCall`" (`docs/TRUST_MODEL.md:194`, `docs/FEATURES.md:338`; "back to a
  contract in THIS same VM ... MUST be refused", `polyplug_lua/src/loader.rs:143`). Lua's
  `in_dispatch_threads` is made per contract (`loader.rs:1048`): a function that calls another contract
  of its own bundle passes the guard and waits for the VM lock its thread holds. JavaScript's guard is
  the VM's. In neither language does `create_instance` mark its thread, so a factory that calls its own
  VM is not refused either. `ReentryUnguarded` has exactly these two cases.
* Lua destroy. A Lua function that destroys an instance of its bundle waits for the instances mutex
  without having left its VM, while a thread inside a lookup holds the mutex and waits for the VM
  (`lua_destroy_instance`, `polyplug_lua/src/loader.rs:346`). JavaScript, whose lookup lets go of the
  map, may do the same. `NoLockCycle` says that every waiting cycle has a thread that re-enters its VM.
* Address reuse. After two reloads the new interface may lie where the first was freed. A caller that
  made no call in between takes it for the interface it has cached and keeps the first one's instance
  ("Otherwise the old instance is ABANDONED", `rust.rs:4064`; the comparison of addresses is at
  `rust.rs:4087`). `ResolvedInterfaceAlive` covers the interface, and an instance whose own interface is
  alive; a claim that the instance is always the interface's own fails in the same run.
* Inline versions. The capability graph takes the version of a `name@version` entry for the one provided
  ("The inline `@version` (when present) is the authoritative provided version",
  `capability_graph.rs:203`); `validate_bundle_compatibility` compares the bundle's version
  (`runtime.rs:1879`). A bundle of version 1.1 that provides `c@1.0` passes a strict check for a minimum
  of 1.1 ("`Strict`: returns `Err` on any mismatch"), and one that pins another major passes it for the
  provider that the order really takes. `StrictHonoured` excepts a contract whose last provider pins it.
* Python leftovers. What a failed load left is in the snapshot of the next one, so the next bundle not
  only runs the failed one's module but has none of that name under its own prefix. `OnlyFailedLeak`
  says that nothing else leaks, and `IsolatedExact` that what a load created itself is under its prefix
  exactly while its bundle is loaded. Imports that a bundle makes after its load, inside a call, are
  not isolated either; they are not in the model.
* Dependents. Two callers work on bundles of their own; the second loads a dependent of the first's
  bundle between that one's check for dependents and its invalidation (`runtime.rs:1205`), and the
  dependent is left without what it depends on. No property about it is stated.

The same models show more, with a constant changed or with a property that is defined and in no run:

* Cascade, `ReinitializedLast`. With B and C depending on A and B also on C, reloading A reloads B,
  then C, and C's own cascade skips B as visited: B was initialised against the old C. Candidates are
  taken in the order of their names (`reload.rs:371`).
* Start-up, `NamedBundleFirst`. A dependency that names a bundle is checked against that bundle, but
  its edge goes to the last provider of the contract, so the named bundle may be loaded later.
* Init stack, `NestsItself = TRUE`. A bundle's init loads its own bundle: the inner commit fails having
  taken its transaction, and the cleanup (`runtime.rs:1647`) then discards the outer one. What the outer
  init registers next is published at once, also when the outer load fails (`WholeTransactions` fails;
  "If any stage fails, the transaction publishes nothing", `docs/ARCHITECTURE.md:167`).

Two passages of the documentation describe earlier code; the models follow the code. The init window is
a stack of bundle ids per thread in the runtime, not the cell `INIT_BUNDLE_ID` of `docs/TRUST_MODEL.md:117`
and `docs/FEATURES.md:353`; live instances are counted per bundle, not per contract as in
`docs/UNLOAD_DESIGN.md:177`.

The other runs assume a host that keeps to a discipline (`SerialSpec`, `Manages`,
`Disciplined`, `NestsItself`, `Calls`). The same models, with the discipline lifted, have these behaviours, so the
disciplines are needed:

* Registry. The handle of a registration inside an aborted reload resolves to whoever recycles the
  slot, because `abort_reload` frees it without a new generation. Colliding names inside one reload
  are both published, because pending slots are not in the index the check reads. Reloading a bundle
  that is not loaded leaves it without a name entry. (These three need no lifted discipline; no
  property about them is stated.) Under `Spec`, an unload inside a reload lets the swap vacate the
  new provider (`ReloadKeepsContracts` fails), and an error in the swap loop returns without
  publishing (`PublishedCurrent` fails).
* Lifecycle, two callers on one bundle. The loser of two loads unloads the winner's library
  (`PublishedMapped` fails); an unload before the manifest entry leaks the library
  (`UnloadedReclaimed` fails).
* Internal plugins, `Disciplined = FALSE`. A failed commit or abort removes the marker of a published
  plugin, which is then unloaded under an instance (`BackingAlive` fails); the thread of one resident
  is checked and another one is released (`ResidentOnOwner` fails). With one name for an internal and
  a loader-backed bundle, a cancelled constructor decrements its successor's count.
* Init stack. `commit_internal_plugin` pops the top of the stack whichever transaction it commits, and
  also when it finds none; `abort_internal_plugin` pops only if it found one. Foreign transactions that
  a host closes out of order, or on another thread, therefore pop another bundle's id.
* Host contracts. A singleton contract that is unregistered and registered again keeps answering with
  the instance of the old interface. A provider that asks for a singleton while it creates one waits
  for its own thread.
* Script loaders. If code of two VMs calls the other one, two threads that do so at once deadlock
  (`NoLockCycle` fails with a JavaScript function that calls Lua added to `Ordered`).
* Cascade. Over a dependency cycle, an unload that is refused at the target leaves it loaded without
  the bundles it depends on; `NoOrphan` therefore excludes cycles.
* Start-up. Of two bundles of one name the second is loaded in the first's place before the build
  fails; `DistinctNames` excludes them from the start-up properties.
* Last error. `last_error` is one message per runtime, set by any failing call and copied and cleared
  in two critical sections: a thread may read, or clear, the message of another thread's failure.

## 6. Fairness and liveness

The only liveness property is `CallReturns`, in `Cascade` and checked in `startup`, under weak fairness
of the steps of the call in progress (`Step`): a thread inside `reload_bundle` or
`unload_bundle_cascade` is scheduled again, and the loaders and callbacks it runs return. The walk holds
no lock across a recursive call but `reload_serialize`, which it does not take again, so nothing else
can hold it up. Nothing is assumed of the builder or of the host. The other modules state no fairness:
whether a host ever calls again is up to the host, and that calls do not wait for each other for ever
is stated as the absence of lock cycles.

## 7. What is proved

Every theorem holds for every value of the constants: any number of bundles, contracts, slots,
threads, callers and calls, any generation and address width. Each proof module shows that an inductive
invariant, defined at the end of the module it is about, holds initially and is kept by each action,
and derives the properties from it. TLC checked each of these invariants on the run's instance first.
The only assumptions on constants are the `ASSUME`s of the modules, which TLC evaluates in the runs, and
the host disciplines named below, which are hypotheses of the theorems that need them; section 5 says
what happens without them.

* **`RegistryProofs`**, of `RuntimeStore`. `TypeCorrect`: `Spec => []TypeOK`, under every interleaving, those that
  `SerialSpec` leaves out included. `StoreInvariant`: `SerialSpec => []StoreInv`, the conjunction of
  - `IndexExact`, `SlotsOwned`: what one structure names the others have. Alone they are not
    inductive: the swap moves tenants between snapshotted and new slots, so they need
  - `ReloadWindow`: while a reload runs, its snapshot is exactly the bundle's slots of the old image,
    and pending slots belong to the bundle and are new;
  - `PublishedCurrent`: the published data are the data, so what readers see follows from the rest;
  - `GenerationTracked`, `HandleIndexed`: what the held handle remembers agrees with its slot's
    generation, from which `HandleExact` follows although generations wrap;
  - `ImagesTracked`: the image of a published tenant is its bundle's current one.

  From it: `RegistryExact`, `HandlesExact`, `NoHalfSwap`, and the action properties
  `AbortIsInvisible` and `ReloadKeeps`.

  And the refinement, `RegistryImplementsDirectory`: `SerialSpec => D!Spec`. Initial states map to
  initial states; each action of the registry maps to one step of the directory or to none. The steps
  that write only pending slots change no seat; the swap is one `ReplaceOffers`, by `ReloadWindow`.
* **`RegistryProofs`**, of `BundleLifecycle`. Without any discipline: types, and `LibrariesAccounted` (no library is
  lost or closed twice, also when two callers load, unload and reload one bundle). For callers with
  bundles of their own (`CallersApart`): `LifecycleInvariant`, which ties the phase of each call to the
  registry, the loader and the manifests, and `BundlesBacked`. The argument is a frame: a step of a
  caller changes what concerns its bundle only, so it suffices to look at that bundle. If hot reload is
  off besides, `UnloadInvariant` adds that a pinned call is in a library that is installed or waits for
  its pin: `PinnedCallsMapped`, `PublishedInterfacesMapped`, `UnloadsReclaim`. With hot reload the first
  of them is false (section 5).
* **`ReadPathProofs`.** Without any discipline, and with addresses that are reused. `ReaderInvariant` and
  `LoadedViewsAlive`: a view that is loaded is the current one, or the writer is about to defer it and it
  was loaded under a pin that is still there, or it is deferred with that pin. `CallerInvariant`: a cached
  interface is the one of the view it was resolved in (`CallersTracked`), and interfaces that are alive
  have addresses of their own (`AddressesApart`), without which `Refresh` could keep a pointer to the
  wrong one of two. From it `ResolvedInterfacesAlive`: a revision that has not passed the one the
  interface was resolved in is that of the current view, whose interface is alive.
* **`InternalPluginsProofs`.** Without any discipline: `BackingInvariant`, from which
  `BackingInOnePlace` and `BackingsFiled`; and `LocksOrdered`, because who has one of the lifecycle
  mutexes and waits waits for a later one. For a host that is `Disciplined` and whose own plugins have
  names of their own (`NamesApart`): `HostInvariant`, which adds that markers, thread affinity, users
  and counts follow what is published, and `CountsExact`, `ResidentsOnOwner`,
  `BackingOutlivesInstances`.
* **`HostContractsProofs`** (with `InitStack`). Without any discipline: `HostTypeCorrect`, for which
  `active_init_count` is shown to be the number of ids on all stacks (`CountExact`), and `HostInvariant`:
  the lock of `singleton_instances` is held by the one get that creates a singleton, on whose thread
  other gets and whole loads may be stacked, and what callers were handed is what is cached. From it
  `SingletonsOnce`. For bundles whose init does not load the bundle itself (`~NestsItself`):
  `InitStackInvariant`, by which a thread's windows, its init stack and its transactions are one stack of
  distinct bundles. The point is that every way out of a window, the commit that fails and discards twice
  included, takes the window's own transaction; from it `CallersExact` and `TransactionsWhole`.
* **`CallArenaProofs`.** `ArenaInvariant`, from `ArenaAssumption` only: blocks lie inside the address
  space, apart from the buffer and each other (`BlocksApart`); a block that has been used since the last
  reset has a result (`ResultsTracked`), so that retained blocks can be counted against results. From it
  `ResultsStayApart`, `BlocksAccounted`, `RetentionStaysBounded` and, as an action property,
  `FreshBlocksServe`, whose point is that `Needed` covers the worst padding.
* **`VmDispatchProofs`.** For any calls of guest code: `DispatchInvariant`. Each step lets the innermost
  call of a thread go on, begins a call above it or ends it (`GoesOn`, `Begins`, `Ends`), and each of the
  three keeps the shape of the stacks, that no two calls of a thread leave the same mark (without which
  the end of one would drop the mark of the other), that locks belong to the phases of calls, and that an
  instance that is looked up stays in the map. From it `GuardsExact` and `HandlesRoute`. For guest code
  that keeps to an order of the VMs (`CallsOrdered(rank)`): `StackStaysOrdered`, and `NoWaitingCycle`:
  locks have levels (instances mutex, dispatch lock, VM, then the next VM), whoever has a lock that is
  waited for, waits, and does not re-enter its VM waits for a higher level, and of a set of levels below a
  bound one is the highest. `ReentryOnlyUnguarded` needs no order: a thread that runs in a VM through a
  dispatch has left the mark of that contract's guard (`MarkedOnce`), which refuses it.
* **`PythonModulesProofs`.** Wherever loads fail: `ModuleInvariant`, which says that between loads only
  what failed loads left is under a common name, that the load with the lock has this in its snapshot and
  its own modules under the other names (`NamesTracked`), and that prefixes are not shared; from it
  `OnlyFailedLoadsLeak` and `PrefixesHoldLoaded`.
* **`CascadeProofs`** (with `Startup`). For any number of bundles, any dependencies, cyclic ones
  included, any manifests, and other threads' unloads at any point: `StartupInvariant`, which is
  `WalkInv` for the walks and `LoadsInOrder` for build. Reachability is the least closed set
  (`Reach`), so that no induction is needed: what a bundle reaches is closed, lies in every closed set
  with the bundle, and grows along an edge (`ReachCloses`, `ReachLeast`, `ReachStep`).
  - `ReloadTracked`: a dependent that opted in, of a bundle that was reloaded, was reloaded, has failed
    or is in the `todo` of a frame. When the last frame is left no `todo` is: `DependentsAreReloaded`.
  - `UnloadTracked`: a visited bundle that is loaded has a frame, and so has every loaded dependent of
    a bundle that is gone, whoever unloaded it. When the last frame is left, what is gone is therefore
    closed under the dependents found at the beginning: `CascadesAreComplete`. All frames are within
    what the affinity check walked, so the refusal in the middle of a cascade does not occur:
    `AffinityIsCheckedFirst`.
  - `FrameTracked`: the bundle of a frame depends, through others, on that of every outer frame. A
    loaded dependent of the bundle about to go would have an outer frame, and so be on a cycle:
    `NothingIsOrphaned`.
  - `LoadsInOrder`: what is loaded and what is to load are one topological order turned around. With
    names that are distinct, hence a bijection between manifests and names, it gives
    `ProvidersLoadFirst`; and `StrictIsHonoured`, because if the last provider by bare name, which the
    version check sees, does not pin the contract inline and passes with a version of its own, it is also
    the last of the contract id, which the order loads first; and if it passes without one, then the
    minimum is 0.0 and every provider of the id meets it.
  - `CascadeTypeCorrect` bounds the depth of the recursion by the number of bundles, and `WalksProgress`
    is the variant behind `CallReturns`: each step of a call lowers, in the order of a dictionary, the
    bundles not visited, the depth, and what the innermost frame has to visit; no other thread changes
    these.

  `StartupAssumption` says only that the directories have at most as many entries as there are names,
  that manifests have a name, and that versions are missing or pairs of naturals.

## 8. What is only model-checked, and what is not modelled

Model-checked on the instance above and not proved: `CallReturns`. It is a liveness property, and the
proof system has no support for fairness and `ENABLED`. Its variant is proved (`WalksProgress`). What
remains with TLC is that a step of a call that has not returned is always enabled, and that weak
fairness of `Step` then takes it. Every other property that a passing run checks
is a theorem, under the discipline its run has.

Not modelled:

* memory orderings below the level of `publish`'s steps (the repository has a loom model of them);
* the contents of contracts and calls, argument conversion, file formats and signatures;
* the .NET loader, whose operations each forward to one managed function, and the load and unload of
  the Lua and JavaScript loaders, which follow the protocol `BundleLifecycle` has for the native one;
* notification callbacks that call back into the lifecycle from inside a reload (documented by the
  code as a deadlock; the `Failed` callback of an unsuccessful swap even runs with `bundle_manifests`
  locked, `reload.rs:264`), and `reset_instance_count_for_bundle`, whose counts only feed a warning;
* the code generators, the API parser, the mirror generator and the SDK validator. They are more than
  three fifths of the repository's Rust and turn text into text without state: a model of them would
  repeat their templates. The one protocol in the code they emit, the caching of generated callers, is
  in `ReadPath`, from the Rust generator; Python's and C++'s emit the same order of steps.
