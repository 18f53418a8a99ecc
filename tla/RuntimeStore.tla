---------------------------- MODULE RuntimeStore ----------------------------
(***************************************************************************)
(* The registry of crates/polyplug/src/runtime_store.rs: slots with        *)
(* generations, the contract index, per-bundle data, the reload window and *)
(* the published read view.  One action per mutating method; each method   *)
(* holds the write lock from its first read to its publish(), so it is one *)
(* step.  The caller of the reload methods (reload.rs) is part of the      *)
(* model: it snapshots the bundle's slots, opens the window, lets the      *)
(* loader re-register, then swaps or aborts, and `reload_serialize` keeps  *)
(* at most one such caller active.                                         *)
(*                                                                         *)
(* Abstractions: a slot's `entry` and `interface` are set and cleared      *)
(* together and are one `tenant`; the vectors guest_contract_index[c] and  *)
(* plugin_slots are sets, so `find` may return any indexed provider; the   *)
(* min_version filter is left out; an interface is identified by the       *)
(* loader image (library or VM context) its functions live in.             *)
(***************************************************************************)
EXTENDS Integers, FiniteSets, Functions

CONSTANTS
  BundleId, GuestContractId,
  Plugin,             \* plugin descriptors a bundle can register
  ContractIdOf,       \* [Plugin -> GuestContractId], the interface's contract_id
  CanonicalName,      \* [Plugin -> names], canonical_contract_name
  DependencySets,     \* the contract-dependency sets manifests declare
  MaxSlots,           \* bound: slots the registry may grow to
  GenerationModulus,  \* the u32 generation wraps here (2^32 in the code)
  Images,             \* bound: image ids, recycled; 2 tell old from new
  Vacant, NoHandle

Slot == 0 .. MaxSlots - 1
Generation == 0 .. GenerationModulus - 1
Image == 0 .. Images - 1
Tenant == [bundle_id : BundleId, plugin : Plugin, image : Image]

ASSUME RegistryAssumption ==
  /\ MaxSlots \in Nat
  /\ Images \in Nat \ {0}
  /\ GenerationModulus \in Nat \ {0}
  /\ ContractIdOf \in [Plugin -> GuestContractId]
  /\ DependencySets \subseteq SUBSET GuestContractId
  /\ Vacant \notin Tenant

VARIABLES
  tenant,                \* slots[i].entry and slots[i].interface
  generation,            \* slots[i].generation
  guest_contract_index,  \* contract id -> published slots
  bundle_data,           \* the bundles with an entry in bundle_data
  plugin_slots,          \* bundle_data[b].plugin_slots, {} when absent
  bundle_name_index,     \* the bundles filed under their name
  bundle_declared_deps,  \* bundle -> declared contract ids
  reloading_bundles,
  published,             \* the ReadView readers load without a lock
  image,                 \* the image the loader has installed for each bundle
  reload,                \* the reload in progress (reload.rs)
  held                   \* one handle some caller holds, with its history

store == <<tenant, generation, guest_contract_index, bundle_data, plugin_slots,
           bundle_name_index, bundle_declared_deps, reloading_bundles, published>>
vars == <<store, image, reload, held>>

Handle == [index : Slot, generation : Generation, bundle_id : BundleId,
           contract_id : GuestContractId,
           pending : BOOLEAN,                 \* minted for a pending slot
           age : Generation]                  \* vacations of the slot since
Idle == [phase |-> "idle"]
Reload == [phase : {"preparing", "open"}, bundle_id : BundleId, old_slots : SUBSET Slot,
           image : Image,                     \* the image the loader opens, once it has
           old_contracts : SUBSET GuestContractId,  \* what the old version provided
           new_contracts : SUBSET GuestContractId]  \* what the new one has registered

TypeOK ==
  /\ tenant \in [Slot -> Tenant \cup {Vacant}]
  /\ generation \in [Slot -> Generation]
  /\ guest_contract_index \in [GuestContractId -> SUBSET Slot]
  /\ bundle_data \subseteq BundleId
  /\ plugin_slots \in [BundleId -> SUBSET Slot]
  /\ bundle_name_index \subseteq BundleId
  /\ bundle_declared_deps \in [BundleId -> SUBSET GuestContractId]
  /\ reloading_bundles \subseteq BundleId
  /\ published \in [tenant : [Slot -> Tenant \cup {Vacant}],
                    generation : [Slot -> Generation],
                    index : [GuestContractId -> SUBSET Slot]]
  /\ image \in [BundleId -> Image]
  /\ reload \in Reload \cup {Idle}
  /\ held \in Handle \cup {NoHandle}

-----------------------------------------------------------------------------
ContractOf(s) == ContractIdOf[tenant[s].plugin]

Free == {s \in Slot : tenant[s] = Vacant}

\* insert_prepared_guest_contract takes the first vacant slot, else grows the
\* vector: the slots a registration of several contracts takes are the lowest
\* vacant ones.
LowestFree(S) == /\ S \subseteq Free
                 /\ \A s \in S, r \in Free : r < s => r \in S

\* Faulty variants: no bump, and a bump that does not wrap.
KeepGeneration(g) == g
Bump(g) == IF g + 1 = GenerationModulus THEN 0 ELSE g + 1

\* ReadView::rebuild and publish: the view mirrors the data just written.
Publish == published' = [tenant |-> tenant', generation |-> generation',
                         index |-> guest_contract_index']

\* generation.wrapping_add(1) on the slots of S.  The held handle ages with
\* its slot and is forgotten when the generation comes round to its own again:
\* nothing is claimed of a handle kept for 2^32 vacations.
BumpGenerations(S) ==
  /\ generation' = [s \in Slot |-> IF s \in S THEN Bump(generation[s])
                                   ELSE generation[s]]
  /\ held' = IF held = NoHandle \/ held.index \notin S THEN held
             ELSE IF held.age + 1 = GenerationModulus THEN NoHandle
             ELSE [held EXCEPT !.age = @ + 1]

\* Faulty variant: the index keeps vacated slots.
KeepIndexed(S) == guest_contract_index
\* The index without the slots of S, each looked up under its own contract id.
Unindexed(S) ==
  [c \in GuestContractId |->
     guest_contract_index[c] \ {s \in S : tenant[s] # Vacant /\ ContractOf(s) = c}]

\* vacate_slot on every slot of S.
VacateSlots(S) ==
  /\ guest_contract_index' = Unindexed(S)
  /\ BumpGenerations(S)
  /\ tenant' = [s \in Slot |-> IF s \in S THEN Vacant ELSE tenant[s]]

NewHandle(s, g, b, c, pending) ==
  [index |-> s, generation |-> g, bundle_id |-> b, contract_id |-> c,
   pending |-> pending, age |-> 0]

-----------------------------------------------------------------------------
\* Faulty variant: a reload registers straight into the index.
NeverPending(b) == FALSE
\* A registration of b is pending while b reloads: its slot is not indexed.
IsPending(b) == b \in reloading_bundles

\* validate_guest_contract_registration: against the published providers of
\* the same contract id, no other canonical name (ContractIdCollision) and,
\* outside a reload window, no second provider of the same bundle
\* (DuplicateProvider).
ValidRegistration(b, p) ==
  \A s \in guest_contract_index[ContractIdOf[p]] :
    tenant[s] # Vacant =>
      /\ CanonicalName[tenant[s].plugin] = CanonicalName[p]
      /\ tenant[s].bundle_id = b => IsPending(b)

\* validate_prepared_bundle_contracts: no name collision inside the bundle,
\* no plugin twice.
ValidPrepared(occ) ==
  \A s, r \in DOMAIN occ :
    s # r /\ ContractIdOf[occ[s]] = ContractIdOf[occ[r]] =>
      CanonicalName[occ[s]] = CanonicalName[occ[r]] /\ occ[s] # occ[r]

\* insert_prepared_guest_contract for every slot s of occ, which plugin occ[s]
\* of bundle b takes; the index learns of them unless they are pending.
Insert(b, occ, i, publish_contract) ==
  /\ LowestFree(DOMAIN occ)
  /\ tenant' = [s \in Slot |->
       IF s \in DOMAIN occ THEN [bundle_id |-> b, plugin |-> occ[s], image |-> i]
       ELSE tenant[s]]
  /\ plugin_slots' = [plugin_slots EXCEPT ![b] = @ \cup DOMAIN occ]
  /\ guest_contract_index' = [c \in GuestContractId |->
       IF publish_contract
       THEN guest_contract_index[c] \cup {s \in DOMAIN occ : ContractIdOf[occ[s]] = c}
       ELSE guest_contract_index[c]]
  /\ UNCHANGED generation

\* The image a loader opens for b: another one than it has installed.
FreshImage(b) == IF image[b] + 1 = Images THEN 0 ELSE image[b] + 1

\* loader.reload is running the init of bundle b.
InitRunning(b) == reload.phase = "open" /\ reload.bundle_id = b

\* register_guest_contract: the init of bundle b registers plugin p directly,
\* which is how every registration of a reload arrives.  The caller may keep
\* the handle it gets back.
RegisterGuestContract(b, p, s) ==
  /\ ValidRegistration(b, p)
  /\ Insert(b, [r \in {s} |-> p], IF InitRunning(b) THEN reload.image ELSE image[b],
            ~IsPending(b))
  /\ bundle_data' = bundle_data \cup {b}
  /\ Publish
  /\ \/ UNCHANGED held
     \/ /\ held = NoHandle
        /\ held' = NewHandle(s, generation[s], b, ContractIdOf[p],
                             IsPending(b))
  /\ reload' = IF InitRunning(b)
               THEN [reload EXCEPT !.new_contracts = @ \cup {ContractIdOf[p]}] ELSE reload
  /\ UNCHANGED <<bundle_name_index, bundle_declared_deps, reloading_bundles, image>>

\* register_prepared_bundle: a load's commit publishes the whole bundle, its
\* metadata and its dependencies at once.  Its interfaces live in image i.
RegisterPreparedBundle(b, occ, deps, i) ==
  /\ ValidPrepared(occ)
  /\ \A s \in DOMAIN occ : ValidRegistration(b, occ[s])
  /\ b \notin bundle_data
  /\ image' = [image EXCEPT ![b] = i]
  /\ Insert(b, occ, i, ~IsPending(b))
  /\ bundle_data' = bundle_data \cup {b}
  /\ bundle_name_index' = bundle_name_index \cup {b}
  /\ bundle_declared_deps' = [bundle_declared_deps EXCEPT ![b] = deps]
  /\ Publish
  /\ UNCHANGED <<reloading_bundles, reload, held>>

\* invalidate_bundle, the unload primitive; a bundle that is not loaded is
\* left alone.
InvalidateBundle(b) ==
  /\ b \in bundle_data
  /\ VacateSlots(plugin_slots[b])
  /\ bundle_data' = bundle_data \ {b}
  /\ plugin_slots' = [plugin_slots EXCEPT ![b] = {}]
  /\ bundle_name_index' = bundle_name_index \ {b}
  /\ bundle_declared_deps' = [bundle_declared_deps EXCEPT ![b] = {}]
  /\ Publish
  /\ UNCHANGED <<reloading_bundles, image, reload>>

-----------------------------------------------------------------------------
\* reload.rs: the pre-reload slots are read, then the host's Preparing
\* callback runs.
SnapshotSlots(b) ==
  /\ reload = Idle
  /\ reload' = [phase |-> "preparing", bundle_id |-> b, old_slots |-> plugin_slots[b],
                image |-> image[b], new_contracts |-> {},
                old_contracts |-> {ContractOf(s) : s \in plugin_slots[b] \ Free}]
  /\ UNCHANGED <<store, image, held>>

\* begin_reload, after which the loader opens image i and runs its init.
BeginReload(i) ==
  /\ reload.phase = "preparing"
  /\ reloading_bundles' = reloading_bundles \cup {reload.bundle_id}
  /\ reload' = [reload EXCEPT !.phase = "open", !.image = i]
  /\ UNCHANGED <<tenant, generation, guest_contract_index>>
  /\ Publish
  /\ UNCHANGED <<bundle_data, plugin_slots, bundle_name_index, bundle_declared_deps,
                 image, held>>

\* Faulty variant: the pre-reload slots are not left out.
AllBundleSlots == plugin_slots[reload.bundle_id]
\* The slots init registered during this reload.
NewSlots == plugin_slots[reload.bundle_id] \ reload.old_slots

\* abort_reload, when the loader failed: the window closes and the pending
\* slots are cleared; their generation stays.
AbortReload ==
  /\ reload.phase = "open"
  /\ reload' = Idle
  /\ reloading_bundles' = reloading_bundles \ {reload.bundle_id}
  /\ tenant' = [s \in Slot |-> IF s \in NewSlots THEN Vacant ELSE tenant[s]]
  /\ guest_contract_index' = Unindexed(NewSlots)
  /\ plugin_slots' = [plugin_slots EXCEPT ![reload.bundle_id] = @ \ NewSlots]
  /\ UNCHANGED generation
  /\ Publish
  /\ UNCHANGED <<bundle_data, bundle_name_index, bundle_declared_deps, image, held>>

\* Faulty variant: no old slot finds its replacement.
NeverMatch(done, m) == DOMAIN m = {}
\* The loop of apply_reload_swap over the old slots `done` pairs each with a
\* new slot of the same contract id while there is one left.
SwapMatching(done, m) ==
  /\ DOMAIN m \subseteq done
  /\ IsInjective(m)
  /\ \A s \in DOMAIN m : /\ m[s] \in NewSlots /\ tenant[m[s]] # Vacant
                         /\ ContractOf(m[s]) = ContractOf(s)
  /\ \A s \in done \ DOMAIN m, r \in NewSlots \ Range(m) :
       tenant[r] # Vacant => ContractOf(r) # ContractOf(s)

\* The slots the loop vacates: the new slot of every pair, and the old slots
\* without a pair.
Gone(done, m) == Range(m) \cup (done \ DOMAIN m)

\* The mutation that loop has made: a paired slot keeps its generation and
\* takes the new tenant, whose own slot is vacated; an unpaired old slot is
\* vacated.  `added` are the slots indexed afterwards.
Swap(done, m, added) ==
  /\ BumpGenerations(Gone(done, m))
  /\ tenant' = [s \in Slot |-> IF s \in DOMAIN m THEN tenant[m[s]]
                               ELSE IF s \in Gone(done, m) THEN Vacant ELSE tenant[s]]
  /\ plugin_slots' = [plugin_slots EXCEPT ![reload.bundle_id] = @ \ Gone(done, m)]
  /\ guest_contract_index' = [c \in GuestContractId |->
       Unindexed(Gone(done, m))[c] \cup {s \in added : ContractOf(s) = c}]

\* apply_reload_swap, all old slots live: the replacement is published whole.
ApplyReloadSwap(m, deps) ==
  /\ reload.phase = "open"
  /\ reload.bundle_id \in bundle_data
  /\ \A s \in reload.old_slots : tenant[s] # Vacant
  /\ SwapMatching(reload.old_slots, m)
  /\ Swap(reload.old_slots, m,
          {s \in NewSlots \ Range(m) : tenant[s] # Vacant})
  /\ reload' = Idle
  /\ reloading_bundles' = reloading_bundles \ {reload.bundle_id}
  /\ bundle_declared_deps' = [bundle_declared_deps EXCEPT ![reload.bundle_id] = deps]
  /\ image' = [image EXCEPT ![reload.bundle_id] = reload.image]
  /\ Publish
  /\ UNCHANGED <<bundle_data, bundle_name_index>>

\* apply_reload_swap returning InvalidHandle at an old slot without interface,
\* or MissingBundleMetadata at its end: what the loop did before stays, and
\* nothing is published.
FailReloadSwap(done, m) ==
  /\ reload.phase = "open"
  /\ done \subseteq {s \in reload.old_slots : tenant[s] # Vacant}
  /\ done = reload.old_slots => reload.bundle_id \notin bundle_data
  /\ done # reload.old_slots => \E s \in reload.old_slots : tenant[s] = Vacant
  /\ SwapMatching(done, m)
  /\ Swap(done, m, {})
  /\ reload' = Idle
  /\ reloading_bundles' = reloading_bundles \ {reload.bundle_id}
  /\ image' = [image EXCEPT ![reload.bundle_id] = reload.image]
  /\ UNCHANGED <<bundle_data, bundle_name_index, bundle_declared_deps, published>>

-----------------------------------------------------------------------------
\* find_guest_contract, find_all and the like: served from the published view.
FindGuestContract(c, s) ==
  /\ held = NoHandle
  /\ s \in published.index[c] /\ published.tenant[s] # Vacant
  /\ held' = NewHandle(s, published.generation[s],
                       published.tenant[s].bundle_id, c, FALSE)
  /\ UNCHANGED <<store, image, reload>>

\* find_guest_contract_by_bundle: served from the data under the read lock; a
\* bundle that is reloading only shows its indexed slots.
FindGuestContractByBundle(b, c, s) ==
  /\ held = NoHandle
  /\ s \in plugin_slots[b] /\ tenant[s] # Vacant
  /\ b \in reloading_bundles => s \in guest_contract_index[c]
  /\ tenant[s].bundle_id = b /\ ContractOf(s) = c
  /\ held' = NewHandle(s, generation[s], b, c, FALSE)
  /\ UNCHANGED <<store, image, reload>>

\* resolve_guest_contract: the generation is compared first.
Resolve(h) ==
  IF published.generation[h.index] # h.generation THEN "StaleHandle"
  ELSE IF published.tenant[h.index] = Vacant THEN "InvalidHandle" ELSE "ok"

-----------------------------------------------------------------------------
Init ==
  /\ tenant = [s \in Slot |-> Vacant]
  /\ generation = [s \in Slot |-> 0]
  /\ guest_contract_index = [c \in GuestContractId |-> {}]
  /\ bundle_data = {} /\ bundle_name_index = {} /\ reloading_bundles = {}
  /\ plugin_slots = [b \in BundleId |-> {}]
  /\ bundle_declared_deps = [b \in BundleId |-> {}]
  /\ published = [tenant |-> tenant, generation |-> generation,
                  index |-> guest_contract_index]
  /\ image = [b \in BundleId |-> 0]
  /\ reload = Idle
  /\ held = NoHandle

\* The lifecycle calls for bundle b that nothing in the code keeps apart from
\* a reload of b: unload and load do not take reload_serialize.
Load(b) == \E S \in SUBSET Free : \E occ \in [S -> Plugin], deps \in DependencySets :
             RegisterPreparedBundle(b, occ, deps, FreshImage(b))
Register(b) == \E p \in Plugin, s \in Free : RegisterGuestContract(b, p, s)

SwapSucceeds ==
  /\ reload.phase = "open"
  /\ \E S \in SUBSET reload.old_slots : \E m \in [S -> NewSlots], deps \in DependencySets :
       ApplyReloadSwap(m, deps)
SwapFails ==
  /\ reload.phase = "open"
  /\ \E done \in SUBSET reload.old_slots : \E S \in SUBSET done : \E m \in [S -> NewSlots] :
       FailReloadSwap(done, m)

OpenWindow ==
  /\ reload.phase = "preparing"
  /\ BeginReload(FreshImage(reload.bundle_id))

ReloadStep ==
  \/ \E b \in BundleId : SnapshotSlots(b)
  \/ OpenWindow \/ AbortReload \/ SwapSucceeds \/ SwapFails

Find == \E c \in GuestContractId, s \in Slot :
          \/ FindGuestContract(c, s)
          \/ \E b \in BundleId : FindGuestContractByBundle(b, c, s)

\* Every interleaving the code admits.
Next ==
  \/ ReloadStep
  \/ Find
  \/ \E b \in BundleId : Load(b) \/ InvalidateBundle(b) \/ Register(b)

Spec == Init /\ [][Next]_vars

\* The host keeps its other lifecycle calls for a bundle out of that bundle's
\* own reload; init registers while the window is open.
NotReloading(b) == reload # Idle => reload.bundle_id # b

SerialNext ==
  \/ ReloadStep
  \/ Find
  \/ \E b \in BundleId :
       \/ NotReloading(b) /\ (Load(b) \/ InvalidateBundle(b))
       \/ InitRunning(b) /\ Register(b)

SerialSpec == Init /\ [][SerialNext]_vars

-----------------------------------------------------------------------------
\* The index lists exactly the occupied slots of each contract, the pending
\* slots of the open reload excepted (guest_contract_index, reloading_bundles).
IndexExact ==
  \A c \in GuestContractId :
    guest_contract_index[c] =
      {s \in Slot : /\ tenant[s] # Vacant /\ ContractOf(s) = c
                    /\ InitRunning(tenant[s].bundle_id) => s \in reload.old_slots}

\* Every occupied slot is in plugin_slots of the bundle that occupies it, and
\* plugin_slots names no other slot (BundleData.plugin_slots).
SlotsOwned ==
  \A b \in BundleId :
    plugin_slots[b] = {s \in Slot : tenant[s] # Vacant /\ tenant[s].bundle_id = b}

\* What lock-free readers see is the locked data (publish is called at the end
\* of every mutation).
PublishedCurrent ==
  published = [tenant |-> tenant, generation |-> generation,
               index |-> guest_contract_index]

\* A handle from find or a direct registration resolves to its own bundle and
\* contract until its slot is vacated, and to StaleHandle after that, as long
\* as the u32 generation has not wrapped around (resolve_guest_contract).
HandleExact ==
  held # NoHandle /\ ~held.pending =>
    /\ held.age = 0 => /\ Resolve(held) = "ok"
                       /\ published.tenant[held.index].bundle_id = held.bundle_id
                       /\ ContractIdOf[published.tenant[held.index].plugin] = held.contract_id
    /\ held.age > 0 => Resolve(held) = "StaleHandle"

\* No reader ever sees a half-swapped bundle: all its indexed interfaces come
\* from one image (apply_reload_swap).
OneImagePerBundle ==
  \A c, d \in GuestContractId : \A s \in published.index[c], r \in published.index[d] :
    /\ published.tenant[s] # Vacant /\ published.tenant[r] # Vacant
    /\ published.tenant[s].bundle_id = published.tenant[r].bundle_id
    => published.tenant[s].image = published.tenant[r].image

\* When a reload succeeds, a contract both versions provide is served by the
\* new image in a slot of the old version, so that handles to it keep resolving
\* (apply_reload_swap).
ReloadKeepsContracts ==
  [][SwapSucceeds =>
        \A c \in reload.old_contracts \cap reload.new_contracts :
          \E s \in reload.old_slots \cap published'.index[c] :
            /\ published'.generation[s] = published.generation[s]
            /\ published'.tenant[s] # Vacant
            /\ published'.tenant[s].bundle_id = reload.bundle_id
            /\ published'.tenant[s].image = reload.image]_vars

\* A failed reload leaves every published provider as it was (abort_reload).
AbortKeepsProviders ==
  [][AbortReload =>
       \A c \in GuestContractId : \A s \in published.index[c] :
         /\ s \in published'.index[c]
         /\ published'.tenant[s] = published.tenant[s]
         /\ published'.generation[s] = published.generation[s]]_vars

-----------------------------------------------------------------------------
\* What the properties rest on, under SerialSpec.

\* Only the bundle being reloaded is in reloading_bundles; its pre-reload slots
\* are still its own and still serve old_contracts, the later ones serve
\* new_contracts; a bundle with slots has an entry in bundle_data.
ReloadWindow ==
  /\ reloading_bundles = {b \in BundleId : InitRunning(b)}
  /\ \A b \in BundleId : plugin_slots[b] # {} => b \in bundle_data
  /\ reload # Idle =>
       /\ reload.old_slots \subseteq plugin_slots[reload.bundle_id]
       /\ reload.phase = "preparing" => reload.old_slots = plugin_slots[reload.bundle_id]
       /\ \A c \in reload.old_contracts : \E s \in reload.old_slots : ContractOf(s) = c
       /\ \A c \in reload.new_contracts : \E s \in NewSlots : ContractOf(s) = c

\* The slot's generation is the held handle's plus its age, modulo the width.
GenerationTracked ==
  held # NoHandle =>
    LET g == held.generation + held.age
    IN  generation[held.index] = IF g < GenerationModulus THEN g ELSE g - GenerationModulus

\* A handle from find that has not aged names an indexed slot of its bundle.
HandleIndexed ==
  held # NoHandle /\ ~held.pending /\ held.age = 0 =>
    /\ held.index \in guest_contract_index[held.contract_id]
    /\ tenant[held.index].bundle_id = held.bundle_id

\* Indexed slots hold the installed image of their bundle, pending ones the
\* image of the reload.
ImagesTracked ==
  \A s \in Slot : tenant[s] # Vacant =>
    tenant[s].image = IF InitRunning(tenant[s].bundle_id) /\ s \notin reload.old_slots
                      THEN reload.image ELSE image[tenant[s].bundle_id]

\* The inductive invariant: what every step of the serialised registry keeps.
StoreInv ==
  /\ TypeOK /\ IndexExact /\ SlotsOwned /\ PublishedCurrent
  /\ ReloadWindow /\ GenerationTracked /\ HandleIndexed /\ ImagesTracked
=============================================================================
