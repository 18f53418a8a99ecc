--------------------------- MODULE RegistryProofs ---------------------------
(***************************************************************************)
(* Proofs about RuntimeStore and its refinement of Directory, for every    *)
(* number of slots, bundles, plugins, contracts and generations; then about*)
(* BundleLifecycle, for any bundles, callers, readers and libraries.       *)
(*                                                                         *)
(* That BundleLifecycle's assumptions are in scope costs the theorems about*)
(* the registry nothing: they mention none of its constants but Images, and*)
(* any Images in Nat \ {0} is MaxLibraries + 1 for some MaxLibraries.      *)
(***************************************************************************)
EXTENDS BundleLifecycle, StoreRefinement, TLAPS

-----------------------------------------------------------------------------
\* The wrapping increment of a generation is a generation.
LEMMA BumpType == \A g \in Generation : Bump(g) \in Generation
  BY RegistryAssumption DEF Bump, Generation

\* Bumping the generations of any set of slots keeps generations and the held
\* handle well typed.
LEMMA BumpGenerationsType ==
  ASSUME TypeOK, NEW S, BumpGenerations(S)
  PROVE  /\ generation' \in [Slot -> Generation]
         /\ held' \in Handle \cup {NoHandle}
<1>1. generation' \in [Slot -> Generation]
  BY BumpType DEF BumpGenerations, TypeOK
<1>2. held' \in Handle \cup {NoHandle}
  <2>1. CASE held = NoHandle \/ held.index \notin S
    BY <2>1 DEF BumpGenerations, TypeOK
  <2>2. CASE ~(held = NoHandle \/ held.index \notin S)
    <3>1. held \in Handle
      BY <2>2 DEF TypeOK
    <3>2. CASE held.age + 1 = GenerationModulus
      BY <2>2, <3>2 DEF BumpGenerations
    <3>3. CASE held.age + 1 # GenerationModulus
      <4>1. held' = [held EXCEPT !.age = held.age + 1]
        BY <2>2, <3>3 DEF BumpGenerations
      <4>2. held.age + 1 \in Generation
        BY <3>1, <3>3, RegistryAssumption DEF Handle, Generation
      <4>3. QED
        BY <3>1, <4>1, <4>2 DEF Handle
    <3>4. QED
      BY <3>2, <3>3
  <2>3. QED
    BY <2>1, <2>2
<1>3. QED
  BY <1>1, <1>2

\* A freshly minted handle is well typed.
LEMMA NewHandleType ==
  ASSUME NEW s \in Slot, NEW g \in Generation, NEW b \in BundleId,
         NEW c \in GuestContractId, NEW q \in BOOLEAN
  PROVE  NewHandle(s, g, b, c, q) \in Handle
  BY RegistryAssumption DEF NewHandle, Handle, Generation

\* The image a loader opens is an image.
LEMMA FreshImageType ==
  ASSUME TypeOK, NEW b \in BundleId
  PROVE  FreshImage(b) \in Image
  BY RegistryAssumption DEF TypeOK, FreshImage, Image

\* Vacating slots keeps the slot table, the index and the handle well typed.
LEMMA VacateSlotsType ==
  ASSUME TypeOK, NEW S, VacateSlots(S)
  PROVE  /\ tenant' \in [Slot -> Tenant \cup {Vacant}]
         /\ generation' \in [Slot -> Generation]
         /\ guest_contract_index' \in [GuestContractId -> SUBSET Slot]
         /\ held' \in Handle \cup {NoHandle}
<1>1. BumpGenerations(S)
  BY DEF VacateSlots
<1>2. tenant' \in [Slot -> Tenant \cup {Vacant}]
  BY DEF VacateSlots, TypeOK
<1>3. guest_contract_index' \in [GuestContractId -> SUBSET Slot]
  BY DEF VacateSlots, Unindexed, TypeOK
<1>4. QED
  BY <1>1, <1>2, <1>3, BumpGenerationsType

\* Registering plugins in vacant slots keeps the slot table well typed.
LEMMA InsertType ==
  ASSUME TypeOK, NEW b \in BundleId, NEW S \in SUBSET Slot, NEW occ \in [S -> Plugin],
         NEW i \in Image, NEW publish_contract, Insert(b, occ, i, publish_contract)
  PROVE  /\ tenant' \in [Slot -> Tenant \cup {Vacant}]
         /\ generation' \in [Slot -> Generation]
         /\ guest_contract_index' \in [GuestContractId -> SUBSET Slot]
         /\ plugin_slots' \in [BundleId -> SUBSET Slot]
<1>1. tenant' \in [Slot -> Tenant \cup {Vacant}]
  BY DEF Insert, TypeOK, Tenant
<1>2. guest_contract_index' \in [GuestContractId -> SUBSET Slot]
  BY DEF Insert, TypeOK
<1>3. generation' \in [Slot -> Generation] /\ plugin_slots' \in [BundleId -> SUBSET Slot]
  BY DEF Insert, TypeOK
<1>4. QED
  BY <1>1, <1>2, <1>3

\* What publish stores is a well-typed view.
LEMMA PublishType ==
  ASSUME Publish,
         tenant' \in [Slot -> Tenant \cup {Vacant}],
         generation' \in [Slot -> Generation],
         guest_contract_index' \in [GuestContractId -> SUBSET Slot]
  PROVE  published' \in [tenant : [Slot -> Tenant \cup {Vacant}],
                         generation : [Slot -> Generation],
                         index : [GuestContractId -> SUBSET Slot]]
  BY DEF Publish

\* The mutation of a swap, complete or cut short, keeps the registry well typed.
LEMMA SwapType ==
  ASSUME TypeOK, reload \in Reload, NEW done \in SUBSET Slot,
         NEW S \in SUBSET done, NEW m \in [S -> NewSlots],
         NEW added \in SUBSET Slot, Swap(done, m, added)
  PROVE  /\ tenant' \in [Slot -> Tenant \cup {Vacant}]
         /\ generation' \in [Slot -> Generation]
         /\ guest_contract_index' \in [GuestContractId -> SUBSET Slot]
         /\ plugin_slots' \in [BundleId -> SUBSET Slot]
         /\ held' \in Handle \cup {NoHandle}
<1>1. BumpGenerations(Gone(done, m))
  BY DEF Swap
<1>2. NewSlots \subseteq Slot
  BY DEF NewSlots, TypeOK, Reload
<1>3. tenant' \in [Slot -> Tenant \cup {Vacant}]
  BY <1>2 DEF Swap, TypeOK
<1>4. guest_contract_index' \in [GuestContractId -> SUBSET Slot]
  BY DEF Swap, Unindexed, TypeOK
<1>5. plugin_slots' \in [BundleId -> SUBSET Slot]
  BY DEF Swap, TypeOK
<1>6. QED
  BY <1>1, <1>3, <1>4, <1>5, BumpGenerationsType

-----------------------------------------------------------------------------
\* A load that publishes interfaces of image i keeps the registry well typed.
LEMMA LoadType ==
  ASSUME TypeOK, NEW b \in BundleId, NEW i \in Image, NEW S \in SUBSET Free,
         NEW occ \in [S -> Plugin], NEW deps \in DependencySets,
         RegisterPreparedBundle(b, occ, deps, i)
  PROVE  TypeOK'
<1>1. S \in SUBSET Slot
  BY DEF Free
<1>2. Insert(b, occ, i, ~IsPending(b)) /\ Publish
  BY DEF RegisterPreparedBundle
<1>3. deps \in SUBSET GuestContractId
  BY RegistryAssumption
<1>4. /\ tenant' \in [Slot -> Tenant \cup {Vacant}]
      /\ generation' \in [Slot -> Generation]
      /\ guest_contract_index' \in [GuestContractId -> SUBSET Slot]
      /\ plugin_slots' \in [BundleId -> SUBSET Slot]
  BY <1>1, <1>2, InsertType
<1>5. QED
  BY <1>2, <1>3, <1>4, PublishType DEF RegisterPreparedBundle, TypeOK

\* Opening the window for a loader that opens image i keeps it well typed.
LEMMA BeginType ==
  ASSUME TypeOK, NEW i \in Image, BeginReload(i)
  PROVE  TypeOK'
<1>1. reload \in Reload
  BY DEF BeginReload, TypeOK, Idle
<1>2. reload' \in Reload
  BY <1>1 DEF BeginReload, Reload
<1>3. Publish
  BY DEF BeginReload
<1>4. /\ tenant' \in [Slot -> Tenant \cup {Vacant}]
      /\ generation' \in [Slot -> Generation]
      /\ guest_contract_index' \in [GuestContractId -> SUBSET Slot]
  BY DEF BeginReload, TypeOK
<1>5. QED
  BY <1>1, <1>2, <1>3, <1>4, PublishType DEF BeginReload, TypeOK, Reload

-----------------------------------------------------------------------------
\* Every step of every interleaving keeps the registry well typed.
LEMMA TypeStep == TypeOK /\ [Next]_vars => TypeOK'
<1> SUFFICES ASSUME TypeOK, [Next]_vars PROVE TypeOK'
  OBVIOUS
<1>1. ASSUME NEW b \in BundleId, Load(b) PROVE TypeOK'
  <2>1. PICK S \in SUBSET Free : \E occ \in [S -> Plugin], deps \in DependencySets :
           RegisterPreparedBundle(b, occ, deps, FreshImage(b))
    BY <1>1 DEF Load
  <2>2. PICK occ \in [S -> Plugin], deps \in DependencySets :
           RegisterPreparedBundle(b, occ, deps, FreshImage(b))
    BY <2>1
  <2>3. FreshImage(b) \in Image
    BY FreshImageType
  <2>4. QED
    BY <2>2, <2>3, LoadType
<1>2. ASSUME NEW b \in BundleId, InvalidateBundle(b) PROVE TypeOK'
  <2>1. VacateSlots(plugin_slots[b]) /\ Publish
    BY <1>2 DEF InvalidateBundle
  <2>2. QED
    BY <1>2, <2>1, VacateSlotsType, PublishType DEF InvalidateBundle, TypeOK
<1>3. ASSUME NEW b \in BundleId, Register(b) PROVE TypeOK'
  <2>1. PICK p \in Plugin, s \in Free : RegisterGuestContract(b, p, s)
    BY <1>3 DEF Register
  <2>2. s \in Slot
    BY DEF Free
  <2> DEFINE i == IF InitRunning(b) THEN reload.image ELSE image[b]
             occ == [r \in {s} |-> p]
  <2>3. i \in Image
    BY DEF TypeOK, InitRunning, Idle, Reload
  <2>4. occ \in [{s} -> Plugin] /\ {s} \in SUBSET Slot
    BY <2>2
  <2>5. Insert(b, occ, i, ~IsPending(b)) /\ Publish
    BY <2>1 DEF RegisterGuestContract
  <2> HIDE DEF i, occ
  <2>6. /\ tenant' \in [Slot -> Tenant \cup {Vacant}]
        /\ generation' \in [Slot -> Generation]
        /\ guest_contract_index' \in [GuestContractId -> SUBSET Slot]
        /\ plugin_slots' \in [BundleId -> SUBSET Slot]
    BY <2>3, <2>4, <2>5, InsertType
  <2>7. ContractIdOf[p] \in GuestContractId
    BY RegistryAssumption
  <2>8. held' \in Handle \cup {NoHandle}
    <3>1. IsPending(b) \in BOOLEAN
      BY DEF IsPending
    <3>2. generation[s] \in Generation
      BY <2>2 DEF TypeOK
    <3>3. NewHandle(s, generation[s], b, ContractIdOf[p], IsPending(b)) \in Handle
      BY <2>2, <2>7, <3>1, <3>2, NewHandleType
    <3>4. QED
      BY <2>1, <3>3 DEF RegisterGuestContract, TypeOK
  <2>9. reload' \in Reload \cup {Idle}
    <3>1. CASE InitRunning(b)
      <4>1. reload \in Reload
        BY <3>1 DEF InitRunning, TypeOK, Idle
      <4>2. reload' = [reload EXCEPT !.new_contracts = @ \cup {ContractIdOf[p]}]
        BY <2>1, <3>1 DEF RegisterGuestContract
      <4>3. QED
        BY <2>7, <4>1, <4>2 DEF Reload
    <3>2. CASE ~InitRunning(b)
      BY <2>1, <3>2 DEF RegisterGuestContract, TypeOK
    <3>3. QED
      BY <3>1, <3>2
  <2>10. QED
    BY <2>1, <2>5, <2>6, <2>8, <2>9, PublishType DEF RegisterGuestContract, TypeOK
<1>4. ASSUME NEW b \in BundleId, SnapshotSlots(b) PROVE TypeOK'
  <2>1. \A s \in plugin_slots[b] \ Free : ContractOf(s) \in GuestContractId
    BY RegistryAssumption DEF TypeOK, Free, ContractOf, Tenant
  <2>3. reload' \in Reload
    BY <1>4, <2>1 DEF SnapshotSlots, TypeOK, Reload
  <2>4. QED
    BY <1>4, <2>3 DEF SnapshotSlots, TypeOK, store
<1>5. CASE OpenWindow
  <2>1. reload \in Reload
    BY <1>5 DEF OpenWindow, TypeOK, Idle
  <2>0. FreshImage(reload.bundle_id) \in Image
    BY <2>1, FreshImageType DEF Reload
  <2>2. QED
    BY <1>5, <2>0, BeginType DEF OpenWindow
<1>6. CASE AbortReload
  <2>1. reload \in Reload
    BY <1>6 DEF AbortReload, TypeOK, Idle
  <2>2. Publish
    BY <1>6 DEF AbortReload
  <2>3. tenant' \in [Slot -> Tenant \cup {Vacant}]
    BY <1>6 DEF AbortReload, TypeOK
  <2>4. guest_contract_index' \in [GuestContractId -> SUBSET Slot]
    BY <1>6 DEF AbortReload, TypeOK, Unindexed
  <2>5. plugin_slots' \in [BundleId -> SUBSET Slot]
    BY <1>6 DEF AbortReload, TypeOK
  <2>6. generation' \in [Slot -> Generation]
    BY <1>6 DEF AbortReload, TypeOK
  <2>7. QED
    BY <1>6, <2>2, <2>3, <2>4, <2>5, <2>6, PublishType DEF AbortReload, TypeOK
<1>7. CASE SwapSucceeds
  <2>1. reload \in Reload
    BY <1>7 DEF SwapSucceeds, TypeOK, Idle
  <2>2. PICK S \in SUBSET reload.old_slots : \E m \in [S -> NewSlots], deps \in DependencySets :
           ApplyReloadSwap(m, deps)
    BY <1>7 DEF SwapSucceeds
  <2>3. PICK m \in [S -> NewSlots], deps \in DependencySets : ApplyReloadSwap(m, deps)
    BY <2>2
  <2> DEFINE added == {s \in NewSlots \ Range(m) : tenant[s] # Vacant}
  <2>4. reload.old_slots \in SUBSET Slot /\ reload.bundle_id \in BundleId /\ reload.image \in Image
    BY <2>1 DEF Reload
  <2>5. added \in SUBSET Slot
    BY <2>4 DEF NewSlots, TypeOK
  <2>6. Swap(reload.old_slots, m, added) /\ Publish
    BY <2>3 DEF ApplyReloadSwap
  <2>7. deps \in SUBSET GuestContractId
    BY RegistryAssumption
  <2> HIDE DEF added
  <2>8. /\ tenant' \in [Slot -> Tenant \cup {Vacant}]
        /\ generation' \in [Slot -> Generation]
        /\ guest_contract_index' \in [GuestContractId -> SUBSET Slot]
        /\ plugin_slots' \in [BundleId -> SUBSET Slot]
        /\ held' \in Handle \cup {NoHandle}
    BY <2>1, <2>4, <2>5, <2>6, SwapType
  <2>9. QED
    BY <2>3, <2>4, <2>6, <2>7, <2>8, PublishType DEF ApplyReloadSwap, TypeOK
<1>8. CASE SwapFails
  <2>1. reload \in Reload
    BY <1>8 DEF SwapFails, TypeOK, Idle
  <2>2. PICK done \in SUBSET reload.old_slots : \E S \in SUBSET done : \E m \in [S -> NewSlots] :
           FailReloadSwap(done, m)
    BY <1>8 DEF SwapFails
  <2>3. PICK S \in SUBSET done : \E m \in [S -> NewSlots] : FailReloadSwap(done, m)
    BY <2>2
  <2>4. PICK m \in [S -> NewSlots] : FailReloadSwap(done, m)
    BY <2>3
  <2>5. done \in SUBSET Slot /\ reload.bundle_id \in BundleId /\ reload.image \in Image
    BY <2>1 DEF Reload
  <2>6. Swap(done, m, {})
    BY <2>4 DEF FailReloadSwap
  <2>7. /\ tenant' \in [Slot -> Tenant \cup {Vacant}]
        /\ generation' \in [Slot -> Generation]
        /\ guest_contract_index' \in [GuestContractId -> SUBSET Slot]
        /\ plugin_slots' \in [BundleId -> SUBSET Slot]
        /\ held' \in Handle \cup {NoHandle}
    BY <2>1, <2>5, <2>6, SwapType
  <2>8. QED
    BY <2>4, <2>5, <2>7 DEF FailReloadSwap, TypeOK
<1>9. CASE Find
  <2>1. PICK c \in GuestContractId, s \in Slot :
           \/ FindGuestContract(c, s)
           \/ \E b \in BundleId : FindGuestContractByBundle(b, c, s)
    BY <1>9 DEF Find
  <2>2. CASE FindGuestContract(c, s)
    <3>1. /\ published.generation[s] \in Generation
          /\ published.tenant[s].bundle_id \in BundleId
      BY <2>2 DEF FindGuestContract, TypeOK, Tenant
    <3>2. NewHandle(s, published.generation[s], published.tenant[s].bundle_id, c, FALSE) \in Handle
      BY <3>1, NewHandleType
    <3>3. QED
      BY <2>2, <3>2 DEF FindGuestContract, TypeOK, store
  <2>3. ASSUME NEW b \in BundleId, FindGuestContractByBundle(b, c, s) PROVE TypeOK'
    <3>1. generation[s] \in Generation
      BY DEF TypeOK
    <3>2. NewHandle(s, generation[s], b, c, FALSE) \in Handle
      BY <3>1, NewHandleType
    <3>3. QED
      BY <2>3, <3>2 DEF FindGuestContractByBundle, TypeOK, store
  <2>4. QED
    BY <2>1, <2>2, <2>3
<1>10. CASE UNCHANGED vars
  BY <1>10 DEF vars, store, TypeOK
<1>11. QED
  BY <1>1, <1>2, <1>3, <1>4, <1>5, <1>6, <1>7, <1>8, <1>9, <1>10 DEF Next, ReloadStep

\* The registry is well typed in the initial state.
LEMMA TypeInit == Init => TypeOK
  BY RegistryAssumption DEF Init, TypeOK, Generation, Image

\* Under every interleaving of loads, unloads, reloads, registrations and
\* look-ups, slots, generations, index, view and handles stay well typed: in
\* particular a generation never leaves the u32 range.
THEOREM TypeCorrect == Spec => []TypeOK
<1>1. QED
  BY TypeInit, TypeStep, PTL DEF Spec

-----------------------------------------------------------------------------
(***************************************************************************)
(* The safety properties under SerialSpec: StoreInv is inductive and       *)
(* implies them.                                                           *)
(***************************************************************************)

\* The serialised steps are steps of the registry.
LEMMA SerialIsNext == SerialNext => Next
  BY DEF SerialNext, Next

\* A bump of the slots of S moves the held handle's age with its slot.
LEMMA BumpTracks ==
  ASSUME TypeOK, GenerationTracked, NEW S, BumpGenerations(S), held' # NoHandle
  PROVE  /\ held \in Handle /\ held # NoHandle
         /\ GenerationTracked'
         /\ held'.index = held.index /\ held'.pending = held.pending
         /\ held'.bundle_id = held.bundle_id /\ held'.contract_id = held.contract_id
         /\ held'.age = 0 => held.age = 0 /\ held.index \notin S
<1>1. held # NoHandle /\ held \in Handle
  BY DEF BumpGenerations, TypeOK
<1>2. held.index \in Slot /\ held.generation \in Generation /\ held.age \in Generation
  BY <1>1 DEF Handle
<1>3. generation[held.index] \in Generation
  BY <1>2 DEF TypeOK
<1>4. CASE held.index \notin S
  <2>1. held' = held /\ generation'[held.index] = generation[held.index]
    BY <1>1, <1>2, <1>4 DEF BumpGenerations
  <2>2. QED
    BY <1>1, <1>4, <2>1 DEF GenerationTracked
<1>5. CASE held.index \in S
  <2>1. held.age + 1 # GenerationModulus
    BY <1>1, <1>5 DEF BumpGenerations
  <2>2. held' = [held EXCEPT !.age = held.age + 1]
    BY <1>1, <1>5, <2>1 DEF BumpGenerations
  <2>3. /\ held'.index = held.index /\ held'.pending = held.pending
        /\ held'.bundle_id = held.bundle_id /\ held'.contract_id = held.contract_id
        /\ held'.generation = held.generation /\ held'.age = held.age + 1
    BY <1>1, <2>2 DEF Handle
  <2>4. generation'[held.index] = Bump(generation[held.index])
    BY <1>2, <1>5 DEF BumpGenerations
  <2>5. GenerationTracked'
    BY <1>1, <1>2, <2>1, <2>3, <2>4, RegistryAssumption
    DEF GenerationTracked, Bump, Generation
  <2>6. QED
    BY <1>1, <1>2, <2>3, <2>5 DEF Generation
<1>6. QED
  BY <1>4, <1>5

\* What StoreInv says of the slots of a bundle.
LEMMA SlotFacts ==
  ASSUME StoreInv
  PROVE  /\ \A s \in Slot : tenant[s] # Vacant =>
              /\ tenant[s] \in Tenant /\ tenant[s].bundle_id \in BundleId
              /\ ContractOf(s) \in GuestContractId
         /\ \A b \in BundleId : plugin_slots[b] \subseteq Slot \ Free
         /\ \A c \in GuestContractId : guest_contract_index[c] \subseteq Slot \ Free
<1>1. \A s \in Slot : tenant[s] # Vacant =>
        /\ tenant[s] \in Tenant /\ tenant[s].bundle_id \in BundleId
        /\ ContractOf(s) \in GuestContractId
  BY RegistryAssumption DEF StoreInv, TypeOK, Tenant, ContractOf
<1>2. \A b \in BundleId : plugin_slots[b] \subseteq Slot \ Free
  BY DEF StoreInv, SlotsOwned, Free
<1>3. \A c \in GuestContractId : guest_contract_index[c] \subseteq Slot \ Free
  BY DEF StoreInv, IndexExact, Free
<1>4. QED
  BY <1>1, <1>2, <1>3

-----------------------------------------------------------------------------
\* A load of a bundle that is not reloading keeps the invariant, whatever image
\* the loader has opened for it.
LEMMA LoadKeepsInv ==
  ASSUME StoreInv, TypeOK', NEW b \in BundleId, NotReloading(b), NEW i \in Image,
         NEW S \in SUBSET Free, NEW occ \in [S -> Plugin], NEW deps \in DependencySets,
         RegisterPreparedBundle(b, occ, deps, i)
  PROVE  StoreInv'
<1>3. ~InitRunning(b) /\ ~IsPending(b) /\ plugin_slots[b] = {}
  BY DEF StoreInv, ReloadWindow, NotReloading, InitRunning, IsPending, Idle,
              RegisterPreparedBundle
<1>4. S \subseteq Slot /\ \A s \in S : tenant[s] = Vacant
  BY DEF Free
<1>5. /\ \A s \in Slot : tenant'[s] =
           IF s \in S THEN [bundle_id |-> b, plugin |-> occ[s], image |-> i]
           ELSE tenant[s]
      /\ \A c \in GuestContractId : guest_contract_index'[c] =
           guest_contract_index[c] \cup {s \in S : ContractIdOf[occ[s]] = c}
      /\ \A a \in BundleId : plugin_slots'[a] =
           IF a = b THEN S ELSE plugin_slots[a]
      /\ generation' = generation /\ reload' = reload /\ held' = held
      /\ reloading_bundles' = reloading_bundles
      /\ bundle_data' = bundle_data \cup {b}
      /\ \A a \in BundleId : image'[a] = IF a = b THEN i ELSE image[a]
  BY <1>3 DEF RegisterPreparedBundle, Insert, StoreInv, TypeOK
<1>6. \A s \in S : /\ tenant'[s] # Vacant /\ tenant'[s].bundle_id = b
                    /\ tenant'[s].plugin = occ[s] /\ tenant'[s].image = i
  <2> SUFFICES ASSUME NEW s \in S
      PROVE  /\ tenant'[s] # Vacant /\ tenant'[s].bundle_id = b
             /\ tenant'[s].plugin = occ[s] /\ tenant'[s].image = i
    OBVIOUS
  <2>2. tenant'[s] = [bundle_id |-> b, plugin |-> occ[s], image |-> i]
    BY <1>4, <1>5
  <2>3. tenant'[s] \in Tenant
    BY <2>2 DEF Tenant
  <2>4. QED
    BY <2>2, <2>3, RegistryAssumption
<1>7. \A s \in Slot \ S : /\ tenant'[s] = tenant[s]
                          /\ tenant[s] # Vacant => tenant[s].bundle_id # b
  <2>1. plugin_slots[b] = {s \in Slot : tenant[s] # Vacant /\ tenant[s].bundle_id = b}
    BY DEF StoreInv, SlotsOwned
  <2>2. QED
    BY <1>3, <1>5, <2>1
<1>8. /\ \A a \in BundleId : plugin_slots[a] \cap S = {}
      /\ \A c \in GuestContractId : guest_contract_index[c] \cap S = {}
      /\ \A s \in Slot : tenant[s] # Vacant => tenant[s].bundle_id \in BundleId
  BY SlotFacts
<1>9. \A a \in BundleId : InitRunning(a)' <=> InitRunning(a)
  BY <1>5 DEF InitRunning
<1>10. IndexExact'
  <2> SUFFICES ASSUME NEW c \in GuestContractId, NEW s \in Slot
      PROVE  s \in guest_contract_index'[c] <=>
               /\ tenant'[s] # Vacant /\ ContractOf(s)' = c
               /\ InitRunning(tenant[s].bundle_id)' => s \in reload'.old_slots
    BY DEF IndexExact, TypeOK
  <2>1. CASE s \in S
    BY <1>3, <1>5, <1>6, <1>8, <2>1 DEF ContractOf, InitRunning
  <2>2. CASE s \notin S
    BY <1>5, <1>7, <2>2 DEF ContractOf, StoreInv, IndexExact, InitRunning
  <2>3. QED
    BY <2>1, <2>2
<1>11. SlotsOwned'
  <2> SUFFICES ASSUME NEW a \in BundleId, NEW s \in Slot
      PROVE  s \in plugin_slots'[a] <=> tenant'[s] # Vacant /\ tenant'[s].bundle_id = a
    BY DEF SlotsOwned, TypeOK
  <2>1. CASE s \in S
    BY <1>5, <1>6, <1>8, <2>1
  <2>2. CASE s \notin S
    BY <1>5, <1>7, <2>2 DEF StoreInv, SlotsOwned
  <2>3. QED
    BY <2>1, <2>2
<1>12. PublishedCurrent'
  BY DEF RegisterPreparedBundle, Publish, PublishedCurrent
<1>13. ReloadWindow'
  <2>1. reloading_bundles' = {a \in BundleId : InitRunning(a)'}
    BY <1>5, <1>9 DEF StoreInv, ReloadWindow
  <2>2. \A a \in BundleId : plugin_slots'[a] # {} => a \in bundle_data'
    BY <1>5 DEF StoreInv, ReloadWindow
  <2>3. ASSUME reload # Idle
        PROVE  /\ reload.old_slots \subseteq plugin_slots'[reload.bundle_id]
               /\ reload.phase = "preparing" => reload.old_slots = plugin_slots'[reload.bundle_id]
               /\ \A c \in reload.old_contracts : \E s \in reload.old_slots : ContractOf(s)' = c
               /\ \A c \in reload.new_contracts : \E s \in NewSlots' : ContractOf(s)' = c
    <3>1. reload \in Reload /\ reload.bundle_id # b /\ reload.bundle_id \in BundleId
      BY <2>3 DEF StoreInv, TypeOK, NotReloading, Reload
    <3>2. plugin_slots'[reload.bundle_id] = plugin_slots[reload.bundle_id] /\ NewSlots' = NewSlots
      BY <1>5, <3>1 DEF NewSlots
    <3>3. \A s \in plugin_slots[reload.bundle_id] : ContractOf(s)' = ContractOf(s)
      BY <1>4, <1>5, <3>1, SlotFacts DEF ContractOf, Free
    <3>4. reload.old_slots \subseteq plugin_slots[reload.bundle_id]
      BY <2>3 DEF StoreInv, ReloadWindow
    <3>5. NewSlots \subseteq plugin_slots[reload.bundle_id]
      BY DEF NewSlots
    <3>6. QED
      BY <2>3, <3>2, <3>3, <3>4, <3>5 DEF StoreInv, ReloadWindow
  <2>4. QED
    BY <1>5, <2>1, <2>2, <2>3 DEF ReloadWindow
<1>14. GenerationTracked'
  BY <1>5 DEF StoreInv, GenerationTracked
<1>15. HandleIndexed'
  <2> SUFFICES ASSUME held # NoHandle, ~held.pending, held.age = 0
      PROVE  /\ held.index \in guest_contract_index'[held.contract_id]
             /\ tenant'[held.index].bundle_id = held.bundle_id
    BY <1>5 DEF HandleIndexed
  <2>1. /\ held.contract_id \in GuestContractId /\ held.index \in Slot
        /\ held.index \in guest_contract_index[held.contract_id]
        /\ tenant[held.index].bundle_id = held.bundle_id
    BY DEF StoreInv, HandleIndexed, TypeOK, Handle
  <2>2. held.index \notin S
    BY <2>1, SlotFacts
  <2>3. QED
    BY <1>5, <2>1, <2>2
<1>16. ImagesTracked'
  <2> SUFFICES ASSUME NEW s \in Slot, tenant'[s] # Vacant
      PROVE  tenant'[s].image =
               IF InitRunning(tenant[s].bundle_id)' /\ s \notin reload'.old_slots
               THEN reload'.image ELSE image'[tenant'[s].bundle_id]
    BY DEF ImagesTracked
  <2>1. CASE s \in S
    BY <1>3, <1>5, <1>6, <2>1 DEF InitRunning
  <2>2. CASE s \notin S
    <3>1. tenant'[s] = tenant[s] /\ tenant[s].bundle_id # b /\ tenant[s].bundle_id \in BundleId
      BY <1>7, <1>8, <2>2
    <3>2. QED
      BY <1>5, <3>1 DEF StoreInv, ImagesTracked, InitRunning
  <2>3. QED
    BY <2>1, <2>2
<1>17. QED
  BY <1>10, <1>11, <1>12, <1>13, <1>14, <1>15, <1>16 DEF StoreInv

\* An unload of a bundle that is not reloading keeps the invariant.
LEMMA InvalidateKeepsInv ==
  ASSUME StoreInv, TypeOK', NEW b \in BundleId, NotReloading(b), InvalidateBundle(b)
  PROVE  StoreInv'
<1> DEFINE S == plugin_slots[b]
<1>1. BumpGenerations(S)
  BY DEF InvalidateBundle, VacateSlots
<1>2. S = {s \in Slot : tenant[s] # Vacant /\ tenant[s].bundle_id = b}
  BY DEF StoreInv, SlotsOwned
<1>3. /\ \A s \in Slot : tenant'[s] = IF s \in S THEN Vacant ELSE tenant[s]
      /\ \A c \in GuestContractId : guest_contract_index'[c] =
           guest_contract_index[c] \ {s \in S : tenant[s] # Vacant /\ ContractOf(s) = c}
      /\ \A a \in BundleId : plugin_slots'[a] = IF a = b THEN {} ELSE plugin_slots[a]
      /\ reload' = reload /\ image' = image /\ reloading_bundles' = reloading_bundles
      /\ bundle_data' = bundle_data \ {b}
  BY DEF InvalidateBundle, VacateSlots, Unindexed, StoreInv, TypeOK
<1> HIDE DEF S
<1>4. IndexExact'
  <2> SUFFICES ASSUME NEW c \in GuestContractId, NEW s \in Slot
      PROVE  s \in guest_contract_index'[c] <=>
               /\ tenant'[s] # Vacant /\ ContractOf(s)' = c
               /\ InitRunning(tenant[s].bundle_id)' => s \in reload'.old_slots
    BY DEF IndexExact, TypeOK
  <2>1. s \in guest_contract_index[c] <=>
          /\ tenant[s] # Vacant /\ ContractOf(s) = c
          /\ InitRunning(tenant[s].bundle_id) => s \in reload.old_slots
    BY DEF StoreInv, IndexExact
  <2>2. CASE s \in S
    BY <1>2, <1>3, <2>1, <2>2
  <2>3. CASE s \notin S
    BY <1>3, <2>1, <2>3 DEF ContractOf, InitRunning
  <2>4. QED
    BY <2>2, <2>3
<1>5. SlotsOwned'
  <2> SUFFICES ASSUME NEW a \in BundleId, NEW s \in Slot
      PROVE  s \in plugin_slots'[a] <=> tenant'[s] # Vacant /\ tenant'[s].bundle_id = a
    BY DEF SlotsOwned, TypeOK
  <2>1. s \in plugin_slots[a] <=> tenant[s] # Vacant /\ tenant[s].bundle_id = a
    BY DEF StoreInv, SlotsOwned
  <2>2. QED
    BY <1>2, <1>3, <2>1
<1>6. PublishedCurrent'
  BY DEF InvalidateBundle, Publish, PublishedCurrent
<1>7. ReloadWindow'
  <2>1. reloading_bundles' = {a \in BundleId : InitRunning(a)'}
    BY <1>3 DEF StoreInv, ReloadWindow, InitRunning
  <2>2. \A a \in BundleId : plugin_slots'[a] # {} => a \in bundle_data'
    BY <1>3 DEF StoreInv, ReloadWindow
  <2>3. ASSUME reload # Idle
        PROVE  /\ reload.old_slots \subseteq plugin_slots'[reload.bundle_id]
               /\ reload.phase = "preparing" => reload.old_slots = plugin_slots'[reload.bundle_id]
               /\ \A c \in reload.old_contracts : \E s \in reload.old_slots : ContractOf(s)' = c
               /\ \A c \in reload.new_contracts : \E s \in NewSlots' : ContractOf(s)' = c
    <3>1. reload \in Reload /\ reload.bundle_id # b /\ reload.bundle_id \in BundleId
      BY <2>3 DEF StoreInv, TypeOK, NotReloading, Reload
    <3>2. plugin_slots'[reload.bundle_id] = plugin_slots[reload.bundle_id] /\ NewSlots' = NewSlots
      BY <1>3, <3>1 DEF NewSlots
    <3>3. \A s \in plugin_slots[reload.bundle_id] : ContractOf(s)' = ContractOf(s)
      <4>1. \A s \in plugin_slots[reload.bundle_id] :
              s \in Slot /\ tenant[s].bundle_id = reload.bundle_id
        BY <3>1 DEF StoreInv, SlotsOwned
      <4>2. QED
        BY <1>2, <1>3, <3>1, <4>1 DEF ContractOf
    <3>4. reload.old_slots \subseteq plugin_slots[reload.bundle_id]
      BY <2>3 DEF StoreInv, ReloadWindow
    <3>5. NewSlots \subseteq plugin_slots[reload.bundle_id]
      BY DEF NewSlots
    <3>6. QED
      BY <2>3, <3>2, <3>3, <3>4, <3>5 DEF StoreInv, ReloadWindow
  <2>4. QED
    BY <1>3, <2>1, <2>2, <2>3 DEF ReloadWindow
<1>8. GenerationTracked'
  <2>1. CASE held' = NoHandle
    BY <2>1 DEF GenerationTracked
  <2>2. CASE held' # NoHandle
    BY <1>1, <2>2, BumpTracks DEF StoreInv
  <2>3. QED
    BY <2>1, <2>2
<1>9. HandleIndexed'
  <2> SUFFICES ASSUME held' # NoHandle, ~held'.pending, held'.age = 0
      PROVE  /\ held'.index \in guest_contract_index'[held'.contract_id]
             /\ tenant'[held'.index].bundle_id = held'.bundle_id
    BY DEF HandleIndexed
  <2>1. /\ held \in Handle /\ held # NoHandle
        /\ held'.index = held.index /\ held'.pending = held.pending
        /\ held'.bundle_id = held.bundle_id /\ held'.contract_id = held.contract_id
        /\ held.age = 0 /\ held.index \notin S
    BY <1>1, BumpTracks DEF StoreInv
  <2>2. /\ held.contract_id \in GuestContractId /\ held.index \in Slot
        /\ held.index \in guest_contract_index[held.contract_id]
        /\ tenant[held.index].bundle_id = held.bundle_id
    BY <2>1 DEF StoreInv, HandleIndexed, Handle
  <2>3. QED
    BY <1>3, <2>1, <2>2
<1>10. ImagesTracked'
  BY <1>3 DEF StoreInv, ImagesTracked, InitRunning
<1>11. QED
  BY <1>4, <1>5, <1>6, <1>7, <1>8, <1>9, <1>10 DEF StoreInv

\* A registration by the init of the reloading bundle keeps the invariant.
LEMMA RegisterKeepsInv ==
  ASSUME StoreInv, TypeOK', NEW b \in BundleId, InitRunning(b), Register(b)
  PROVE  StoreInv'
<1>1. PICK p \in Plugin, s \in Free : RegisterGuestContract(b, p, s)
  BY DEF Register
<1>2. /\ IsPending(b) /\ reload \in Reload /\ reload # Idle
      /\ reload.bundle_id = b /\ reload.phase = "open"
  BY DEF StoreInv, ReloadWindow, IsPending, InitRunning, TypeOK, Idle
<1>3. s \in Slot /\ tenant[s] = Vacant
  BY DEF Free
<1>4. /\ \A r \in Slot : tenant'[r] =
           IF r = s THEN [bundle_id |-> b, plugin |-> p, image |-> reload.image] ELSE tenant[r]
      /\ \A c \in GuestContractId : guest_contract_index'[c] = guest_contract_index[c]
      /\ \A a \in BundleId : plugin_slots'[a] =
           IF a = b THEN plugin_slots[b] \cup {s} ELSE plugin_slots[a]
      /\ generation' = generation
      /\ reloading_bundles' = reloading_bundles
      /\ bundle_data' = bundle_data \cup {b}
      /\ image' = image
      /\ \/ held' = held
         \/ held' = NewHandle(s, generation[s], b, ContractIdOf[p], TRUE)
  BY <1>1, <1>2 DEF RegisterGuestContract, Insert, StoreInv, TypeOK
<1>5. /\ reload' \in Reload /\ reload' # Idle /\ reload'.phase = "open" /\ reload'.bundle_id = b
      /\ reload'.old_slots = reload.old_slots /\ reload'.old_contracts = reload.old_contracts
      /\ reload'.image = reload.image
      /\ reload'.new_contracts = reload.new_contracts \cup {ContractIdOf[p]}
  <2>1. reload' = [reload EXCEPT !.new_contracts = @ \cup {ContractIdOf[p]}]
    BY <1>1 DEF RegisterGuestContract
  <2>2. QED
    BY <1>2, <2>1, RegistryAssumption DEF Reload, Idle
<1>6. /\ tenant'[s] # Vacant /\ tenant'[s].bundle_id = b
      /\ tenant'[s].plugin = p /\ tenant'[s].image = reload.image
  <2>1. tenant'[s] = [bundle_id |-> b, plugin |-> p, image |-> reload.image]
    BY <1>3, <1>4
  <2>2. tenant'[s] \in Tenant
    BY <1>2, <2>1 DEF Tenant, Reload
  <2>3. QED
    BY <2>1, <2>2, RegistryAssumption
<1>7. /\ \A a \in BundleId : s \notin plugin_slots[a]
      /\ \A c \in GuestContractId : s \notin guest_contract_index[c]
      /\ s \notin reload.old_slots
  <2>1. /\ \A a \in BundleId : s \notin plugin_slots[a]
        /\ \A c \in GuestContractId : s \notin guest_contract_index[c]
    BY SlotFacts
  <2>2. QED
    BY <1>2, <2>1 DEF StoreInv, ReloadWindow
<1>8. IndexExact'
  <2> SUFFICES ASSUME NEW c \in GuestContractId, NEW r \in Slot
      PROVE  r \in guest_contract_index'[c] <=>
               /\ tenant'[r] # Vacant /\ ContractOf(r)' = c
               /\ InitRunning(tenant[r].bundle_id)' => r \in reload'.old_slots
    BY DEF IndexExact, TypeOK
  <2>1. CASE r = s
    BY <1>4, <1>5, <1>6, <1>7, <2>1 DEF InitRunning
  <2>2. CASE r # s
    BY <1>2, <1>4, <1>5, <2>2 DEF ContractOf, StoreInv, IndexExact, InitRunning
  <2>3. QED
    BY <2>1, <2>2
<1>9. SlotsOwned'
  <2> SUFFICES ASSUME NEW a \in BundleId, NEW r \in Slot
      PROVE  r \in plugin_slots'[a] <=> tenant'[r] # Vacant /\ tenant'[r].bundle_id = a
    BY DEF SlotsOwned, TypeOK
  <2>1. r \in plugin_slots[a] <=> tenant[r] # Vacant /\ tenant[r].bundle_id = a
    BY DEF StoreInv, SlotsOwned
  <2>2. CASE r = s
    BY <1>4, <1>6, <1>7, <2>2
  <2>3. CASE r # s
    BY <1>4, <2>1, <2>3
  <2>4. QED
    BY <2>2, <2>3
<1>10. PublishedCurrent'
  BY <1>1 DEF RegisterGuestContract, Publish, PublishedCurrent
<1>11. ReloadWindow'
  <2>1. reloading_bundles' = {a \in BundleId : InitRunning(a)'}
    BY <1>2, <1>4, <1>5 DEF StoreInv, ReloadWindow, InitRunning
  <2>2. \A a \in BundleId : plugin_slots'[a] # {} => a \in bundle_data'
    BY <1>4 DEF StoreInv, ReloadWindow
  <2>3. reload'.old_slots \subseteq plugin_slots'[reload'.bundle_id]
    BY <1>2, <1>4, <1>5 DEF StoreInv, ReloadWindow
  <2>4. NewSlots' = NewSlots \cup {s}
    BY <1>2, <1>4, <1>5, <1>7 DEF NewSlots
  <2>5. \A r \in plugin_slots[b] : ContractOf(r)' = ContractOf(r)
    <3>1. plugin_slots[b] \subseteq Slot
      BY DEF StoreInv, TypeOK
    <3>2. QED
      BY <1>4, <1>7, <3>1 DEF ContractOf
  <2>6. ContractOf(s)' = ContractIdOf[p]
    BY <1>6 DEF ContractOf
  <2>7. \A c \in reload'.old_contracts : \E r \in reload'.old_slots : ContractOf(r)' = c
    BY <1>2, <1>5, <2>5 DEF StoreInv, ReloadWindow
  <2>8. \A c \in reload'.new_contracts : \E r \in NewSlots' : ContractOf(r)' = c
    BY <1>2, <1>5, <2>4, <2>5, <2>6 DEF StoreInv, ReloadWindow, NewSlots
  <2>9. QED
    BY <1>5, <2>1, <2>2, <2>3, <2>7, <2>8 DEF ReloadWindow
<1>12. GenerationTracked'
  <2>1. CASE held' = held
    BY <1>4, <2>1 DEF StoreInv, GenerationTracked
  <2>2. CASE held' = NewHandle(s, generation[s], b, ContractIdOf[p], TRUE)
    BY <1>3, <1>4, <2>2, RegistryAssumption
    DEF StoreInv, TypeOK, GenerationTracked, NewHandle, Generation
  <2>3. QED
    BY <1>4, <2>1, <2>2
<1>13. HandleIndexed'
  <2>1. CASE held' = held
    <3> SUFFICES ASSUME held # NoHandle, ~held.pending, held.age = 0
        PROVE  /\ held.index \in guest_contract_index'[held.contract_id]
               /\ tenant'[held.index].bundle_id = held.bundle_id
      BY <2>1 DEF HandleIndexed
    <3>1. /\ held.contract_id \in GuestContractId /\ held.index \in Slot
          /\ held.index \in guest_contract_index[held.contract_id]
          /\ tenant[held.index].bundle_id = held.bundle_id
      BY DEF StoreInv, HandleIndexed, TypeOK, Handle
    <3>2. QED
      BY <1>4, <1>7, <3>1
  <2>2. CASE held' = NewHandle(s, generation[s], b, ContractIdOf[p], TRUE)
    BY <2>2 DEF HandleIndexed, NewHandle
  <2>3. QED
    BY <1>4, <2>1, <2>2
<1>14. ImagesTracked'
  <2> SUFFICES ASSUME NEW r \in Slot, tenant'[r] # Vacant
      PROVE  tenant'[r].image =
               IF InitRunning(tenant[r].bundle_id)' /\ r \notin reload'.old_slots
               THEN reload'.image ELSE image'[tenant'[r].bundle_id]
    BY DEF ImagesTracked
  <2>1. CASE r = s
    BY <1>5, <1>6, <1>7, <2>1 DEF InitRunning
  <2>2. CASE r # s
    BY <1>2, <1>4, <1>5, <2>2 DEF StoreInv, ImagesTracked, InitRunning
  <2>3. QED
    BY <2>1, <2>2
<1>15. QED
  BY <1>8, <1>9, <1>10, <1>11, <1>12, <1>13, <1>14 DEF StoreInv

-----------------------------------------------------------------------------
\* Taking the pre-reload snapshot keeps the invariant.
LEMMA SnapshotKeepsInv ==
  ASSUME StoreInv, TypeOK', NEW b \in BundleId, SnapshotSlots(b)
  PROVE  StoreInv'
<1>1. /\ tenant' = tenant /\ generation' = generation /\ held' = held /\ image' = image
      /\ guest_contract_index' = guest_contract_index /\ plugin_slots' = plugin_slots
      /\ reloading_bundles' = reloading_bundles /\ bundle_data' = bundle_data
      /\ published' = published
  BY DEF SnapshotSlots, store
<1>2. /\ reload = Idle /\ reload'.phase = "preparing" /\ reload'.bundle_id = b
      /\ reload'.old_slots = plugin_slots[b] /\ reload'.new_contracts = {}
      /\ reload'.old_contracts = {ContractOf(s) : s \in plugin_slots[b] \ Free}
  BY DEF SnapshotSlots
<1>3. \A a : ~InitRunning(a) /\ ~InitRunning(a)'
  BY <1>2 DEF InitRunning, Idle
<1>4. IndexExact' /\ ImagesTracked'
  BY <1>1, <1>2 DEF StoreInv, IndexExact, ImagesTracked, ContractOf, InitRunning, Idle
<1>5. ReloadWindow'
  <2>1. reloading_bundles' = {a \in BundleId : InitRunning(a)'}
    BY <1>1, <1>3 DEF StoreInv, ReloadWindow
  <2>2. \A s : ContractOf(s)' = ContractOf(s)
    BY <1>1 DEF ContractOf
  <2>3. QED
    BY <1>1, <1>2, <2>1, <2>2 DEF StoreInv, ReloadWindow
<1>6. SlotsOwned' /\ PublishedCurrent' /\ GenerationTracked' /\ HandleIndexed'
  BY <1>1 DEF StoreInv, SlotsOwned, PublishedCurrent, GenerationTracked, HandleIndexed
<1>7. QED
  BY <1>4, <1>5, <1>6 DEF StoreInv

\* Opening the reload window keeps the invariant: up to here every slot of the
\* bundle is a pre-reload slot and indexed.
LEMMA BeginKeepsInv ==
  ASSUME StoreInv, TypeOK', NEW i \in Image, BeginReload(i)
  PROVE  StoreInv'
<1>1. /\ tenant' = tenant /\ generation' = generation /\ held' = held /\ image' = image
      /\ guest_contract_index' = guest_contract_index /\ plugin_slots' = plugin_slots
      /\ bundle_data' = bundle_data
      /\ reloading_bundles' = reloading_bundles \cup {reload.bundle_id}
  BY DEF BeginReload
<1>2. /\ reload \in Reload /\ reload # Idle /\ reload.phase = "preparing"
      /\ reload.bundle_id \in BundleId
  BY DEF BeginReload, StoreInv, TypeOK, Idle, Reload
<1>3. /\ reload'.phase = "open" /\ reload'.bundle_id = reload.bundle_id
      /\ reload'.old_slots = reload.old_slots /\ reload'.new_contracts = reload.new_contracts
      /\ reload'.old_contracts = reload.old_contracts /\ reload' # Idle
  BY <1>2 DEF BeginReload, Reload, Idle
<1>4. \A s \in Slot : tenant[s] # Vacant /\ tenant[s].bundle_id = reload.bundle_id
        => s \in reload.old_slots
  BY <1>2 DEF StoreInv, SlotsOwned, ReloadWindow
<1>5. IndexExact' /\ ImagesTracked'
  BY <1>1, <1>2, <1>3, <1>4 DEF StoreInv, IndexExact, ImagesTracked, ContractOf, InitRunning
<1>6. ReloadWindow'
  <2>1. reloading_bundles' = {a \in BundleId : InitRunning(a)'}
    BY <1>1, <1>2, <1>3 DEF StoreInv, ReloadWindow, InitRunning
  <2>2. \A s : ContractOf(s)' = ContractOf(s)
    BY <1>1 DEF ContractOf
  <2>3. NewSlots' = NewSlots
    BY <1>1, <1>3 DEF NewSlots
  <2>4. QED
    BY <1>1, <1>2, <1>3, <2>1, <2>2, <2>3 DEF StoreInv, ReloadWindow
<1>7. PublishedCurrent'
  BY DEF BeginReload, Publish, PublishedCurrent
<1>8. SlotsOwned' /\ GenerationTracked' /\ HandleIndexed'
  BY <1>1 DEF StoreInv, SlotsOwned, GenerationTracked, HandleIndexed
<1>9. QED
  BY <1>5, <1>6, <1>7, <1>8 DEF StoreInv

\* The slots of the open window, as the invariant describes them.
LEMMA WindowFacts ==
  ASSUME StoreInv, reload.phase = "open"
  PROVE  /\ reload \in Reload /\ reload # Idle /\ reload.bundle_id \in BundleId
         /\ InitRunning(reload.bundle_id)
         /\ reload.old_slots \subseteq plugin_slots[reload.bundle_id]
         /\ reload.old_slots \subseteq Slot /\ NewSlots \subseteq Slot
         /\ NewSlots \cap reload.old_slots = {}
         /\ \A s \in Slot : s \in NewSlots \cup reload.old_slots <=>
              tenant[s] # Vacant /\ tenant[s].bundle_id = reload.bundle_id
         /\ \A c \in GuestContractId : guest_contract_index[c] \cap NewSlots = {}
         /\ \A s \in reload.old_slots : s \in guest_contract_index[ContractOf(s)]
<1>1. reload \in Reload /\ reload # Idle /\ reload.bundle_id \in BundleId
  BY DEF StoreInv, TypeOK, Idle, Reload
<1>2. InitRunning(reload.bundle_id)
  BY DEF InitRunning
<1>3. reload.old_slots \subseteq plugin_slots[reload.bundle_id]
  BY <1>1 DEF StoreInv, ReloadWindow
<1>4. plugin_slots[reload.bundle_id] =
        {s \in Slot : tenant[s] # Vacant /\ tenant[s].bundle_id = reload.bundle_id}
  BY <1>1 DEF StoreInv, SlotsOwned
<1>5. reload.old_slots \subseteq Slot /\ NewSlots \subseteq Slot /\ NewSlots \cap reload.old_slots = {}
  BY <1>3, <1>4 DEF NewSlots
<1>6. \A s \in Slot : s \in NewSlots \cup reload.old_slots <=>
        tenant[s] # Vacant /\ tenant[s].bundle_id = reload.bundle_id
  BY <1>3, <1>4 DEF NewSlots
<1>7. \A c \in GuestContractId : guest_contract_index[c] \cap NewSlots = {}
  BY <1>2, <1>5, <1>6 DEF StoreInv, IndexExact
<1>8. \A s \in reload.old_slots : s \in guest_contract_index[ContractOf(s)]
  <2>1. \A s \in Slot : tenant[s] # Vacant => ContractOf(s) \in GuestContractId
    BY SlotFacts
  <2>2. QED
    BY <1>5, <1>6, <2>1 DEF StoreInv, IndexExact
<1>9. QED
  BY <1>1, <1>2, <1>3, <1>5, <1>6, <1>7, <1>8

\* Aborting a reload clears exactly the pending slots, none of which is indexed.
LEMMA AbortKeepsInv ==
  ASSUME StoreInv, TypeOK', AbortReload
  PROVE  StoreInv'
<1> DEFINE B == reload.bundle_id
<1>1. /\ reload \in Reload /\ B \in BundleId /\ NewSlots \subseteq Slot
      /\ NewSlots \cap reload.old_slots = {}
      /\ \A s \in Slot : s \in NewSlots \cup reload.old_slots <=>
           tenant[s] # Vacant /\ tenant[s].bundle_id = B
      /\ \A c \in GuestContractId : guest_contract_index[c] \cap NewSlots = {}
      /\ InitRunning(B)
  BY WindowFacts DEF AbortReload
<1>2. /\ \A s \in Slot : tenant'[s] = IF s \in NewSlots THEN Vacant ELSE tenant[s]
      /\ \A c \in GuestContractId : guest_contract_index'[c] =
           guest_contract_index[c] \ {s \in NewSlots : tenant[s] # Vacant /\ ContractOf(s) = c}
      /\ \A a \in BundleId : plugin_slots'[a] =
           IF a = B THEN plugin_slots[B] \ NewSlots ELSE plugin_slots[a]
      /\ generation' = generation /\ held' = held /\ image' = image /\ bundle_data' = bundle_data
      /\ reloading_bundles' = reloading_bundles \ {B}
      /\ reload' = Idle
  BY <1>1 DEF AbortReload, Unindexed, StoreInv, TypeOK
<1>3. ASSUME NEW c \in GuestContractId
      PROVE  guest_contract_index'[c] = guest_contract_index[c]
  <2>1. guest_contract_index[c] \cap NewSlots = {}
    BY <1>1
  <2>2. guest_contract_index'[c] =
          guest_contract_index[c] \ {s \in NewSlots : tenant[s] # Vacant /\ ContractOf(s) = c}
    BY <1>2
  <2>3. QED
    BY <2>1, <2>2
<1>4. \A a : ~InitRunning(a)'
  BY <1>2 DEF InitRunning, Idle
<1>5. \A a : InitRunning(a) => a = B
  BY DEF InitRunning
<1> HIDE DEF B
<1>6. IndexExact'
  <2> SUFFICES ASSUME NEW c \in GuestContractId, NEW s \in Slot
      PROVE  s \in guest_contract_index'[c] <=> tenant'[s] # Vacant /\ ContractOf(s)' = c
    BY <1>2 DEF IndexExact, TypeOK, InitRunning, Idle
  <2>1. s \in guest_contract_index[c] <=>
          /\ tenant[s] # Vacant /\ ContractOf(s) = c
          /\ InitRunning(tenant[s].bundle_id) => s \in reload.old_slots
    BY DEF StoreInv, IndexExact
  <2>2. CASE s \in NewSlots
    BY <1>1, <1>2, <1>3, <2>2
  <2>3. CASE s \notin NewSlots
    BY <1>1, <1>2, <1>3, <1>5, <2>1, <2>3 DEF ContractOf
  <2>4. QED
    BY <2>2, <2>3
<1>7. SlotsOwned'
  <2> SUFFICES ASSUME NEW a \in BundleId, NEW s \in Slot
      PROVE  s \in plugin_slots'[a] <=> tenant'[s] # Vacant /\ tenant'[s].bundle_id = a
    BY DEF SlotsOwned, TypeOK
  <2>1. s \in plugin_slots[a] <=> tenant[s] # Vacant /\ tenant[s].bundle_id = a
    BY DEF StoreInv, SlotsOwned
  <2>2. QED
    BY <1>1, <1>2, <2>1
<1>8. PublishedCurrent'
  BY DEF AbortReload, Publish, PublishedCurrent
<1>9. ReloadWindow'
  <2>1. reloading_bundles = {a \in BundleId : InitRunning(a)}
    BY DEF StoreInv, ReloadWindow
  <2>2. reloading_bundles' = {a \in BundleId : InitRunning(a)'}
    BY <1>1, <1>2, <1>4, <1>5, <2>1
  <2>3. \A a \in BundleId : plugin_slots'[a] # {} => a \in bundle_data'
    BY <1>1, <1>2 DEF StoreInv, ReloadWindow
  <2>4. QED
    BY <1>2, <2>2, <2>3 DEF ReloadWindow
<1>10. GenerationTracked'
  BY <1>2 DEF StoreInv, GenerationTracked
<1>11. HandleIndexed'
  <2> SUFFICES ASSUME held # NoHandle, ~held.pending, held.age = 0
      PROVE  /\ held.index \in guest_contract_index'[held.contract_id]
             /\ tenant'[held.index].bundle_id = held.bundle_id
    BY <1>2 DEF HandleIndexed
  <2>1. /\ held.contract_id \in GuestContractId /\ held.index \in Slot
        /\ held.index \in guest_contract_index[held.contract_id]
        /\ tenant[held.index].bundle_id = held.bundle_id
    BY DEF StoreInv, HandleIndexed, TypeOK, Handle
  <2>2. QED
    BY <1>1, <1>2, <1>3, <2>1
<1>12. ImagesTracked'
  <2> SUFFICES ASSUME NEW s \in Slot, tenant'[s] # Vacant
      PROVE  tenant'[s].image = image'[tenant'[s].bundle_id]
    BY <1>2 DEF ImagesTracked, InitRunning, Idle
  <2>1. s \notin NewSlots /\ tenant'[s] = tenant[s]
    BY <1>2
  <2>2. InitRunning(tenant[s].bundle_id) => s \in reload.old_slots
    BY <1>1, <1>5, <2>1
  <2>3. QED
    BY <1>2, <2>1, <2>2 DEF StoreInv, ImagesTracked
<1>13. QED
  BY <1>6, <1>7, <1>8, <1>9, <1>10, <1>11, <1>12 DEF StoreInv

\* A find keeps the invariant: it hands out a handle to an indexed slot with
\* the slot's current generation.
LEMMA FindKeepsInv ==
  ASSUME StoreInv, TypeOK', Find
  PROVE  StoreInv'
<1>1. PICK c \in GuestContractId, s \in Slot :
         \/ FindGuestContract(c, s)
         \/ \E b \in BundleId : FindGuestContractByBundle(b, c, s)
  BY DEF Find
<1>2. /\ tenant' = tenant /\ generation' = generation /\ image' = image /\ reload' = reload
      /\ guest_contract_index' = guest_contract_index /\ plugin_slots' = plugin_slots
      /\ reloading_bundles' = reloading_bundles /\ bundle_data' = bundle_data
      /\ published' = published
  BY <1>1 DEF FindGuestContract, FindGuestContractByBundle, store
<1>3. \E b \in BundleId : /\ held' = NewHandle(s, generation[s], b, c, FALSE)
                          /\ s \in guest_contract_index[c]
                          /\ tenant[s].bundle_id = b
  <2>1. CASE FindGuestContract(c, s)
    <3>1. /\ published.tenant = tenant /\ published.generation = generation
          /\ published.index = guest_contract_index
      BY DEF StoreInv, PublishedCurrent
    <3>2. tenant[s].bundle_id \in BundleId
      BY <2>1, <3>1, SlotFacts DEF FindGuestContract
    <3>3. QED
      BY <2>1, <3>1, <3>2 DEF FindGuestContract
  <2>2. ASSUME NEW b \in BundleId, FindGuestContractByBundle(b, c, s)
        PROVE  /\ held' = NewHandle(s, generation[s], b, c, FALSE)
               /\ s \in guest_contract_index[c]
               /\ tenant[s].bundle_id = b
    <3>1. /\ held' = NewHandle(s, generation[s], b, c, FALSE)
          /\ tenant[s] # Vacant /\ tenant[s].bundle_id = b /\ ContractOf(s) = c
          /\ b \in reloading_bundles => s \in guest_contract_index[c]
      BY <2>2 DEF FindGuestContractByBundle
    <3>2. b \in reloading_bundles <=> InitRunning(b)
      BY DEF StoreInv, ReloadWindow
    <3>3. QED
      BY <3>1, <3>2 DEF StoreInv, IndexExact
  <2>3. QED
    BY <1>1, <2>1, <2>2
<1>4. PICK b \in BundleId : /\ held' = NewHandle(s, generation[s], b, c, FALSE)
                            /\ s \in guest_contract_index[c]
                            /\ tenant[s].bundle_id = b
  BY <1>3
<1>5. /\ held'.index = s /\ held'.generation = generation[s] /\ held'.age = 0
      /\ held'.bundle_id = b /\ held'.contract_id = c
  BY <1>4 DEF NewHandle
<1>6. generation[s] \in Generation
  BY DEF StoreInv, TypeOK
<1>7. GenerationTracked'
  BY <1>2, <1>5, <1>6, RegistryAssumption DEF GenerationTracked, Generation
<1>8. HandleIndexed'
  BY <1>2, <1>4, <1>5 DEF HandleIndexed
<1>9. /\ IndexExact' /\ SlotsOwned' /\ PublishedCurrent' /\ ReloadWindow' /\ ImagesTracked'
  BY <1>2 DEF StoreInv, IndexExact, SlotsOwned, PublishedCurrent, ReloadWindow,
              ImagesTracked, ContractOf, InitRunning, NewSlots
<1>10. QED
  BY <1>7, <1>8, <1>9 DEF StoreInv

\* What a complete swap does, slot by slot.
LEMMA SwapFacts ==
  ASSUME StoreInv, reload.phase = "open",
         NEW S \in SUBSET reload.old_slots, NEW m \in [S -> NewSlots],
         SwapMatching(reload.old_slots, m),
         Swap(reload.old_slots, m, {s \in NewSlots \ Range(m) : tenant[s] # Vacant})
  PROVE  /\ Range(m) \subseteq NewSlots
         /\ BumpGenerations(Gone(reload.old_slots, m))
         /\ \A s \in Slot : s \in Gone(reload.old_slots, m) <=>
              s \in Range(m) \/ (s \in reload.old_slots /\ s \notin S)
         /\ \A s \in S : /\ m[s] \in NewSlots /\ tenant'[s] = tenant[m[s]]
                         /\ ContractOf(m[s]) = ContractOf(s)
         /\ \A s \in Slot : s \in Gone(reload.old_slots, m) => tenant'[s] = Vacant
         /\ \A s \in Slot : s \notin S /\ s \notin Gone(reload.old_slots, m)
              => tenant'[s] = tenant[s]
         /\ \A a \in BundleId : plugin_slots'[a] =
              IF a = reload.bundle_id THEN plugin_slots[a] \ Gone(reload.old_slots, m)
              ELSE plugin_slots[a]
         /\ \A c \in GuestContractId, s \in Slot :
              s \in guest_contract_index'[c] <=>
                \/ /\ s \in guest_contract_index[c]
                   /\ ~(s \in Gone(reload.old_slots, m) /\ tenant[s] # Vacant /\ ContractOf(s) = c)
                \/ s \in NewSlots /\ s \notin Range(m) /\ ContractOf(s) = c
<1> DEFINE O == reload.old_slots
           G == Gone(O, m)
<1>1. /\ O \subseteq Slot /\ NewSlots \subseteq Slot /\ NewSlots \cap O = {}
      /\ \A s \in NewSlots : tenant[s] # Vacant
      /\ reload.bundle_id \in BundleId
  BY WindowFacts
<1>2. DOMAIN m = S /\ Range(m) = {m[s] : s \in S}
  BY DEF Range
<1>3. Range(m) \subseteq NewSlots
  BY <1>2
<1>4. BumpGenerations(G)
  BY DEF Swap
<1>5. \A s : s \in G <=> s \in Range(m) \/ (s \in O /\ s \notin S)
  BY <1>2 DEF Gone
<1>6. \A s \in Slot : tenant'[s] =
        IF s \in S THEN tenant[m[s]] ELSE IF s \in G THEN Vacant ELSE tenant[s]
  BY <1>2 DEF Swap
<1>7. \A s \in S : s \in Slot /\ s \notin G
  BY <1>1, <1>3, <1>5
<1>8. \A s \in S : m[s] \in NewSlots /\ ContractOf(m[s]) = ContractOf(s)
  BY <1>2 DEF SwapMatching
<1>9. \A a \in BundleId : plugin_slots'[a] =
        IF a = reload.bundle_id THEN plugin_slots[a] \ G ELSE plugin_slots[a]
  BY <1>1 DEF Swap, StoreInv, TypeOK
<1>10. \A c \in GuestContractId : guest_contract_index'[c] =
         (guest_contract_index[c] \ {s \in G : tenant[s] # Vacant /\ ContractOf(s) = c})
         \cup {s \in {r \in NewSlots \ Range(m) : tenant[r] # Vacant} : ContractOf(s) = c}
  BY DEF Swap, Unindexed
<1>11. \A c \in GuestContractId, s \in Slot :
         s \in guest_contract_index'[c] <=>
           \/ /\ s \in guest_contract_index[c]
              /\ ~(s \in G /\ tenant[s] # Vacant /\ ContractOf(s) = c)
           \/ s \in NewSlots /\ s \notin Range(m) /\ ContractOf(s) = c
  BY <1>1, <1>10
<1>12. QED
  BY <1>3, <1>4, <1>5, <1>6, <1>7, <1>8, <1>9, <1>11

\* A successful swap keeps the invariant.
LEMMA SwapKeepsInv ==
  ASSUME StoreInv, TypeOK', SwapSucceeds
  PROVE  StoreInv'
<1>1. PICK S \in SUBSET reload.old_slots : \E m \in [S -> NewSlots], deps \in DependencySets :
         ApplyReloadSwap(m, deps)
  BY DEF SwapSucceeds
<1>2. PICK m \in [S -> NewSlots], deps \in DependencySets : ApplyReloadSwap(m, deps)
  BY <1>1
<1> DEFINE O == reload.old_slots
           B == reload.bundle_id
           G == Gone(O, m)
<1>3. /\ reload.phase = "open" /\ SwapMatching(O, m)
      /\ Swap(O, m, {s \in NewSlots \ Range(m) : tenant[s] # Vacant})
  BY <1>2 DEF ApplyReloadSwap
<1>4. /\ B \in BundleId /\ InitRunning(B) /\ reload # Idle
      /\ O \subseteq Slot /\ NewSlots \subseteq Slot /\ NewSlots \cap O = {}
      /\ \A s \in Slot : s \in NewSlots \cup O <=> tenant[s] # Vacant /\ tenant[s].bundle_id = B
      /\ \A c \in GuestContractId : guest_contract_index[c] \cap NewSlots = {}
  BY <1>3, WindowFacts
<1>5. /\ Range(m) \subseteq NewSlots
      /\ BumpGenerations(G)
      /\ \A s \in Slot : s \in G <=> s \in Range(m) \/ (s \in O /\ s \notin S)
      /\ \A s \in S : /\ m[s] \in NewSlots /\ tenant'[s] = tenant[m[s]]
                      /\ ContractOf(m[s]) = ContractOf(s)
      /\ \A s \in Slot : s \in G => tenant'[s] = Vacant
      /\ \A s \in Slot : s \notin S /\ s \notin G => tenant'[s] = tenant[s]
      /\ \A a \in BundleId : plugin_slots'[a] =
           IF a = B THEN plugin_slots[a] \ G ELSE plugin_slots[a]
      /\ \A c \in GuestContractId, s \in Slot :
           s \in guest_contract_index'[c] <=>
             \/ /\ s \in guest_contract_index[c]
                /\ ~(s \in G /\ tenant[s] # Vacant /\ ContractOf(s) = c)
             \/ s \in NewSlots /\ s \notin Range(m) /\ ContractOf(s) = c
  BY <1>3, SwapFacts
<1>6. /\ reload' = Idle /\ reloading_bundles' = reloading_bundles \ {B}
      /\ bundle_data' = bundle_data /\ B \in bundle_data
      /\ \A a \in BundleId : image'[a] = IF a = B THEN reload.image ELSE image[a]
  BY <1>2, <1>4 DEF ApplyReloadSwap, StoreInv, TypeOK
<1>7. \A a : InitRunning(a) <=> a = B
  BY <1>3 DEF InitRunning
<1>8. \A a : ~InitRunning(a)'
  BY <1>6 DEF InitRunning, Idle
<1> HIDE DEF O, B, G
<1>9. S \subseteq O
  BY DEF O
<1>10. \A s \in S : tenant'[s] # Vacant /\ tenant'[s].bundle_id = B /\ ContractOf(s)' = ContractOf(s)
  <2> SUFFICES ASSUME NEW s \in S
      PROVE  tenant'[s] # Vacant /\ tenant'[s].bundle_id = B /\ ContractOf(s)' = ContractOf(s)
    OBVIOUS
  <2>1. m[s] \in NewSlots /\ tenant'[s] = tenant[m[s]] /\ ContractOf(m[s]) = ContractOf(s)
    BY <1>5
  <2>2. tenant[m[s]] # Vacant /\ tenant[m[s]].bundle_id = B
    BY <1>4, <2>1
  <2>3. QED
    BY <2>1, <2>2 DEF ContractOf
<1>11. IndexExact'
  <2> SUFFICES ASSUME NEW c \in GuestContractId, NEW s \in Slot
      PROVE  s \in guest_contract_index'[c] <=> tenant'[s] # Vacant /\ ContractOf(s)' = c
    BY <1>6 DEF IndexExact, TypeOK, InitRunning, Idle
  <2>1. s \in guest_contract_index[c] <=>
          /\ tenant[s] # Vacant /\ ContractOf(s) = c
          /\ InitRunning(tenant[s].bundle_id) => s \in O
    BY DEF StoreInv, IndexExact, O
  <2>2. CASE s \in S
    BY <1>4, <1>5, <1>9, <1>10, <2>1, <2>2
  <2>3. CASE s \in G
    BY <1>4, <1>5, <2>1, <2>3
  <2>4. CASE s \notin S /\ s \notin G
    <3>1. tenant'[s] = tenant[s] /\ ContractOf(s)' = ContractOf(s)
      BY <1>5, <2>4 DEF ContractOf
    <3>2. CASE s \in NewSlots
      BY <1>4, <1>5, <2>4, <3>1, <3>2
    <3>3. CASE s \notin NewSlots
      <4>1. s \notin O
        BY <1>5, <2>4
      <4>2. tenant[s] # Vacant => tenant[s].bundle_id # B
        BY <1>4, <3>3, <4>1
      <4>3. QED
        BY <1>5, <1>7, <2>1, <2>4, <3>1, <3>3, <4>2
    <3>4. QED
      BY <3>2, <3>3
  <2>5. QED
    BY <2>2, <2>3, <2>4
<1>12. SlotsOwned'
  <2> SUFFICES ASSUME NEW a \in BundleId, NEW s \in Slot
      PROVE  s \in plugin_slots'[a] <=> tenant'[s] # Vacant /\ tenant'[s].bundle_id = a
    BY DEF SlotsOwned, TypeOK
  <2>1. s \in plugin_slots[a] <=> tenant[s] # Vacant /\ tenant[s].bundle_id = a
    BY DEF StoreInv, SlotsOwned
  <2>2. CASE s \in S
    <3>1. s \in O /\ tenant[s] # Vacant /\ tenant[s].bundle_id = B /\ s \notin G
      BY <1>4, <1>5, <1>9, <2>2
    <3>2. QED
      BY <1>5, <1>10, <2>1, <2>2, <3>1
  <2>3. CASE s \in G
    <3>1. tenant[s] # Vacant /\ tenant[s].bundle_id = B
      BY <1>4, <1>5, <2>3
    <3>2. QED
      BY <1>5, <2>1, <2>3, <3>1
  <2>4. CASE s \notin S /\ s \notin G
    BY <1>5, <2>1, <2>4
  <2>5. QED
    BY <2>2, <2>3, <2>4
<1>13. PublishedCurrent'
  BY <1>2 DEF ApplyReloadSwap, Publish, PublishedCurrent
<1>14. ReloadWindow'
  <2>1. reloading_bundles = {a \in BundleId : InitRunning(a)}
    BY DEF StoreInv, ReloadWindow
  <2>2. reloading_bundles' = {a \in BundleId : InitRunning(a)'}
    BY <1>6, <1>7, <1>8, <2>1
  <2>3. \A a \in BundleId : plugin_slots'[a] # {} => a \in bundle_data'
    BY <1>5, <1>6 DEF StoreInv, ReloadWindow
  <2>4. QED
    BY <1>6, <2>2, <2>3 DEF ReloadWindow
<1>15. GenerationTracked'
  <2>1. CASE held' = NoHandle
    BY <2>1 DEF GenerationTracked
  <2>2. CASE held' # NoHandle
    BY <1>5, <2>2, BumpTracks DEF StoreInv
  <2>3. QED
    BY <2>1, <2>2
<1>16. HandleIndexed'
  <2> SUFFICES ASSUME held' # NoHandle, ~held'.pending, held'.age = 0
      PROVE  /\ held'.index \in guest_contract_index'[held'.contract_id]
             /\ tenant'[held'.index].bundle_id = held'.bundle_id
    BY DEF HandleIndexed
  <2>1. /\ held \in Handle /\ held # NoHandle
        /\ held'.index = held.index /\ held'.pending = held.pending
        /\ held'.bundle_id = held.bundle_id /\ held'.contract_id = held.contract_id
        /\ held.age = 0 /\ held.index \notin G
    BY <1>5, BumpTracks DEF StoreInv
  <2>2. /\ held.contract_id \in GuestContractId /\ held.index \in Slot
        /\ held.index \in guest_contract_index[held.contract_id]
        /\ tenant[held.index].bundle_id = held.bundle_id
    BY <2>1 DEF StoreInv, HandleIndexed, Handle
  <2>3. held.index \in guest_contract_index'[held.contract_id]
    BY <1>5, <2>1, <2>2
  <2>4. tenant'[held.index].bundle_id = held.bundle_id
    <3>1. CASE held.index \in S
      BY <1>4, <1>9, <1>10, <2>2, <3>1
    <3>2. CASE held.index \notin S
      BY <1>5, <2>1, <2>2, <3>2
    <3>3. QED
      BY <3>1, <3>2
  <2>5. QED
    BY <2>1, <2>3, <2>4
<1>17. ImagesTracked'
  <2> SUFFICES ASSUME NEW s \in Slot, tenant'[s] # Vacant
      PROVE  tenant'[s].image = image'[tenant'[s].bundle_id]
    BY <1>6 DEF ImagesTracked, InitRunning, Idle
  <2>1. \A r \in NewSlots : tenant[r].image = reload.image
    <3> SUFFICES ASSUME NEW r \in NewSlots
        PROVE  tenant[r].image = reload.image
      OBVIOUS
    <3>1. r \in Slot /\ r \notin O /\ tenant[r] # Vacant /\ InitRunning(tenant[r].bundle_id)
      BY <1>4
    <3>2. QED
      BY <3>1 DEF StoreInv, ImagesTracked, O
  <2>2. CASE s \in S
    <3>1. tenant'[s].image = reload.image
      BY <1>5, <2>1, <2>2
    <3>2. QED
      BY <1>4, <1>6, <1>10, <2>2, <3>1
  <2>3. CASE s \notin S
    <3>1. s \notin G /\ tenant'[s] = tenant[s]
      BY <1>5, <2>3
    <3>2. CASE s \in NewSlots
      BY <1>4, <1>6, <2>1, <3>1, <3>2
    <3>3. CASE s \notin NewSlots
      <4>1. tenant[s].bundle_id # B
        BY <1>4, <1>5, <2>3, <3>1, <3>3
      <4>2. tenant[s].bundle_id \in BundleId
        BY <3>1, SlotFacts
      <4>3. tenant[s].image = image[tenant[s].bundle_id]
        BY <1>7, <3>1, <4>1 DEF StoreInv, ImagesTracked
      <4>4. QED
        BY <1>6, <3>1, <4>1, <4>2, <4>3
    <3>4. QED
      BY <3>2, <3>3
  <2>4. QED
    BY <2>2, <2>3
<1>18. QED
  BY <1>11, <1>12, <1>13, <1>14, <1>15, <1>16, <1>17 DEF StoreInv

\* A swap that fails has nothing to do under SerialSpec: the old slots are
\* occupied, so it can only fail because the bundle was never registered.
LEMMA FailKeepsInv ==
  ASSUME StoreInv, TypeOK', SwapFails
  PROVE  StoreInv'
<1>1. PICK done \in SUBSET reload.old_slots : \E S \in SUBSET done : \E m \in [S -> NewSlots] :
         FailReloadSwap(done, m)
  BY DEF SwapFails
<1>2. PICK S \in SUBSET done : \E m \in [S -> NewSlots] : FailReloadSwap(done, m)
  BY <1>1
<1>3. PICK m \in [S -> NewSlots] : FailReloadSwap(done, m)
  BY <1>2
<1> DEFINE B == reload.bundle_id
<1>4. reload.phase = "open"
  BY DEF SwapFails
<1>5. /\ B \in BundleId /\ InitRunning(B) /\ reload.old_slots \subseteq Slot
      /\ reload.old_slots \subseteq plugin_slots[B]
      /\ \A s \in Slot : s \in NewSlots \cup reload.old_slots <=>
           tenant[s] # Vacant /\ tenant[s].bundle_id = B
  BY <1>4, WindowFacts
<1>6. B \notin bundle_data
  BY <1>3, <1>5 DEF FailReloadSwap
<1>7. plugin_slots[B] = {}
  BY <1>5, <1>6 DEF StoreInv, ReloadWindow
<1>8. done = {} /\ NewSlots = {} /\ S = {}
  BY <1>5, <1>7 DEF NewSlots
<1>9. Gone(done, m) = {} /\ DOMAIN m = {}
  BY <1>8 DEF Gone, Range
<1>10. Swap(done, m, {})
  BY <1>3 DEF FailReloadSwap
<1>11. generation' = generation /\ held' = held
  <2>1. generation' = [s \in Slot |-> generation[s]] /\ held' = held
    BY <1>9, <1>10 DEF Swap, BumpGenerations
  <2>2. QED
    BY <2>1 DEF StoreInv, TypeOK
<1>12. tenant' = tenant
  <2>1. tenant' = [s \in Slot |-> tenant[s]]
    BY <1>9, <1>10 DEF Swap
  <2>2. QED
    BY <2>1 DEF StoreInv, TypeOK
<1>13. plugin_slots' = plugin_slots
  <2>1. plugin_slots' = [plugin_slots EXCEPT ![B] = @ \ {}]
    BY <1>9, <1>10 DEF Swap
  <2>2. QED
    BY <1>7, <2>1 DEF StoreInv, TypeOK
<1>14. guest_contract_index' = guest_contract_index
  <2>1. guest_contract_index' = [c \in GuestContractId |->
          (guest_contract_index[c] \ {s \in {} : tenant[s] # Vacant /\ ContractOf(s) = c})
          \cup {s \in {} : ContractOf(s) = c}]
    BY <1>9, <1>10 DEF Swap, Unindexed
  <2>2. \A c \in GuestContractId : guest_contract_index'[c] = guest_contract_index[c]
    BY <2>1
  <2>3. QED
    BY <2>1, <2>2 DEF StoreInv, TypeOK
<1>15. /\ reload' = Idle /\ reloading_bundles' = reloading_bundles \ {B}
       /\ bundle_data' = bundle_data /\ published' = published
       /\ \A a \in BundleId : a # B => image'[a] = image[a]
  BY <1>3 DEF FailReloadSwap, StoreInv, TypeOK
<1>16. \A s \in Slot : tenant[s] # Vacant => /\ tenant[s].bundle_id # B
                                             /\ tenant[s].bundle_id \in BundleId
                                             /\ ~InitRunning(tenant[s].bundle_id)
  <2>1. \A s \in Slot : tenant[s] # Vacant => tenant[s].bundle_id \in BundleId
    BY SlotFacts
  <2>2. QED
    BY <1>5, <1>7, <1>8, <2>1 DEF InitRunning
<1> HIDE DEF B
<1>17. IndexExact'
  BY <1>12, <1>14, <1>15, <1>16 DEF StoreInv, IndexExact, ContractOf, InitRunning, Idle
<1>18. ImagesTracked'
  BY <1>12, <1>15, <1>16 DEF StoreInv, ImagesTracked, InitRunning, Idle
<1>19. ReloadWindow'
  <2>1. reloading_bundles = {a \in BundleId : InitRunning(a)}
    BY DEF StoreInv, ReloadWindow
  <2>2. \A a : InitRunning(a) => a = B
    BY DEF InitRunning, B
  <2>3. \A a : ~InitRunning(a)'
    BY <1>15 DEF InitRunning, Idle
  <2>4. reloading_bundles' = {a \in BundleId : InitRunning(a)'}
    BY <1>15, <2>1, <2>2, <2>3
  <2>5. QED
    BY <1>13, <1>15, <2>4 DEF StoreInv, ReloadWindow
<1>20. SlotsOwned' /\ PublishedCurrent' /\ GenerationTracked' /\ HandleIndexed'
  BY <1>11, <1>12, <1>13, <1>14, <1>15
  DEF StoreInv, SlotsOwned, PublishedCurrent, GenerationTracked, HandleIndexed
<1>21. QED
  BY <1>17, <1>18, <1>19, <1>20 DEF StoreInv

-----------------------------------------------------------------------------
\* StoreInv is inductive for the serialised registry.
LEMMA StoreInvStep == StoreInv /\ [SerialNext]_vars => StoreInv'
<1> SUFFICES ASSUME StoreInv, [SerialNext]_vars PROVE StoreInv'
  OBVIOUS
<1>1. CASE UNCHANGED vars
  BY <1>1 DEF vars, store, StoreInv, TypeOK, IndexExact, SlotsOwned, PublishedCurrent,
              ReloadWindow, GenerationTracked, HandleIndexed, ImagesTracked,
              InitRunning, ContractOf, NewSlots
<1>2. CASE SerialNext
  <2>1. TypeOK'
    BY <1>2, SerialIsNext, TypeStep DEF StoreInv
  <2>2. ASSUME NEW b \in BundleId, NotReloading(b), Load(b) PROVE StoreInv'
    <3>1. PICK S \in SUBSET Free : \E occ \in [S -> Plugin], deps \in DependencySets :
             RegisterPreparedBundle(b, occ, deps, FreshImage(b))
      BY <2>2 DEF Load
    <3>2. FreshImage(b) \in Image
      BY FreshImageType DEF StoreInv
    <3>3. QED
      BY <2>1, <2>2, <3>1, <3>2, LoadKeepsInv
  <2>3. CASE OpenWindow
    <3>1. reload \in Reload
      BY <2>3 DEF OpenWindow, StoreInv, TypeOK, Idle
    <3>2. FreshImage(reload.bundle_id) \in Image
      BY <3>1, FreshImageType DEF StoreInv, Reload
    <3>3. QED
      BY <2>1, <2>3, <3>2, BeginKeepsInv DEF OpenWindow
  <2>4. QED
    BY <1>2, <2>1, <2>2, <2>3, InvalidateKeepsInv, RegisterKeepsInv, SnapshotKeepsInv,
       AbortKeepsInv, SwapKeepsInv, FailKeepsInv, FindKeepsInv
    DEF SerialNext, ReloadStep
<1>3. QED
  BY <1>1, <1>2

\* The empty registry satisfies StoreInv.
LEMMA StoreInvInit == Init => StoreInv
<1> SUFFICES ASSUME Init PROVE StoreInv
  OBVIOUS
<1>1. TypeOK
  BY TypeInit
<1>2. IndexExact /\ SlotsOwned /\ PublishedCurrent /\ ImagesTracked
  BY DEF Init, IndexExact, SlotsOwned, PublishedCurrent, ImagesTracked
<1>3. ReloadWindow /\ GenerationTracked /\ HandleIndexed
  BY DEF Init, ReloadWindow, GenerationTracked, HandleIndexed, InitRunning, Idle
<1>4. QED
  BY <1>1, <1>2, <1>3 DEF StoreInv

\* The registry that is not interrupted by lifecycle calls on the bundle being
\* reloaded always satisfies the inductive invariant.
THEOREM StoreInvariant == SerialSpec => []StoreInv
<1>1. QED
  BY StoreInvInit, StoreInvStep, PTL DEF SerialSpec

\* The index lists exactly the live providers, and plugin_slots exactly the
\* slots each bundle occupies, in every state.
THEOREM RegistryExact == SerialSpec => [](IndexExact /\ SlotsOwned)
<1>1. StoreInv => IndexExact /\ SlotsOwned
  BY DEF StoreInv
<1>2. QED
  BY <1>1, StoreInvariant, PTL

\* A handle resolves to its own bundle and contract until its slot is vacated
\* and to StaleHandle afterwards, for any number of slots, recyclings and any
\* generation width.
LEMMA InvImpliesHandleExact == StoreInv => HandleExact
<1> SUFFICES ASSUME StoreInv, held # NoHandle, ~held.pending
    PROVE  /\ held.age = 0 =>
                /\ Resolve(held) = "ok"
                /\ published.tenant[held.index].bundle_id = held.bundle_id
                /\ ContractIdOf[published.tenant[held.index].plugin] = held.contract_id
           /\ held.age > 0 => Resolve(held) = "StaleHandle"
  BY DEF HandleExact
<1>1. /\ held.index \in Slot /\ held.generation \in Generation /\ held.age \in Generation
      /\ held.contract_id \in GuestContractId
  BY DEF StoreInv, TypeOK, Handle
<1>2. published.tenant = tenant /\ published.generation = generation
  BY DEF StoreInv, PublishedCurrent
<1>3. generation[held.index] = IF held.generation + held.age < GenerationModulus
                               THEN held.generation + held.age
                               ELSE held.generation + held.age - GenerationModulus
  BY <1>1, RegistryAssumption DEF StoreInv, GenerationTracked, Generation
<1>4. CASE held.age = 0
  <2>1. generation[held.index] = held.generation
    BY <1>1, <1>3, <1>4, RegistryAssumption DEF Generation
  <2>2. /\ held.index \in guest_contract_index[held.contract_id]
        /\ tenant[held.index].bundle_id = held.bundle_id
    BY <1>4 DEF StoreInv, HandleIndexed
  <2>3. tenant[held.index] # Vacant /\ ContractOf(held.index) = held.contract_id
    BY <1>1, <2>2 DEF StoreInv, IndexExact
  <2>4. QED
    BY <1>1, <1>2, <1>4, <2>1, <2>2, <2>3 DEF Resolve, ContractOf, Generation
<1>5. CASE held.age > 0
  <2>1. generation[held.index] # held.generation
    BY <1>1, <1>3, <1>5, RegistryAssumption DEF Generation
  <2>2. QED
    BY <1>2, <1>5, <2>1 DEF Resolve
<1>6. QED
  BY <1>1, <1>4, <1>5 DEF Generation

\* resolve_guest_contract is exact in every reachable state.
THEOREM HandlesExact == SerialSpec => []HandleExact
<1>1. QED
  BY InvImpliesHandleExact, StoreInvariant, PTL

\* Readers never see a half-swapped bundle (apply_reload_swap).
THEOREM NoHalfSwap == SerialSpec => []OneImagePerBundle
<1>1. StoreInv => OneImagePerBundle
  <2> SUFFICES ASSUME StoreInv, NEW c \in GuestContractId, NEW d \in GuestContractId,
                      NEW s \in published.index[c], NEW r \in published.index[d],
                      published.tenant[s] # Vacant, published.tenant[r] # Vacant,
                      published.tenant[s].bundle_id = published.tenant[r].bundle_id
      PROVE  published.tenant[s].image = published.tenant[r].image
    BY DEF OneImagePerBundle
  <2>1. published.tenant = tenant /\ published.index = guest_contract_index
    BY DEF StoreInv, PublishedCurrent
  <2>2. /\ s \in Slot /\ (InitRunning(tenant[s].bundle_id) => s \in reload.old_slots)
        /\ r \in Slot /\ (InitRunning(tenant[r].bundle_id) => r \in reload.old_slots)
    BY <2>1 DEF StoreInv, IndexExact
  <2>3. /\ tenant[s].image = image[tenant[s].bundle_id]
        /\ tenant[r].image = image[tenant[r].bundle_id]
    BY <2>1, <2>2 DEF StoreInv, ImagesTracked
  <2>4. QED
    BY <2>1, <2>3
<1>2. QED
  BY <1>1, StoreInvariant, PTL

\* A failed reload leaves every published provider untouched (abort_reload).
THEOREM AbortIsInvisible == SerialSpec => AbortKeepsProviders
<1>1. ASSUME StoreInv, StoreInv', AbortReload,
             NEW c \in GuestContractId, NEW s \in published.index[c]
      PROVE  /\ s \in published'.index[c]
             /\ published'.tenant[s] = published.tenant[s]
             /\ published'.generation[s] = published.generation[s]
  <2>1. /\ published.tenant = tenant /\ published.index = guest_contract_index
        /\ published.generation = generation
    BY <1>1 DEF StoreInv, PublishedCurrent
  <2>2. /\ published'.tenant = tenant' /\ published'.index = guest_contract_index'
        /\ published'.generation = generation'
    BY <1>1 DEF StoreInv, PublishedCurrent
  <2>3. guest_contract_index[c] \cap NewSlots = {}
    BY <1>1, WindowFacts DEF AbortReload
  <2>4. s \in Slot /\ s \notin NewSlots /\ s \in guest_contract_index[c]
    BY <1>1, <2>1, <2>3, SlotFacts
  <2>5. s \in guest_contract_index'[c] /\ tenant'[s] = tenant[s] /\ generation' = generation
    BY <1>1, <2>4 DEF AbortReload, Unindexed
  <2>6. QED
    BY <2>1, <2>2, <2>5
<1>2. StoreInv /\ StoreInv' /\ [SerialNext]_vars =>
        [AbortReload =>
           \A c \in GuestContractId : \A s \in published.index[c] :
             /\ s \in published'.index[c]
             /\ published'.tenant[s] = published.tenant[s]
             /\ published'.generation[s] = published.generation[s]]_vars
  BY <1>1
<1>3. QED
  BY <1>2, StoreInvariant, PTL DEF SerialSpec, AbortKeepsProviders

\* A successful reload serves every contract of both versions from the new
\* image in an old slot with its old generation (apply_reload_swap).
THEOREM ReloadKeeps == SerialSpec => ReloadKeepsContracts
<1>1. ASSUME StoreInv, StoreInv', SwapSucceeds,
             NEW c \in reload.old_contracts \cap reload.new_contracts
      PROVE  \E s \in reload.old_slots \cap published'.index[c] :
               /\ published'.generation[s] = published.generation[s]
               /\ published'.tenant[s] # Vacant
               /\ published'.tenant[s].bundle_id = reload.bundle_id
               /\ published'.tenant[s].image = reload.image
  <2>1. PICK S \in SUBSET reload.old_slots : \E m \in [S -> NewSlots], deps \in DependencySets :
           ApplyReloadSwap(m, deps)
    BY <1>1 DEF SwapSucceeds
  <2>2. PICK m \in [S -> NewSlots], deps \in DependencySets : ApplyReloadSwap(m, deps)
    BY <2>1
  <2> DEFINE O == reload.old_slots
             G == Gone(O, m)
  <2>3. /\ reload.phase = "open" /\ SwapMatching(O, m)
        /\ Swap(O, m, {s \in NewSlots \ Range(m) : tenant[s] # Vacant})
    BY <2>2 DEF ApplyReloadSwap
  <2>4. /\ reload # Idle /\ reload.bundle_id \in BundleId /\ InitRunning(reload.bundle_id)
        /\ O \subseteq Slot /\ NewSlots \subseteq Slot /\ NewSlots \cap O = {}
        /\ \A s \in Slot : s \in NewSlots \cup O <=>
             tenant[s] # Vacant /\ tenant[s].bundle_id = reload.bundle_id
        /\ \A s \in O : s \in guest_contract_index[ContractOf(s)]
    BY <1>1, <2>3, WindowFacts
  <2>5. /\ Range(m) \subseteq NewSlots
        /\ BumpGenerations(G)
        /\ \A s \in Slot : s \in G <=> s \in Range(m) \/ (s \in O /\ s \notin S)
        /\ \A s \in S : /\ m[s] \in NewSlots /\ tenant'[s] = tenant[m[s]]
                        /\ ContractOf(m[s]) = ContractOf(s)
        /\ \A d \in GuestContractId, s \in Slot :
             s \in guest_contract_index'[d] <=>
               \/ /\ s \in guest_contract_index[d]
                  /\ ~(s \in G /\ tenant[s] # Vacant /\ ContractOf(s) = d)
               \/ s \in NewSlots /\ s \notin Range(m) /\ ContractOf(s) = d
    BY <1>1, <2>3, SwapFacts
  <2>6. c \in GuestContractId
    BY <1>1, <2>3, WindowFacts DEF Reload
  <2>7. PICK s0 \in O : ContractOf(s0) = c
    BY <1>1, <2>4 DEF StoreInv, ReloadWindow
  <2>8. PICK r0 \in NewSlots : ContractOf(r0) = c
    BY <1>1, <2>4 DEF StoreInv, ReloadWindow
  <2>9. \E s \in S : ContractOf(s) = c
    <3>1. CASE s0 \in S
      BY <2>7, <3>1
    <3>2. CASE s0 \notin S
      <4>1. DOMAIN m = S /\ Range(m) = {m[s] : s \in S}
        BY DEF Range
      <4>2. tenant[r0] # Vacant
        BY <2>4
      <4>3. r0 \in Range(m)
        BY <2>3, <2>7, <2>8, <3>2, <4>1, <4>2 DEF SwapMatching
      <4>4. PICK s1 \in S : m[s1] = r0
        BY <4>1, <4>3
      <4>5. QED
        BY <2>5, <2>8, <4>4
    <3>3. QED
      BY <3>1, <3>2
  <2>10. PICK s \in S : ContractOf(s) = c
    BY <2>9
  <2>11. s \in O /\ s \in Slot /\ s \notin G
    BY <2>4, <2>5
  <2>12. /\ published'.tenant = tenant' /\ published'.index = guest_contract_index'
         /\ published'.generation = generation' /\ published.generation = generation
    BY <1>1 DEF StoreInv, PublishedCurrent
  <2>13. s \in guest_contract_index'[c]
    BY <2>4, <2>5, <2>6, <2>10, <2>11
  <2>14. generation'[s] = generation[s]
    BY <2>5, <2>11 DEF BumpGenerations
  <2>15. /\ m[s] \in Slot /\ m[s] \notin O /\ tenant[m[s]] # Vacant
         /\ tenant[m[s]].bundle_id = reload.bundle_id /\ tenant'[s] = tenant[m[s]]
    BY <2>4, <2>5
  <2>16. tenant[m[s]].image = reload.image
    BY <1>1, <2>4, <2>15 DEF StoreInv, ImagesTracked
  <2>17. QED
    BY <2>11, <2>12, <2>13, <2>14, <2>15, <2>16
<1>2. StoreInv /\ StoreInv' /\ [SerialNext]_vars =>
        [SwapSucceeds =>
           \A c \in reload.old_contracts \cap reload.new_contracts :
             \E s \in reload.old_slots \cap published'.index[c] :
               /\ published'.generation[s] = published.generation[s]
               /\ published'.tenant[s] # Vacant
               /\ published'.tenant[s].bundle_id = reload.bundle_id
               /\ published'.tenant[s].image = reload.image]_vars
  BY <1>1
<1>3. QED
  BY <1>2, StoreInvariant, PTL DEF SerialSpec, ReloadKeepsContracts

-----------------------------------------------------------------------------
(***************************************************************************)
(* The serialised registry implements the directory: each of its steps is  *)
(* a step of Directory, or leaves offers and ticket as they are.           *)
(***************************************************************************)
\* A slot that readers are shown: occupied and indexed.
Shown(s) == tenant[s] # Vacant /\ s \in guest_contract_index[ContractOf(s)]

ShownOffer(s) == [bundle |-> tenant[s].bundle_id, contract |-> ContractOf(s),
                  version |-> tenant[s].image]

-----------------------------------------------------------------------------
\* A shown slot is an offer; a free or pending one is an empty seat.
LEMMA OfferFacts ==
  StoreInv => \A s \in Slot :
    /\ Shown(s) => OfferAt(s) = ShownOffer(s) /\ ShownOffer(s) \in D!Offer /\ OfferAt(s) # Vacant
    /\ ~Shown(s) => OfferAt(s) = Vacant
<1> SUFFICES ASSUME StoreInv, NEW s \in Slot
             PROVE  /\ Shown(s) => OfferAt(s) = ShownOffer(s) /\ ShownOffer(s) \in D!Offer /\ OfferAt(s) # Vacant
                    /\ ~Shown(s) => OfferAt(s) = Vacant
  OBVIOUS
<1>1. published.tenant = tenant /\ published.index = guest_contract_index
  BY DEF StoreInv, PublishedCurrent
<1>2. tenant[s] # Vacant => tenant[s] \in Tenant /\ ContractOf(s) \in GuestContractId
  BY SlotFacts
<1>3. \A c \in GuestContractId : s \in guest_contract_index[c] => tenant[s] # Vacant /\ c = ContractOf(s)
  BY DEF StoreInv, IndexExact
<1>4. Shown(s) <=> tenant[s] # Vacant /\ Indexed(s)
  BY <1>1, <1>2, <1>3 DEF Shown, Indexed
<1>5. tenant[s] # Vacant => ShownOffer(s) \in D!Offer
  BY <1>2 DEF ShownOffer, D!Offer, Tenant
<1>6. Shown(s) => OfferAt(s) = ShownOffer(s)
  BY <1>1, <1>4 DEF OfferAt, ShownOffer, ContractOf
<1>7. ~Shown(s) => OfferAt(s) = Vacant
  BY <1>1, <1>4 DEF OfferAt
<1>8. QED
  BY <1>4, <1>5, <1>6, <1>7, RefinementAssumption

\* The bundle of a shown slot occupies it, and shows it even while it reloads.
LEMMA ShownFacts ==
  StoreInv => \A s \in Slot :
    Shown(s) <=> tenant[s] # Vacant /\ (InitRunning(tenant[s].bundle_id) => s \in reload.old_slots)
<1> SUFFICES ASSUME StoreInv, NEW s \in Slot
             PROVE  Shown(s) <=> tenant[s] # Vacant /\ (InitRunning(tenant[s].bundle_id) => s \in reload.old_slots)
  OBVIOUS
<1>1. tenant[s] # Vacant => ContractOf(s) \in GuestContractId
  BY SlotFacts
<1>2. QED
  BY <1>1 DEF Shown, StoreInv, IndexExact

\* A ticket is the held handle, and good until the handle ages.
LEMMA TicketFacts ==
  StoreInv =>
    /\ held = NoHandle \/ held.pending => HeldTicket = NoHandle
    /\ held # NoHandle /\ ~held.pending =>
         /\ HeldTicket = [seat |-> held.index, bundle |-> held.bundle_id,
                          contract |-> held.contract_id, good |-> (held.age = 0)]
         /\ HeldTicket # NoHandle /\ held.index \in Slot
<1> SUFFICES ASSUME StoreInv
             PROVE  /\ held = NoHandle \/ held.pending => HeldTicket = NoHandle
                    /\ held # NoHandle /\ ~held.pending =>
                         /\ HeldTicket = [seat |-> held.index, bundle |-> held.bundle_id,
                                          contract |-> held.contract_id, good |-> (held.age = 0)]
                         /\ HeldTicket # NoHandle /\ held.index \in Slot
  OBVIOUS
<1>1. held = NoHandle \/ held.pending => HeldTicket = NoHandle
  BY DEF HeldTicket
<1>2. ASSUME held # NoHandle, ~held.pending
      PROVE  /\ HeldTicket = [seat |-> held.index, bundle |-> held.bundle_id,
                              contract |-> held.contract_id, good |-> (held.age = 0)]
             /\ HeldTicket # NoHandle /\ held.index \in Slot
  <2>1. held \in Handle
    BY <1>2 DEF StoreInv, TypeOK
  <2>2. held.age \in Nat /\ held.index \in Slot /\ held.bundle_id \in BundleId
        /\ held.contract_id \in GuestContractId
    BY <2>1 DEF Handle, Generation
  <2>3. (Resolve(held) = "ok") <=> (held.age = 0)
    BY <1>2, <2>2, InvImpliesHandleExact DEF HandleExact
  <2>4. HeldTicket = [seat |-> held.index, bundle |-> held.bundle_id,
                      contract |-> held.contract_id, good |-> Resolve(held) = "ok"]
    BY <1>2 DEF HeldTicket
  <2>5. HeldTicket = [seat |-> held.index, bundle |-> held.bundle_id,
                      contract |-> held.contract_id, good |-> (held.age = 0)]
    BY <2>3, <2>4
  <2>6. HeldTicket \in D!Ticket
    BY <2>2, <2>5 DEF D!Ticket
  <2>7. QED
    BY <2>2, <2>5, <2>6, RefinementAssumption
<1>3. QED
  BY <1>1, <1>2

\* The same of the next state.
LEMMA NextFacts ==
  ASSUME StoreInv'
  PROVE  /\ \A s \in Slot :
              /\ Shown(s)' => OfferAt(s)' = ShownOffer(s)' /\ ShownOffer(s)' \in D!Offer /\ OfferAt(s)' # Vacant
              /\ ~Shown(s)' => OfferAt(s)' = Vacant
              /\ Shown(s)' <=> /\ tenant'[s] # Vacant
                               /\ InitRunning(tenant[s].bundle_id)' => s \in reload'.old_slots
         /\ held' = NoHandle \/ held'.pending => HeldTicket' = NoHandle
         /\ held' # NoHandle /\ ~held'.pending =>
              /\ HeldTicket' = [seat |-> held'.index, bundle |-> held'.bundle_id,
                                contract |-> held'.contract_id, good |-> (held'.age = 0)]
              /\ HeldTicket' # NoHandle /\ held'.index \in Slot
<1>1. (\A s \in Slot :
         /\ Shown(s) => OfferAt(s) = ShownOffer(s) /\ ShownOffer(s) \in D!Offer /\ OfferAt(s) # Vacant
         /\ ~Shown(s) => OfferAt(s) = Vacant)'
  BY OfferFacts, PTL
<1>2. (\A s \in Slot :
         Shown(s) <=> tenant[s] # Vacant /\ (InitRunning(tenant[s].bundle_id) => s \in reload.old_slots))'
  BY ShownFacts, PTL
<1>3. (/\ held = NoHandle \/ held.pending => HeldTicket = NoHandle
       /\ held # NoHandle /\ ~held.pending =>
            /\ HeldTicket = [seat |-> held.index, bundle |-> held.bundle_id,
                             contract |-> held.contract_id, good |-> (held.age = 0)]
            /\ HeldTicket # NoHandle /\ held.index \in Slot)'
  BY TicketFacts, PTL
<1>4. QED
  BY <1>1, <1>2, <1>3

\* A handle that stays held is the same ticket.
LEMMA TicketKept ==
  ASSUME StoreInv, StoreInv', UNCHANGED held
  PROVE  UNCHANGED HeldTicket
  BY TicketFacts, NextFacts

\* The seats of a bundle are the slots it is shown in.
LEMMA SeatsAreShown ==
  ASSUME StoreInv, NEW b \in BundleId
  PROVE  D!SeatsOf(b) = {s \in Slot : Shown(s) /\ tenant[s].bundle_id = b}
<1>1. \A s \in Slot : (OfferAt(s) # Vacant /\ OfferAt(s).bundle = b) <=> (Shown(s) /\ tenant[s].bundle_id = b)
  <2> TAKE s \in Slot
  <2>1. CASE Shown(s)
    <3>1. OfferAt(s) # Vacant /\ OfferAt(s) = ShownOffer(s)
      BY <2>1, OfferFacts
    <3>2. ShownOffer(s).bundle = tenant[s].bundle_id
      BY DEF ShownOffer
    <3>3. QED
      BY <2>1, <3>1, <3>2
  <2>2. CASE ~Shown(s)
    BY <2>2, OfferFacts
  <2>3. QED
    BY <2>1, <2>2
<1>2. D!SeatsOf(b) = {s \in Slot : OfferAt(s) # Vacant /\ OfferAt(s).bundle = b}
  BY DEF D!SeatsOf
<1>3. QED
  BY <1>1, <1>2

\* A step that shows the same tenants in the same slots changes no offer.
LEMMA OffersKept ==
  ASSUME StoreInv, StoreInv',
         \A s \in Slot : /\ Shown(s)' <=> Shown(s)
                         /\ Shown(s) => tenant'[s] = tenant[s]
  PROVE  UNCHANGED [s \in Slot |-> OfferAt(s)]
<1>1. \A s \in Slot : OfferAt(s)' = OfferAt(s)
  BY OfferFacts, NextFacts DEF ShownOffer, ContractOf
<1>2. QED
  BY <1>1

-----------------------------------------------------------------------------
\* A ticket whose seat is given up.
LEMMA BadTicket ==
  ASSUME NEW t \in D!Ticket
  PROVE  [t EXCEPT !.good = FALSE]
           = [seat |-> t.seat, bundle |-> t.bundle, contract |-> t.contract, good |-> FALSE]
<1> DEFINE no == FALSE
<1>1. no \in BOOLEAN
  OBVIOUS
<1> HIDE DEF no
<1>2. [t EXCEPT !.good = no]
        = [seat |-> t.seat, bundle |-> t.bundle, contract |-> t.contract, good |-> no]
  BY <1>1 DEF D!Ticket
<1>3. QED
  BY <1>2, Zenon DEF no

\* The slots of S are vacated: a good ticket for one of them is revoked, and
\* the ticket of a recycled generation forgotten.
LEMMA BumpRevokes ==
  ASSUME StoreInv, StoreInv', NEW S \in SUBSET Slot, NEW G, BumpGenerations(G), S \subseteq G,
         \A s \in G \ S : ~Shown(s)
  PROVE  D!Revoke(S)
<1>1. CASE held = NoHandle
  <2>1. held' = held
    BY <1>1 DEF BumpGenerations
  <2>2. HeldTicket' = HeldTicket /\ HeldTicket = NoHandle
    BY <1>1, <2>1, TicketKept, TicketFacts
  <2>3. QED
    BY <2>2 DEF D!Revoke
<1>2. CASE held # NoHandle
  <2>1. held \in Handle /\ held.age \in Nat /\ held.index \in Slot
    BY <1>2 DEF StoreInv, TypeOK, Handle, Generation
  <2>2. CASE held.pending
    <3>1. HeldTicket = NoHandle
      BY <2>2, TicketFacts
    <3>2. held' = NoHandle \/ held'.pending
      BY <2>2, BumpTracks DEF StoreInv
    <3>3. HeldTicket' = NoHandle
      BY <3>2, NextFacts
    <3>4. QED
      BY <3>1, <3>3 DEF D!Revoke
  <2>3. CASE ~held.pending /\ held.index \notin G
    <3>1. HeldTicket' = HeldTicket
      BY <2>3, TicketKept DEF BumpGenerations
    <3>2. HeldTicket.seat = held.index
      BY <1>2, <2>3, TicketFacts
    <3>3. QED
      BY <2>3, <3>1, <3>2 DEF D!Revoke
  <2>4. CASE ~held.pending /\ held.index \in G
    <3>1. HeldTicket = [seat |-> held.index, bundle |-> held.bundle_id,
                        contract |-> held.contract_id, good |-> (held.age = 0)]
          /\ HeldTicket # NoHandle
      BY <1>2, <2>4, TicketFacts
    <3>2. HeldTicket.good => HeldTicket.seat \in S
      <4>1. SUFFICES ASSUME held.age = 0
                     PROVE  held.index \in S
        BY <3>1
      <4>2. Shown(held.index)
        BY <1>2, <2>1, <2>4, <4>1 DEF StoreInv, HandleIndexed, IndexExact, Shown, Handle
      <4>3. QED
        BY <2>4, <4>2
    <3>3. HeldTicket' \in {NoHandle, [HeldTicket EXCEPT !.good = FALSE]}
      <4>1. CASE held' = NoHandle
        BY <4>1, NextFacts
      <4>2. CASE held' # NoHandle
        <5>1. /\ held'.index = held.index /\ held'.pending = held.pending
              /\ held'.bundle_id = held.bundle_id /\ held'.contract_id = held.contract_id
              /\ held'.age # 0
          BY <2>4, <4>2, BumpTracks DEF StoreInv
        <5>2. HeldTicket' = [seat |-> held.index, bundle |-> held.bundle_id,
                             contract |-> held.contract_id, good |-> FALSE]
          BY <2>4, <4>2, <5>1, NextFacts
        <5>3. HeldTicket \in D!Ticket
          BY <2>1, <3>1 DEF D!Ticket, Handle
        <5>4. [HeldTicket EXCEPT !.good = FALSE]
                = [seat |-> HeldTicket.seat, bundle |-> HeldTicket.bundle,
                   contract |-> HeldTicket.contract, good |-> FALSE]
          BY <5>3, BadTicket
        <5>5. HeldTicket.seat = held.index /\ HeldTicket.bundle = held.bundle_id
              /\ HeldTicket.contract = held.contract_id
          BY <3>1
        <5>6. QED
          BY <5>2, <5>4, <5>5, Zenon
      <4>3. QED
        BY <4>1, <4>2
    <3>4. QED
      BY <3>1, <3>2, <3>3 DEF D!Revoke
  <2>5. QED
    BY <2>2, <2>3, <2>4
<1>3. QED
  BY <1>1, <1>2

-----------------------------------------------------------------------------
\* A load makes all offers of a bundle that had none (register_prepared_bundle).
LEMMA LoadMakesOffers ==
  ASSUME StoreInv, StoreInv', NEW b \in BundleId, NotReloading(b), Load(b)
  PROVE  D!MakeOffers(b)
<1> USE RegistryAssumption
<1>1. PICK S \in SUBSET Free : \E occ \in [S -> Plugin], deps \in DependencySets :
         RegisterPreparedBundle(b, occ, deps, FreshImage(b))
  BY DEF Load
<1>2. PICK occ \in [S -> Plugin], deps \in DependencySets :
         RegisterPreparedBundle(b, occ, deps, FreshImage(b))
  BY <1>1
<1> DEFINE v == FreshImage(b)
<1>3. S \subseteq Slot /\ \A s \in S : tenant[s] = Vacant
  BY DEF Free
<1>4. /\ \A s \in Slot : tenant'[s] = IF s \in S THEN [bundle_id |-> b, plugin |-> occ[s], image |-> v] ELSE tenant[s]
      /\ UNCHANGED <<reload, held>>
  BY <1>2 DEF RegisterPreparedBundle, Insert
<1>5. \A s \in Slot : tenant[s] # Vacant => tenant[s].bundle_id # b
  BY <1>2 DEF RegisterPreparedBundle, StoreInv, SlotsOwned, ReloadWindow
<1>6. D!SeatsOf(b) = {}
  BY <1>5, SeatsAreShown DEF Shown
<1>7. v \in Image
  BY FreshImageType DEF StoreInv
<1>8. ~InitRunning(b)' /\ \A a : InitRunning(a)' <=> InitRunning(a)
  BY <1>4 DEF InitRunning, NotReloading, Idle
<1>9. \A s \in Slot : \/ OfferAt(s)' = OfferAt(s)
                      \/ OfferAt(s) = Vacant /\ OfferAt(s)'.bundle = b /\ OfferAt(s)'.version = v
  <2> TAKE s \in Slot
  <2>1. CASE s \in S
    <3>1. tenant[s] = Vacant /\ tenant'[s] = [bundle_id |-> b, plugin |-> occ[s], image |-> v]
      BY <1>3, <1>4, <2>1
    <3>2. tenant'[s] # Vacant
      BY <1>7, <2>1, <3>1 DEF Tenant
    <3>3. Shown(s)'
      BY <1>8, <3>1, <3>2, NextFacts
    <3>4. OfferAt(s)' = ShownOffer(s)' /\ OfferAt(s) = Vacant
      BY <3>1, <3>3, NextFacts, OfferFacts DEF Shown
    <3>5. QED
      BY <3>1, <3>4 DEF ShownOffer
  <2>2. CASE s \notin S
    <3>1. tenant'[s] = tenant[s]
      BY <1>4, <2>2
    <3>2. Shown(s)' <=> Shown(s)
      BY <1>4, <1>8, <3>1, NextFacts, ShownFacts
    <3>3. OfferAt(s)' = OfferAt(s)
      BY <3>1, <3>2, NextFacts, OfferFacts DEF ShownOffer, ContractOf
    <3>4. QED
      BY <3>3
  <2>3. QED
    BY <2>1, <2>2
<1>10. \A s \in Slot : OfferAt(s)' \in D!Offer \cup {Vacant}
  BY NextFacts
<1>11. D!Change(b, {}, v)
  BY <1>6, <1>9, <1>10 DEF D!Change
<1>12. UNCHANGED HeldTicket
  BY <1>4, TicketKept
<1>13. QED
  BY <1>6, <1>7, <1>11, <1>12 DEF D!MakeOffers

\* An unload withdraws all offers of the bundle (invalidate_bundle).
LEMMA InvalidateWithdraws ==
  ASSUME StoreInv, StoreInv', NEW b \in BundleId, NotReloading(b), InvalidateBundle(b)
  PROVE  D!WithdrawOffers(b)
<1> DEFINE S == plugin_slots[b]
<1>1. /\ \A s \in Slot : tenant'[s] = IF s \in S THEN Vacant ELSE tenant[s]
      /\ BumpGenerations(S) /\ reload' = reload
  BY DEF InvalidateBundle, VacateSlots
<1>2. S = {s \in Slot : tenant[s] # Vacant /\ tenant[s].bundle_id = b}
  BY DEF StoreInv, SlotsOwned
<1>3. ~InitRunning(b) /\ \A a : InitRunning(a)' <=> InitRunning(a)
  BY <1>1 DEF InitRunning, NotReloading, Idle
<1>4. D!SeatsOf(b) = S
  BY <1>2, <1>3, SeatsAreShown, ShownFacts
<1>5. \A s \in Slot : OfferAt(s)' = IF s \in S THEN Vacant ELSE OfferAt(s)
  <2> TAKE s \in Slot
  <2>1. CASE s \in S
    BY <1>1, <2>1, NextFacts
  <2>2. CASE s \notin S
    <3>1. tenant'[s] = tenant[s]
      BY <1>1, <2>2
    <3>2. Shown(s)' <=> Shown(s)
      BY <1>1, <1>3, <3>1, NextFacts, ShownFacts
    <3>3. QED
      BY <2>2, <3>1, <3>2, NextFacts, OfferFacts DEF ShownOffer, ContractOf
  <2>3. QED
    BY <2>1, <2>2
<1>6. S \in SUBSET Slot
  BY <1>2
<1>7. D!Revoke(S)
  BY <1>1, <1>6, BumpRevokes
<1> HIDE DEF S
<1>8. [s \in Slot |-> OfferAt(s)]' = [s \in Slot |-> IF s \in S THEN Vacant ELSE [r \in Slot |-> OfferAt(r)][s]]
  BY <1>5
<1>9. QED
  BY <1>4, <1>7, <1>8 DEF D!WithdrawOffers

\* A reload replaces the offers of the bundle in one step (apply_reload_swap).
LEMMA SwapReplaces ==
  ASSUME StoreInv, StoreInv', SwapSucceeds
  PROVE  D!ReplaceOffers(reload.bundle_id)
<1>1. PICK S \in SUBSET reload.old_slots : \E m \in [S -> NewSlots], deps \in DependencySets :
         ApplyReloadSwap(m, deps)
  BY DEF SwapSucceeds
<1>2. PICK m \in [S -> NewSlots], deps \in DependencySets : ApplyReloadSwap(m, deps)
  BY <1>1
<1> DEFINE O == reload.old_slots
           B == reload.bundle_id
           G == Gone(O, m)
           v == reload.image
<1>3. /\ reload.phase = "open" /\ SwapMatching(O, m) /\ reload' = Idle
      /\ Swap(O, m, {s \in NewSlots \ Range(m) : tenant[s] # Vacant})
  BY <1>2 DEF ApplyReloadSwap
<1>4. /\ B \in BundleId /\ InitRunning(B) /\ reload \in Reload
      /\ O \subseteq Slot /\ NewSlots \subseteq Slot /\ NewSlots \cap O = {}
      /\ \A s \in Slot : s \in NewSlots \cup O <=> tenant[s] # Vacant /\ tenant[s].bundle_id = B
  BY <1>3, WindowFacts
<1>5. /\ Range(m) \subseteq NewSlots
      /\ BumpGenerations(G)
      /\ \A s \in Slot : s \in G <=> s \in Range(m) \/ (s \in O /\ s \notin S)
      /\ \A s \in S : /\ m[s] \in NewSlots /\ tenant'[s] = tenant[m[s]]
                      /\ ContractOf(m[s]) = ContractOf(s)
      /\ \A s \in Slot : s \in G => tenant'[s] = Vacant
      /\ \A s \in Slot : s \notin S /\ s \notin G => tenant'[s] = tenant[s]
  BY <1>3, SwapFacts
<1>6. \A a : ~InitRunning(a)'
  BY <1>3 DEF InitRunning, Idle
<1>7. \A s \in NewSlots : tenant[s].image = v
  BY <1>4 DEF StoreInv, ImagesTracked
<1>8. \A s \in Slot : Shown(s)' <=> tenant'[s] # Vacant
  BY <1>6, NextFacts
<1>9. \A s \in Slot : Shown(s) <=> tenant[s] # Vacant /\ s \notin NewSlots
  <2>1. \A s \in Slot : tenant[s] # Vacant => (InitRunning(tenant[s].bundle_id) <=> tenant[s].bundle_id = B)
    BY <1>3 DEF InitRunning
  <2>2. QED
    BY <1>4, <2>1, ShownFacts
<1>10. D!SeatsOf(B) = O
  BY <1>4, <1>9, SeatsAreShown
<1>11. v \in Image
  BY <1>4 DEF Reload
<1> DEFINE X == O \ S
<1>12. \A s \in Slot \ O : \/ OfferAt(s)' = OfferAt(s)
                           \/ OfferAt(s) = Vacant /\ OfferAt(s)'.bundle = B /\ OfferAt(s)'.version = v
  <2> TAKE s \in Slot \ O
  <2>1. CASE s \in NewSlots \ Range(m)
    <3>1. tenant'[s] = tenant[s] /\ tenant[s] # Vacant /\ tenant[s].bundle_id = B
      BY <1>4, <1>5, <2>1
    <3>2. OfferAt(s) = Vacant /\ OfferAt(s)' = ShownOffer(s)'
      BY <1>8, <1>9, <2>1, <3>1, OfferFacts, NextFacts
    <3>3. QED
      BY <1>7, <2>1, <3>1, <3>2 DEF ShownOffer
  <2>2. CASE s \in Range(m)
    <3>1. tenant'[s] = Vacant /\ s \in NewSlots
      BY <1>5, <2>2
    <3>2. QED
      BY <1>8, <1>9, <3>1, OfferFacts, NextFacts
  <2>3. CASE s \notin NewSlots
    <3>1. tenant'[s] = tenant[s]
      BY <1>5, <2>3
    <3>2. Shown(s)' <=> Shown(s)
      BY <1>8, <1>9, <2>3, <3>1
    <3>3. OfferAt(s)' = OfferAt(s)
      BY <3>1, <3>2, NextFacts, OfferFacts DEF ShownOffer, ContractOf
    <3>4. QED
      BY <3>3
  <2>4. QED
    BY <2>1, <2>2, <2>3
<1>13. \A s \in X : OfferAt(s)' = Vacant
  BY <1>4, <1>5, <1>8, NextFacts
<1>14. \A s \in O \ X : OfferAt(s)' = [OfferAt(s) EXCEPT !.version = v]
  <2> TAKE s \in O \ X
  <2>1. s \in S /\ s \in Slot /\ m[s] \in NewSlots
    BY <1>4, <1>5
  <2>2. /\ tenant'[s] = tenant[m[s]] /\ tenant[m[s]] # Vacant /\ tenant[m[s]].bundle_id = B
        /\ tenant[s] # Vacant /\ tenant[s].bundle_id = B /\ tenant[m[s]].image = v
        /\ ContractOf(m[s]) = ContractOf(s)
    BY <1>4, <1>5, <1>7, <2>1
  <2>3. OfferAt(s)' = ShownOffer(s)' /\ OfferAt(s) = ShownOffer(s) /\ OfferAt(s) \in D!Offer
    BY <1>4, <1>8, <1>9, <2>1, <2>2, NextFacts, OfferFacts
  <2>4. ShownOffer(s)' = [bundle |-> B, contract |-> ContractOf(s), version |-> v]
    BY <2>2 DEF ShownOffer, ContractOf
  <2>5. OfferAt(s).bundle = B /\ OfferAt(s).contract = ContractOf(s)
    BY <2>2, <2>3 DEF ShownOffer
  <2>6. QED
    BY <1>11, <2>3, <2>4, <2>5 DEF D!Offer
<1>15. \A s \in Slot : OfferAt(s)' \in D!Offer \cup {Vacant}
  BY NextFacts
<1>16. D!Change(B, X, v)
  <2> HIDE DEF X, v, B, O
  <2>1. O \subseteq Slot /\ X \subseteq O
    BY <1>4 DEF X
  <2>2. QED
    BY <1>10, <1>12, <1>13, <1>14, <1>15, <2>1 DEF D!Change
<1>17. \A s \in X, r \in Slot : OfferAt(r) = Vacant /\ OfferAt(r)' # Vacant
                                  => OfferAt(r)'.contract # OfferAt(s).contract
  <2> SUFFICES ASSUME NEW s \in X, NEW r \in Slot, OfferAt(r) = Vacant, OfferAt(r)' # Vacant
               PROVE  OfferAt(r)'.contract # OfferAt(s).contract
    OBVIOUS
  <2>1. ~Shown(r) /\ Shown(r)'
    BY OfferFacts, NextFacts
  <2>2. tenant'[r] # Vacant /\ r \notin G
    BY <1>5, <1>8, <2>1
  <2>3. r \notin S
    BY <1>4, <1>9, <2>1
  <2>4. tenant'[r] = tenant[r]
    BY <1>5, <2>2, <2>3
  <2>5. r \in NewSlots /\ r \notin Range(m) /\ tenant[r] # Vacant
    BY <1>5, <1>9, <2>1, <2>2, <2>4
  <2>6. DOMAIN m = S
    OBVIOUS
  <2>7. ContractOf(r) # ContractOf(s)
    BY <1>3, <2>5, <2>6 DEF SwapMatching
  <2>8. OfferAt(r)' = ShownOffer(r)' /\ OfferAt(s) = ShownOffer(s)
    BY <1>4, <1>9, <2>1, OfferFacts, NextFacts
  <2>9. QED
    BY <2>4, <2>7, <2>8 DEF ShownOffer, ContractOf
<1>18. D!Revoke(X)
  <2>1. X \in SUBSET Slot /\ X \subseteq G
    BY <1>4, <1>5
  <2>2. \A s \in G \ X : ~Shown(s)
    <3>1. \A s \in G : s \in Slot
      BY <1>4, <1>5 DEF Gone
    <3>2. QED
      BY <1>5, <1>9, <3>1
  <2>3. QED
    BY <1>5, <2>1, <2>2, BumpRevokes
<1>19. X \in SUBSET D!SeatsOf(B)
  BY <1>10
<1> HIDE DEF X, v, B, O
<1>20. X \subseteq Slot
  BY <1>4 DEF X, O
<1>21. QED
  BY <1>11, <1>16, <1>17, <1>18, <1>19, <1>20 DEF D!ReplaceOffers, B

-----------------------------------------------------------------------------
\* What a reader cannot see: a registration of the open reload, which is
\* pending, and the steps that open and abort the window.
LEMMA ReloadIsHidden ==
  ASSUME StoreInv, StoreInv',
         \/ \E b \in BundleId : InitRunning(b) /\ Register(b)
         \/ \E b \in BundleId : SnapshotSlots(b)
         \/ OpenWindow
         \/ AbortReload
  PROVE  UNCHANGED D!vars
<1>1. ASSUME NEW b \in BundleId, InitRunning(b), Register(b)
      PROVE  UNCHANGED D!vars
  <2>1. PICK p \in Plugin, s \in Free : RegisterGuestContract(b, p, s)
    BY <1>1 DEF Register
  <2>2. /\ IsPending(b) /\ reload \in Reload /\ reload.bundle_id = b /\ reload.phase = "open"
        /\ s \in Slot /\ tenant[s] = Vacant /\ s \notin reload.old_slots
    <3>1. /\ IsPending(b) /\ reload \in Reload /\ reload.bundle_id = b /\ reload.phase = "open"
      BY <1>1 DEF StoreInv, ReloadWindow, IsPending, InitRunning, TypeOK, Idle
    <3>2. \A r \in reload.old_slots : tenant[r] # Vacant
      BY <3>1, WindowFacts
    <3>3. QED
      BY <3>1, <3>2 DEF Free
  <2>3. /\ \A r \in Slot : r # s => tenant'[r] = tenant[r]
        /\ tenant'[s].bundle_id = b
    BY <2>1, <2>2 DEF RegisterGuestContract, Insert
  <2>4. /\ reload'.old_slots = reload.old_slots /\ reload'.phase = "open" /\ reload'.bundle_id = b
    BY <1>1, <2>1, <2>2 DEF RegisterGuestContract, Reload
  <2>5. \A a : InitRunning(a)' <=> InitRunning(a)
    BY <2>2, <2>4 DEF InitRunning
  <2>6. ~Shown(s)' /\ ~Shown(s)
    BY <1>1, <2>2, <2>3, <2>4, <2>5, NextFacts DEF Shown
  <2>7. \A r \in Slot : /\ Shown(r)' <=> Shown(r)
                        /\ Shown(r) => tenant'[r] = tenant[r]
    <3> TAKE r \in Slot
    <3>1. CASE r = s
      BY <2>6, <3>1
    <3>2. CASE r # s
      BY <2>3, <2>4, <2>5, <3>2, NextFacts, ShownFacts
    <3>3. QED
      BY <3>1, <3>2
  <2>8. UNCHANGED [r \in Slot |-> OfferAt(r)]
    BY <2>7, OffersKept
  <2>9. UNCHANGED HeldTicket
    <3>1. CASE held' = held
      BY <3>1, TicketKept
    <3>2. CASE held = NoHandle /\ held' = NewHandle(s, generation[s], b, ContractIdOf[p], IsPending(b))
      <4>1. held'.pending
        BY <2>2, <3>2 DEF NewHandle
      <4>2. QED
        BY <3>2, <4>1, TicketFacts, NextFacts
    <3>3. QED
      BY <2>1, <3>1, <3>2 DEF RegisterGuestContract
  <2>10. QED
    BY <2>8, <2>9 DEF D!vars
<1>2. ASSUME \/ \E b \in BundleId : SnapshotSlots(b)
             \/ OpenWindow
      PROVE  UNCHANGED D!vars
  <2>1. tenant' = tenant /\ guest_contract_index' = guest_contract_index /\ held' = held
    BY <1>2 DEF SnapshotSlots, OpenWindow, BeginReload, store
  <2>2. \A r \in Slot : /\ Shown(r)' <=> Shown(r)
                        /\ Shown(r) => tenant'[r] = tenant[r]
    BY <2>1 DEF Shown, ContractOf
  <2>3. QED
    BY <2>1, <2>2, OffersKept, TicketKept DEF D!vars
<1>3. ASSUME AbortReload
      PROVE  UNCHANGED D!vars
  <2>1. /\ \A s \in Slot : tenant'[s] = IF s \in NewSlots THEN Vacant ELSE tenant[s]
        /\ reload' = Idle /\ held' = held /\ reload.phase = "open"
    BY <1>3 DEF AbortReload
  <2>2. /\ \A s \in Slot : s \in NewSlots \cup reload.old_slots <=>
             tenant[s] # Vacant /\ tenant[s].bundle_id = reload.bundle_id
        /\ NewSlots \cap reload.old_slots = {}
    BY <2>1, WindowFacts
  <2>3. \A a : ~InitRunning(a)' /\ (InitRunning(a) => a = reload.bundle_id)
    BY <2>1 DEF InitRunning, Idle
  <2>4. \A r \in Slot : /\ Shown(r)' <=> Shown(r)
                        /\ Shown(r) => tenant'[r] = tenant[r]
    <3> TAKE r \in Slot
    <3>1. CASE r \in NewSlots
      <4>1. InitRunning(tenant[r].bundle_id) /\ r \notin reload.old_slots
        BY <2>1, <2>2, <3>1 DEF InitRunning
      <4>2. QED
        BY <2>1, <3>1, <4>1, NextFacts, ShownFacts
    <3>2. CASE r \notin NewSlots
      <4>1. tenant[r] # Vacant /\ InitRunning(tenant[r].bundle_id) => r \in reload.old_slots
        BY <2>2, <2>3, <3>2
      <4>2. QED
        BY <2>1, <2>3, <3>2, <4>1, NextFacts, ShownFacts
    <3>3. QED
      BY <3>1, <3>2
  <2>5. QED
    BY <2>1, <2>4, OffersKept, TicketKept DEF D!vars
<1>4. QED
  BY <1>1, <1>2, <1>3

\* The swap of a bundle that was unloaded meanwhile fails and changes nothing
\* readers see.
LEMMA FailIsHidden ==
  ASSUME StoreInv, StoreInv', SwapFails
  PROVE  UNCHANGED D!vars
<1>1. PICK done \in SUBSET reload.old_slots : \E S \in SUBSET done : \E m \in [S -> NewSlots] :
         FailReloadSwap(done, m)
  BY DEF SwapFails
<1>2. PICK S \in SUBSET done : \E m \in [S -> NewSlots] : FailReloadSwap(done, m)
  BY <1>1
<1>3. PICK m \in [S -> NewSlots] : FailReloadSwap(done, m)
  BY <1>2
<1>4. /\ reload.bundle_id \in BundleId /\ reload.old_slots \subseteq plugin_slots[reload.bundle_id]
      /\ reload.old_slots \subseteq Slot
      /\ \A s \in Slot : s \in NewSlots \cup reload.old_slots <=>
           tenant[s] # Vacant /\ tenant[s].bundle_id = reload.bundle_id
  BY WindowFacts DEF SwapFails
<1>5. reload.bundle_id \notin bundle_data
  BY <1>3, <1>4 DEF FailReloadSwap
<1>6. plugin_slots[reload.bundle_id] = {}
  BY <1>4, <1>5 DEF StoreInv, ReloadWindow
<1>7. Gone(done, m) = {}
  BY <1>4, <1>6 DEF Gone, Range, NewSlots
<1>8. held' = held /\ published' = published
  BY <1>3, <1>7 DEF FailReloadSwap, Swap, BumpGenerations
<1>9. \A s \in Slot : OfferAt(s)' = OfferAt(s)
  BY <1>8 DEF OfferAt, Indexed
<1>10. UNCHANGED HeldTicket
  BY <1>8, TicketKept
<1>11. QED
  BY <1>9, <1>10 DEF D!vars

\* A lookup takes a ticket for an offer.
LEMMA FindTakesTicket ==
  ASSUME StoreInv, StoreInv', Find
  PROVE  \E s \in Slot : D!TakeTicket(s)
<1>1. PICK c \in GuestContractId, s \in Slot :
         \/ FindGuestContract(c, s)
         \/ \E b \in BundleId : FindGuestContractByBundle(b, c, s)
  BY DEF Find
<1>2. /\ tenant' = tenant /\ guest_contract_index' = guest_contract_index /\ held = NoHandle
  BY <1>1 DEF FindGuestContract, FindGuestContractByBundle, store
<1>3. s \in guest_contract_index[c] /\ tenant[s] # Vacant /\ ContractOf(s) = c
  <2>1. CASE FindGuestContract(c, s)
    BY <2>1 DEF FindGuestContract, StoreInv, PublishedCurrent, IndexExact
  <2>2. ASSUME NEW b \in BundleId, FindGuestContractByBundle(b, c, s)
        PROVE  s \in guest_contract_index[c] /\ tenant[s] # Vacant /\ ContractOf(s) = c
    <3>1. tenant[s] # Vacant /\ tenant[s].bundle_id = b /\ ContractOf(s) = c
      BY <2>2 DEF FindGuestContractByBundle
    <3>2. CASE b \in reloading_bundles
      BY <2>2, <3>1, <3>2 DEF FindGuestContractByBundle
    <3>3. CASE b \notin reloading_bundles
      BY <3>1, <3>3 DEF StoreInv, ReloadWindow, IndexExact
    <3>4. QED
      BY <3>1, <3>2, <3>3
  <2>3. QED
    BY <1>1, <2>1, <2>2
<1>4. PICK g : held' = NewHandle(s, g, tenant[s].bundle_id, c, FALSE)
  BY <1>1 DEF FindGuestContract, FindGuestContractByBundle, StoreInv, PublishedCurrent
<1>5. /\ held'.index = s /\ held'.bundle_id = tenant[s].bundle_id /\ held'.contract_id = c
      /\ ~held'.pending /\ held'.age = 0
  BY <1>4 DEF NewHandle
<1>6. held' # NoHandle
  <2>1. held' \in Handle
    <3>1. generation[s] \in Generation /\ published.generation[s] \in Generation
          /\ tenant[s].bundle_id \in BundleId
      BY <1>3, SlotFacts DEF StoreInv, TypeOK
    <3>2. held' = NewHandle(s, generation[s], tenant[s].bundle_id, c, FALSE)
      BY <1>1 DEF FindGuestContract, FindGuestContractByBundle, StoreInv, PublishedCurrent
    <3>3. 0 \in Generation
      BY RegistryAssumption DEF Generation
    <3>4. QED
      BY <3>1, <3>2, <3>3 DEF NewHandle, Handle
  <2>2. QED
    BY <2>1, RefinementAssumption
<1>7. Shown(s)
  BY <1>3 DEF Shown
<1>8. OfferAt(s) # Vacant /\ OfferAt(s) = ShownOffer(s)
  BY <1>7, OfferFacts
<1>9. OfferAt(s).bundle = tenant[s].bundle_id /\ OfferAt(s).contract = c
  BY <1>3, <1>8 DEF ShownOffer
<1>10. HeldTicket' = [seat |-> s, bundle |-> OfferAt(s).bundle, contract |-> OfferAt(s).contract,
                      good |-> TRUE]
  <2>1. HeldTicket' = [seat |-> held'.index, bundle |-> held'.bundle_id,
                       contract |-> held'.contract_id, good |-> (held'.age = 0)]
    BY <1>5, <1>6, NextFacts
  <2>2. QED
    BY <1>5, <1>9, <2>1
<1>11. HeldTicket = NoHandle
  BY <1>2, TicketFacts
<1>12. \A r \in Slot : /\ Shown(r)' <=> Shown(r)
                       /\ Shown(r) => tenant'[r] = tenant[r]
  BY <1>2 DEF Shown, ContractOf
<1>13. UNCHANGED [r \in Slot |-> OfferAt(r)]
  BY <1>12, OffersKept
<1>14. D!TakeTicket(s)
  BY <1>8, <1>10, <1>11, <1>13 DEF D!TakeTicket
<1>15. QED
  BY <1>14

-----------------------------------------------------------------------------
\* Every serialised step is a step of the directory or a stutter.
LEMMA StepRefines ==
  ASSUME StoreInv, StoreInv', [SerialNext]_vars
  PROVE  [D!Next]_(D!vars)
<1>1. CASE UNCHANGED vars
  <2>1. published' = published /\ held' = held
    BY <1>1 DEF vars, store
  <2>2. \A s \in Slot : OfferAt(s)' = OfferAt(s)
    BY <2>1 DEF OfferAt, Indexed
  <2>3. QED
    BY <2>1, <2>2, TicketKept DEF D!vars
<1>2. CASE SerialNext
  <2>1. CASE Find
    BY <2>1, FindTakesTicket DEF D!Next
  <2>2. ASSUME NEW b \in BundleId, NotReloading(b), Load(b) \/ InvalidateBundle(b)
        PROVE  D!Next
    BY <2>2, LoadMakesOffers, InvalidateWithdraws DEF D!Next
  <2>3. CASE SwapSucceeds
    <3>1. reload.bundle_id \in BundleId
      BY <2>3, WindowFacts DEF SwapSucceeds
    <3>2. QED
      BY <2>3, <3>1, SwapReplaces DEF D!Next
  <2>4. CASE SwapFails
    BY <2>4, FailIsHidden
  <2>5. CASE \/ \E b \in BundleId : InitRunning(b) /\ Register(b)
             \/ \E b \in BundleId : SnapshotSlots(b)
             \/ OpenWindow
             \/ AbortReload
    BY <2>5, ReloadIsHidden
  <2>6. QED
    BY <1>2, <2>1, <2>2, <2>3, <2>4, <2>5 DEF SerialNext, ReloadStep
<1>3. QED
  BY <1>1, <1>2

\* The empty registry is an empty directory.
LEMMA InitRefines == Init => D!Init
<1> SUFFICES ASSUME Init
             PROVE  D!Init
  OBVIOUS
<1>1. \A s \in Slot : OfferAt(s) = Vacant
  BY DEF Init, OfferAt
<1>2. HeldTicket = NoHandle
  BY DEF Init, HeldTicket
<1>3. QED
  BY <1>1, <1>2 DEF D!Init

\* The registry implements the directory: for those who look contracts up,
\* bundles change all at once, and a handle is good until its provider is gone
\* and never again (runtime_store.rs, whole file).
THEOREM RegistryImplementsDirectory == SerialSpec => ImplementsDirectory
<1>1. StoreInv /\ StoreInv' /\ [SerialNext]_vars => [D!Next]_(D!vars)
  BY StepRefines
<1>2. QED
  BY <1>1, InitRefines, StoreInvariant, PTL DEF SerialSpec, ImplementsDirectory, D!Spec

-----------------------------------------------------------------------------
(***************************************************************************)
(* How the steps of a call change `call`.                                  *)
(***************************************************************************)
CallOK == call \in [Caller -> Call \cup {NoCall}]
OthersSame(t) == \A u \in Caller \ {t} : call'[u] = call[u]

\* A call is a record of Call.
LEMMA CallType ==
  ASSUME CallOK, NEW t \in Caller, call[t] # NoCall
  PROVE  /\ call[t] \in Call /\ call[t].bundle_id \in BundleId
         /\ call[t].library \in Library \cup {NoLibrary} /\ call[t].phase \in CallPhase
         /\ call[t].op \in {"load", "unload", "reload"}
  BY DEF CallOK, Call

\* No call is ready to be confused with the idle record.
LEMMA CallNotIdle == \A c \in Call : c # NoCall /\ c.phase # "none"
  BY DEF Call, NoCall, CallPhase

\* A call goes on to another phase.
LEMMA StepCall ==
  ASSUME CallOK, NEW t \in Caller, call[t] # NoCall, NEW phase \in CallPhase, Step(t, phase)
  PROVE  /\ CallOK' /\ OthersSame(t) /\ call'[t] # NoCall
         /\ call'[t].phase = phase /\ call'[t].op = call[t].op
         /\ call'[t].bundle_id = call[t].bundle_id /\ call'[t].library = call[t].library
         /\ call'[t].loader_name = call[t].loader_name
  <1>1. call[t] \in Call BY CallType
  <1>2. ASSUME NEW c \in Call
        PROVE  LET n == [c EXCEPT !.phase = phase]
               IN  /\ n \in Call /\ n.phase = phase /\ n.op = c.op /\ n.bundle_id = c.bundle_id
                   /\ n.library = c.library /\ n.loader_name = c.loader_name
    BY DEF Call
  <1> DEFINE new == [call[t] EXCEPT !.phase = phase]
  <1>3. call' = [call EXCEPT ![t] = new] BY Zenon DEF Step
  <1>4. /\ new \in Call /\ new.phase = phase /\ new.op = call[t].op /\ new.bundle_id = call[t].bundle_id
        /\ new.library = call[t].library /\ new.loader_name = call[t].loader_name
    BY <1>1, <1>2, Zenon
  <1> HIDE DEF new
  <1>5. call'[t] = new /\ OthersSame(t) /\ CallOK' BY <1>3, <1>4 DEF CallOK, OthersSame
  <1> QED BY <1>4, <1>5, CallNotIdle

\* A call has opened a library.
LEMMA OpenCall ==
  ASSUME CallOK, NEW t \in Caller, call[t] # NoCall, NEW l \in Library,
         call' = [call EXCEPT ![t].phase = "init", ![t].library = l]
  PROVE  /\ CallOK' /\ OthersSame(t) /\ call'[t] # NoCall
         /\ call'[t].phase = "init" /\ call'[t].op = call[t].op
         /\ call'[t].bundle_id = call[t].bundle_id /\ call'[t].library = l
  <1>1. call[t] \in Call BY CallType
  <1>2. ASSUME NEW c \in Call
        PROVE  LET n == [c EXCEPT !.phase = "init", !.library = l]
               IN  /\ n \in Call /\ n.phase = "init" /\ n.op = c.op /\ n.bundle_id = c.bundle_id
                   /\ n.library = l
    BY DEF Call, CallPhase
  <1> DEFINE new == [call[t] EXCEPT !.phase = "init", !.library = l]
  <1>3. call' = [call EXCEPT ![t] = new] BY Zenon DEF CallOK
  <1>4. /\ new \in Call /\ new.phase = "init" /\ new.op = call[t].op /\ new.bundle_id = call[t].bundle_id
        /\ new.library = l
    BY <1>1, <1>2, Zenon
  <1> HIDE DEF new
  <1>5. call'[t] = new /\ OthersSame(t) /\ CallOK' BY <1>3, <1>4 DEF CallOK, OthersSame
  <1> QED BY <1>4, <1>5, CallNotIdle

\* An unload has looked the loader up.
LEMMA NotifyCall ==
  ASSUME CallOK, NEW t \in Caller, call[t] # NoCall, NEW named \in BOOLEAN,
         call' = [call EXCEPT ![t].phase = "notified", ![t].loader_name = named]
  PROVE  /\ CallOK' /\ OthersSame(t) /\ call'[t] # NoCall
         /\ call'[t].phase = "notified" /\ call'[t].op = call[t].op
         /\ call'[t].bundle_id = call[t].bundle_id /\ call'[t].loader_name = named
  <1>1. call[t] \in Call BY CallType
  <1>2. ASSUME NEW c \in Call
        PROVE  LET n == [c EXCEPT !.phase = "notified", !.loader_name = named]
               IN  /\ n \in Call /\ n.phase = "notified" /\ n.op = c.op /\ n.bundle_id = c.bundle_id
                   /\ n.loader_name = named
    BY DEF Call, CallPhase
  <1> DEFINE new == [call[t] EXCEPT !.phase = "notified", !.loader_name = named]
  <1>3. call' = [call EXCEPT ![t] = new] BY Zenon DEF CallOK
  <1>4. /\ new \in Call /\ new.phase = "notified" /\ new.op = call[t].op /\ new.bundle_id = call[t].bundle_id
        /\ new.loader_name = named
    BY <1>1, <1>2, Zenon
  <1> HIDE DEF new
  <1>5. call'[t] = new /\ OthersSame(t) /\ CallOK' BY <1>3, <1>4 DEF CallOK, OthersSame
  <1> QED BY <1>4, <1>5, CallNotIdle

\* A call begins.
LEMMA StartCall ==
  ASSUME CallOK, NEW t \in Caller, NEW op \in {"load", "unload", "reload"}, NEW b \in BundleId,
         NEW phase \in CallPhase, Start(t, op, b, phase, FALSE)
  PROVE  /\ CallOK' /\ OthersSame(t) /\ call[t] = NoCall /\ call'[t] # NoCall
         /\ call'[t].phase = phase /\ call'[t].op = op /\ call'[t].bundle_id = b
  <1> DEFINE new == [op |-> op, bundle_id |-> b, phase |-> phase, library |-> NoLibrary, loader_name |-> FALSE]
  <1>1. new \in Call /\ new.phase = phase /\ new.op = op /\ new.bundle_id = b BY DEF Call
  <1>2. call' = [call EXCEPT ![t] = new] /\ call[t] = NoCall BY DEF Start
  <1> HIDE DEF new
  <1>3. call'[t] = new /\ OthersSame(t) /\ CallOK' BY <1>1, <1>2 DEF CallOK, OthersSame
  <1> QED BY <1>1, <1>2, <1>3, CallNotIdle

\* A call returns.
LEMMA ReturnCall ==
  ASSUME CallOK, NEW t \in Caller, Return(t)
  PROVE  CallOK' /\ OthersSame(t) /\ call'[t] = NoCall
  BY DEF CallOK, Return, OthersSame

Begins(t, op, b, phase) ==
  /\ CallOK' /\ OthersSame(t) /\ call[t] = NoCall /\ b \in Manages[t]
  /\ call'[t] # NoCall /\ call'[t].op = op /\ call'[t].bundle_id = b /\ call'[t].phase = phase
Moves(t, op, from, to) ==
  /\ CallOK' /\ OthersSame(t) /\ call[t] # NoCall /\ call[t].op = op /\ call[t].phase = from
  /\ call'[t] # NoCall /\ call'[t].op = op /\ call'[t].bundle_id = call[t].bundle_id /\ call'[t].phase = to
KeepsRest(t) == call'[t].library = call[t].library /\ call'[t].loader_name = call[t].loader_name
Ends(t, op, from) ==
  /\ CallOK' /\ OthersSame(t) /\ call[t] # NoCall /\ call[t].op = op /\ call[t].phase = from
  /\ call'[t] = NoCall

\* The steps of a load.
LEMMA LoadMoves ==
  ASSUME LifecycleTypeOK, NEW t \in Caller
  PROVE  /\ \A b \in BundleId : LoadBegins(t, b) => Begins(t, "load", b, "staged")
         /\ LoadOpens(t) => Moves(t, "load", "staged", "init") /\ call'[t].library = opened + 1
         /\ LoadOpenFails(t) => Moves(t, "load", "staged", "cleanup") /\ KeepsRest(t)
         /\ LoadCommits(t) => Moves(t, "load", "installed", "published") /\ KeepsRest(t)
         /\ LoadCommitFails(t) => Moves(t, "load", "installed", "cleanup") /\ KeepsRest(t)
         /\ LoadRecordsManifest(t) => Ends(t, "load", "published")
         /\ LoadCleansUp(t) => Ends(t, "load", "cleanup")
  <1>0. CallOK BY DEF LifecycleTypeOK, CallOK
  <1>1. ASSUME NEW b \in BundleId, LoadBegins(t, b) PROVE Begins(t, "load", b, "staged")
    <2>1. Start(t, "load", b, "staged", FALSE) /\ b \in Manages[t] BY <1>1 DEF LoadBegins, Start
    <2> QED BY <1>0, <2>1, StartCall DEF Begins, CallPhase
  <1>2. ASSUME LoadOpens(t) PROVE Moves(t, "load", "staged", "init") /\ call'[t].library = opened + 1
    <2>1. /\ call' = [call EXCEPT ![t].phase = "init", ![t].library = opened + 1]
          /\ call[t] # NoCall /\ call[t].op = "load" /\ call[t].phase = "staged" /\ opened < MaxLibraries
      BY <1>2, Zenon DEF LoadOpens, In, Dlopen
    <2>2. opened + 1 \in Library BY <2>1, LifecycleAssumption DEF LifecycleTypeOK, LoaderTypeOK, Library
    <2> QED BY <1>0, <2>1, <2>2, OpenCall DEF Moves
  <1>3. ASSUME LoadOpenFails(t) PROVE Moves(t, "load", "staged", "cleanup") /\ KeepsRest(t)
    BY <1>0, <1>3, StepCall DEF LoadOpenFails, In, Moves, KeepsRest, CallPhase
  <1>4. ASSUME LoadCommits(t) PROVE Moves(t, "load", "installed", "published") /\ KeepsRest(t)
    <2>1. In(t, "load", "installed") /\ Step(t, "published") BY <1>4, Zenon DEF LoadCommits
    <2> QED BY <1>0, <2>1, StepCall DEF In, Moves, KeepsRest, CallPhase
  <1>5. ASSUME LoadCommitFails(t) PROVE Moves(t, "load", "installed", "cleanup") /\ KeepsRest(t)
    BY <1>0, <1>5, StepCall DEF LoadCommitFails, In, Moves, KeepsRest, CallPhase
  <1>6. ASSUME LoadRecordsManifest(t) PROVE Ends(t, "load", "published")
    BY <1>0, <1>6, ReturnCall DEF LoadRecordsManifest, In, Ends
  <1>7. ASSUME LoadCleansUp(t) PROVE Ends(t, "load", "cleanup")
    BY <1>0, <1>7, ReturnCall DEF LoadCleansUp, In, Ends
  <1> QED BY <1>1, <1>2, <1>3, <1>4, <1>5, <1>6, <1>7

\* The steps of an unload.
LEMMA UnloadMoves ==
  ASSUME LifecycleTypeOK, NEW t \in Caller
  PROVE  /\ \A b \in BundleId : UnloadBegins(t, b) => Begins(t, "unload", b, "checked")
         /\ UnloadNotifies(t) => /\ Moves(t, "unload", "checked", "notified")
                                 /\ call'[t].loader_name = (call[t].bundle_id \in bundle_manifests)
         /\ UnloadInvalidates(t) => Moves(t, "unload", "notified", "forget") /\ KeepsRest(t)
         /\ UnloadForgets(t) => Moves(t, "unload", "forget", "reclaim") /\ KeepsRest(t)
         /\ UnloadReclaims(t) => Ends(t, "unload", "reclaim")
  <1>0. CallOK BY DEF LifecycleTypeOK, CallOK
  <1>1. ASSUME NEW b \in BundleId, UnloadBegins(t, b) PROVE Begins(t, "unload", b, "checked")
    <2>1. Start(t, "unload", b, "checked", FALSE) /\ b \in Manages[t] BY <1>1 DEF UnloadBegins, Start
    <2> QED BY <1>0, <2>1, StartCall DEF Begins, CallPhase
  <1>2. ASSUME UnloadNotifies(t)
        PROVE  /\ Moves(t, "unload", "checked", "notified")
               /\ call'[t].loader_name = (call[t].bundle_id \in bundle_manifests)
    <2> DEFINE named == call[t].bundle_id \in bundle_manifests
    <2>1. /\ call' = [call EXCEPT ![t].phase = "notified", ![t].loader_name = named]
          /\ call[t] # NoCall /\ call[t].op = "unload" /\ call[t].phase = "checked"
      BY <1>2, Zenon DEF UnloadNotifies, In
    <2>2. named \in BOOLEAN OBVIOUS
    <2> HIDE DEF named
    <2>3. Moves(t, "unload", "checked", "notified") /\ call'[t].loader_name = named
      BY <1>0, <2>1, <2>2, NotifyCall DEF Moves
    <2> QED BY <2>3 DEF named
  <1>3. ASSUME UnloadInvalidates(t) PROVE Moves(t, "unload", "notified", "forget") /\ KeepsRest(t)
    <2>1. In(t, "unload", "notified") /\ Step(t, "forget") BY <1>3, Zenon DEF UnloadInvalidates
    <2> QED BY <1>0, <2>1, StepCall DEF In, Moves, KeepsRest, CallPhase
  <1>4. ASSUME UnloadForgets(t) PROVE Moves(t, "unload", "forget", "reclaim") /\ KeepsRest(t)
    BY <1>0, <1>4, StepCall DEF UnloadForgets, In, Moves, KeepsRest, CallPhase
  <1>5. ASSUME UnloadReclaims(t) PROVE Ends(t, "unload", "reclaim")
    BY <1>0, <1>5, ReturnCall DEF UnloadReclaims, In, Ends
  <1> QED BY <1>1, <1>2, <1>3, <1>4, <1>5

\* The steps of a reload.
LEMMA ReloadMoves ==
  ASSUME LifecycleTypeOK, NEW t \in Caller
  PROVE  /\ \A b \in BundleId : ReloadBegins(t, b) => Begins(t, "reload", b, "preparing")
         /\ ReloadOpens(t) => Moves(t, "reload", "preparing", "init") /\ call'[t].library = opened + 1
         /\ ReloadOpenFails(t) => Moves(t, "reload", "preparing", "failed") /\ KeepsRest(t)
         /\ InitRegisters(t) => Moves(t, "reload", "init", "init") /\ KeepsRest(t)
         /\ ReloadSwaps(t) => Ends(t, "reload", "installed")
         /\ ReloadSwapFails(t) => Ends(t, "reload", "installed")
         /\ ReloadAborts(t) => Ends(t, "reload", "failed")
  <1>0. CallOK BY DEF LifecycleTypeOK, CallOK
  <1>1. ASSUME NEW b \in BundleId, ReloadBegins(t, b) PROVE Begins(t, "reload", b, "preparing")
    <2>1. Start(t, "reload", b, "preparing", FALSE) /\ b \in Manages[t] BY <1>1, Zenon DEF ReloadBegins, Start
    <2> QED BY <1>0, <2>1, StartCall DEF Begins, CallPhase
  <1>2. ASSUME ReloadOpens(t) PROVE Moves(t, "reload", "preparing", "init") /\ call'[t].library = opened + 1
    <2>1. /\ call' = [call EXCEPT ![t].phase = "init", ![t].library = opened + 1]
          /\ call[t] # NoCall /\ call[t].op = "reload" /\ call[t].phase = "preparing" /\ opened < MaxLibraries
      BY <1>2, Zenon DEF ReloadOpens, In, Dlopen
    <2>2. opened + 1 \in Library BY <2>1, LifecycleAssumption DEF LifecycleTypeOK, LoaderTypeOK, Library
    <2> QED BY <1>0, <2>1, <2>2, OpenCall DEF Moves
  <1>3. ASSUME ReloadOpenFails(t) PROVE Moves(t, "reload", "preparing", "failed") /\ KeepsRest(t)
    <2>1. In(t, "reload", "preparing") /\ Step(t, "failed") BY <1>3, Zenon DEF ReloadOpenFails
    <2> QED BY <1>0, <2>1, StepCall DEF In, Moves, KeepsRest, CallPhase
  <1>4. ASSUME InitRegisters(t) PROVE Moves(t, "reload", "init", "init") /\ KeepsRest(t)
    <2>1. In(t, "reload", "init") /\ call' = call BY <1>4, Zenon DEF InitRegisters
    <2> QED BY <1>0, <2>1 DEF In, Moves, KeepsRest, CallOK, OthersSame
  <1>5. ASSUME ReloadSwaps(t) PROVE Ends(t, "reload", "installed")
    <2>1. In(t, "reload", "installed") /\ Return(t) BY <1>5, Zenon DEF ReloadSwaps
    <2> QED BY <1>0, <2>1, ReturnCall DEF In, Ends
  <1>6. ASSUME ReloadSwapFails(t) PROVE Ends(t, "reload", "installed")
    <2>1. In(t, "reload", "installed") /\ Return(t) BY <1>6, Zenon DEF ReloadSwapFails
    <2> QED BY <1>0, <2>1, ReturnCall DEF In, Ends
  <1>7. ASSUME ReloadAborts(t) PROVE Ends(t, "reload", "failed")
    <2>1. In(t, "reload", "failed") /\ Return(t) BY <1>7, Zenon DEF ReloadAborts
    <2> QED BY <1>0, <2>1, ReturnCall DEF In, Ends
  <1> QED BY <1>1, <1>2, <1>3, <1>4, <1>5, <1>6, <1>7

\* The end of the loader's part of a load or a reload.
LEMMA LoaderMoves ==
  ASSUME LifecycleTypeOK, NEW t \in Caller
  PROVE  /\ LoaderInstalls(t) => /\ \E op \in {"load", "reload"} : Moves(t, op, "init", "installed")
                                 /\ KeepsRest(t)
         /\ InitFails(t) => /\ \/ Moves(t, "load", "init", "cleanup")
                               \/ Moves(t, "reload", "init", "failed")
                            /\ KeepsRest(t)
  <1>0. CallOK BY DEF LifecycleTypeOK, CallOK
  <1>1. ASSUME LoaderInstalls(t)
        PROVE  (\E op \in {"load", "reload"} : Moves(t, op, "init", "installed")) /\ KeepsRest(t)
    <2>1. Step(t, "installed") /\ (In(t, "load", "init") \/ In(t, "reload", "init"))
      BY <1>1, Zenon DEF LoaderInstalls
    <2> QED BY <1>0, <2>1, StepCall DEF In, Moves, KeepsRest, CallPhase
  <1>2. ASSUME InitFails(t)
        PROVE  /\ \/ Moves(t, "load", "init", "cleanup")
                  \/ Moves(t, "reload", "init", "failed")
               /\ KeepsRest(t)
    <2> DEFINE to == IF call[t].op = "load" THEN "cleanup" ELSE "failed"
    <2>1. Step(t, to) /\ (In(t, "load", "init") \/ In(t, "reload", "init"))
      BY <1>2, Zenon DEF InitFails
    <2>2. to \in CallPhase BY DEF CallPhase
    <2>3. call[t] # NoCall BY <2>1 DEF In
    <2> HIDE DEF to
    <2>4. /\ CallOK' /\ OthersSame(t) /\ call'[t] # NoCall
          /\ call'[t].phase = to /\ call'[t].op = call[t].op
          /\ call'[t].bundle_id = call[t].bundle_id /\ call'[t].library = call[t].library
          /\ call'[t].loader_name = call[t].loader_name
      BY <1>0, <2>1, <2>2, <2>3, StepCall
    <2> QED BY <2>1, <2>4 DEF In, Moves, KeepsRest, to
  <1> QED BY <1>1, <1>2

-----------------------------------------------------------------------------
(***************************************************************************)
(* How the loader's operations change the libraries.                       *)
(***************************************************************************)

\* A dlopen numbers a new library and leaves the others alone.
LEMMA DlopenFacts ==
  ASSUME LoaderTypeOK, NEW b \in BundleId, NEW i \in Image, Dlopen(b, i)
  PROVE  /\ LoaderTypeOK' /\ opened' = opened + 1 /\ opened \in Nat /\ opened + 1 \in Library
         /\ UNCHANGED <<libraries, deferred, closed>>
         /\ \A l \in 1 .. opened : mapping'[l] = mapping[l]
         /\ mapping'[opened + 1] = i
  <1>1. opened \in Nat /\ opened + 1 \in Library /\ opened' = opened + 1 /\ opened' \in 0 .. MaxLibraries
    BY LifecycleAssumption DEF Dlopen, LoaderTypeOK, Library
  <1>2. \A l \in 1 .. opened : l \in Library /\ l # opened + 1 BY <1>1, LifecycleAssumption DEF Library
  <1>3. /\ mapping' = [mapping EXCEPT ![opened + 1] = i] /\ latest' = [latest EXCEPT ![b] = opened + 1]
        /\ UNCHANGED <<libraries, deferred, closed>>
    BY DEF Dlopen
  <1>4. mapping' \in [Library -> Image] /\ latest' \in [BundleId -> Library \cup {NoLibrary}]
    BY <1>1, <1>3 DEF LoaderTypeOK
  <1> QED BY <1>1, <1>2, <1>3, <1>4 DEF LoaderTypeOK

\* An install replaces the bundle's library and schedules the superseded one.
LEMMA InstallFacts ==
  ASSUME LoaderTypeOK, NEW b \in BundleId, NEW l \in Library, Install(b, l),
         UNCHANGED <<opened, mapping, latest>>
  PROVE  /\ LoaderTypeOK' /\ closed' = closed
         /\ libraries'[b] = l /\ \A a \in BundleId \ {b} : libraries'[a] = libraries[a]
         /\ deferred' = IF libraries[b] = NoLibrary THEN deferred
                        ELSE deferred \cup {[library |-> libraries[b], pins |-> Pinned]}
  <1>1. closed' = closed /\ deferred' = IF libraries[b] = NoLibrary THEN deferred
                        ELSE deferred \cup {[library |-> libraries[b], pins |-> Pinned]}
    BY DEF Install, ScheduleReclaim
  <1>2. libraries[b] # NoLibrary => [library |-> libraries[b], pins |-> Pinned] \in [library : Library, pins : SUBSET Reader]
    BY DEF LoaderTypeOK, Pinned
  <1>3. deferred' \subseteq [library : Library, pins : SUBSET Reader]
    <2>1. CASE libraries[b] = NoLibrary BY <1>1, <2>1 DEF LoaderTypeOK
    <2>2. CASE libraries[b] # NoLibrary BY <1>1, <1>2, <2>2 DEF LoaderTypeOK
    <2> QED BY <2>1, <2>2
  <1>4. libraries' = [libraries EXCEPT ![b] = l] BY DEF Install
  <1>5. libraries' \in [BundleId -> Library \cup {NoLibrary}] BY <1>4 DEF LoaderTypeOK
  <1>6. libraries'[b] = l /\ \A a \in BundleId \ {b} : libraries'[a] = libraries[a] BY <1>4 DEF LoaderTypeOK
  <1> QED BY <1>1, <1>3, <1>5, <1>6 DEF LoaderTypeOK

\* The loader's unload takes the bundle's library, if any, and schedules it.
LEMMA LoaderUnloadFacts ==
  ASSUME LoaderTypeOK, NEW b \in BundleId, LoaderUnload(b)
  PROVE  /\ LoaderTypeOK' /\ closed' = closed /\ opened' = opened /\ mapping' = mapping
         /\ libraries'[b] = NoLibrary /\ \A a \in BundleId \ {b} : libraries'[a] = libraries[a]
         /\ deferred' = IF libraries[b] = NoLibrary THEN deferred
                        ELSE deferred \cup {[library |-> libraries[b], pins |-> Pinned]}
  <1>1. closed' = closed /\ deferred' = IF libraries[b] = NoLibrary THEN deferred
                        ELSE deferred \cup {[library |-> libraries[b], pins |-> Pinned]}
    BY DEF LoaderUnload, ScheduleReclaim
  <1>2. libraries[b] # NoLibrary => [library |-> libraries[b], pins |-> Pinned] \in [library : Library, pins : SUBSET Reader]
    BY DEF LoaderTypeOK, Pinned
  <1>3. deferred' \subseteq [library : Library, pins : SUBSET Reader]
    <2>1. CASE libraries[b] = NoLibrary BY <1>1, <2>1 DEF LoaderTypeOK
    <2>2. CASE libraries[b] # NoLibrary BY <1>1, <1>2, <2>2 DEF LoaderTypeOK
    <2> QED BY <2>1, <2>2
  <1>4. libraries' = [libraries EXCEPT ![b] = NoLibrary] BY DEF LoaderUnload
  <1>5. libraries' \in [BundleId -> Library \cup {NoLibrary}] BY <1>4 DEF LoaderTypeOK
  <1>6. libraries'[b] = NoLibrary /\ \A a \in BundleId \ {b} : libraries'[a] = libraries[a] BY <1>4 DEF LoaderTypeOK
  <1> QED BY <1>1, <1>3, <1>5, <1>6 DEF LoaderTypeOK, LoaderUnload

\* A library whose init failed is scheduled as it is.
LEMMA ScheduleFacts ==
  ASSUME LoaderTypeOK, NEW l \in Library, ScheduleReclaim(l), UNCHANGED <<libraries, opened, mapping, latest>>
  PROVE  LoaderTypeOK' /\ closed' = closed /\ deferred' = deferred \cup {[library |-> l, pins |-> Pinned]}
  <1>1. [library |-> l, pins |-> Pinned] \in [library : Library, pins : SUBSET Reader] BY DEF Pinned
  <1>2. closed' = closed /\ deferred' = deferred \cup {[library |-> l, pins |-> Pinned]} BY DEF ScheduleReclaim
  <1> HIDE DEF Pinned
  <1> QED BY <1>1, <1>2 DEF LoaderTypeOK

\* An unpin keeps every scheduled library, less the pin.
LEMMA UnpinFacts ==
  ASSUME LoaderTypeOK, NEW r \in Reader, Unpin(r)
  PROVE  /\ LoaderTypeOK' /\ UNCHANGED <<libraries, opened, mapping, closed>>
         /\ \A d \in deferred : \E e \in deferred' : e.library = d.library /\ e.pins = d.pins \ {r}
         /\ \A e \in deferred' : \E d \in deferred : e.library = d.library /\ e.pins = d.pins \ {r}
         /\ \A d, e \in deferred' : d.library = e.library /\ d.pins = e.pins => d = e
  <1>1. deferred' = {[d EXCEPT !.pins = @ \ {r}] : d \in deferred} BY DEF Unpin
  <1>2. ASSUME NEW d \in [library : Library, pins : SUBSET Reader]
        PROVE  LET e == [d EXCEPT !.pins = @ \ {r}]
               IN  e \in [library : Library, pins : SUBSET Reader] /\ e.library = d.library /\ e.pins = d.pins \ {r}
    OBVIOUS
  <1>3. deferred' \subseteq [library : Library, pins : SUBSET Reader]
    <2> SUFFICES ASSUME NEW e \in deferred' PROVE e \in [library : Library, pins : SUBSET Reader]
      OBVIOUS
    <2>1. PICK d \in deferred : e = [d EXCEPT !.pins = @ \ {r}] BY <1>1
    <2>2. d \in [library : Library, pins : SUBSET Reader] BY DEF LoaderTypeOK
    <2> QED BY <2>1, <2>2, <1>2, Zenon
  <1>4. \A d, e \in [library : Library, pins : SUBSET Reader] : d.library = e.library /\ d.pins = e.pins => d = e
    OBVIOUS
  <1>5. /\ \A d \in deferred : \E e \in deferred' : e.library = d.library /\ e.pins = d.pins \ {r}
        /\ \A e \in deferred' : \E d \in deferred : e.library = d.library /\ e.pins = d.pins \ {r}
    BY <1>1, <1>2, Zenon DEF LoaderTypeOK
  <1>6. UNCHANGED <<libraries, opened, mapping, closed, latest>> BY DEF Unpin
  <1>7. LoaderTypeOK' BY <1>3, <1>6 DEF LoaderTypeOK
  <1> QED BY <1>3, <1>4, <1>5, <1>6, <1>7

\* A dlclose closes one library that was scheduled.
LEMMA DlcloseFacts ==
  ASSUME LoaderTypeOK, NEW d \in deferred, Dlclose(d)
  PROVE  /\ LoaderTypeOK' /\ UNCHANGED <<libraries, opened, mapping>> /\ d.pins = {}
         /\ deferred' = deferred \ {d} /\ closed' = closed \cup {d.library} /\ d.library \in Library
  <1>1. d.library \in Library BY DEF LoaderTypeOK
  <1> QED BY <1>1 DEF Dlclose, LoaderTypeOK

-----------------------------------------------------------------------------
(***************************************************************************)
(* Type correctness, under every interleaving.                             *)
(***************************************************************************)

\* The registry stays well typed: a step of the lifecycle is one of the
\* registry's, or leaves it alone.
LEMMA StoreTypeStep ==
  ASSUME LifecycleTypeOK, LifecycleNext
  PROVE  TypeOK'
  <1>0. TypeOK BY DEF LifecycleTypeOK
  <1>1. CASE UNCHANGED vars BY <1>0, <1>1, TypeStep
  <1>2. ASSUME NEW t \in Caller, LoadCommits(t) PROVE TypeOK'
    <2>1. Moves(t, "load", "installed", "published") BY <1>2, LoadMoves
    <2>2. call[t].bundle_id \in BundleId BY <2>1, CallType DEF LifecycleTypeOK, CallOK, Moves
    <2>3. call[t].library \in Library
      BY <2>1, LifecycleAssumption DEF LifecycleTypeOK, LibrariesKnown, LoaderTypeOK, Library, Moves
    <2>4. mapping[call[t].library] \in Image BY <2>3 DEF LifecycleTypeOK, LoaderTypeOK
    <2>5. PICK S \in SUBSET Free : \E occ \in [S -> Plugin], deps \in DependencySets :
            RegisterPreparedBundle(call[t].bundle_id, occ, deps, mapping[call[t].library])
      BY <1>2 DEF LoadCommits
    <2> QED BY <1>0, <2>2, <2>4, <2>5, LoadType
  <1>3. ASSUME NEW t \in Caller, UnloadInvalidates(t) PROVE TypeOK'
    <2>1. Moves(t, "unload", "notified", "forget") BY <1>3, UnloadMoves
    <2>2. call[t].bundle_id \in BundleId BY <2>1, CallType DEF LifecycleTypeOK, CallOK, Moves
    <2>3. InvalidateBundle(call[t].bundle_id) \/ UNCHANGED vars BY <1>3 DEF UnloadInvalidates
    <2> QED BY <1>0, <2>2, <2>3, TypeStep DEF Next
  <1>4. ASSUME NEW t \in Caller, NEW b \in BundleId, ReloadBegins(t, b) PROVE TypeOK'
    <2>1. SnapshotSlots(b) BY <1>4 DEF ReloadBegins
    <2> QED BY <1>0, <2>1, TypeStep DEF Next, ReloadStep
  <1>5. ASSUME NEW t \in Caller, ReloadOpens(t) PROVE TypeOK'
    BY <1>0, <1>5, BeginType DEF ReloadOpens
  <1>6. ASSUME NEW t \in Caller, ReloadOpenFails(t) PROVE TypeOK'
    <2>1. BeginReload(reload.image) BY <1>6 DEF ReloadOpenFails
    <2>2. reload.image \in Image BY <1>0, <2>1 DEF BeginReload, TypeOK, Reload, Idle
    <2> QED BY <1>0, <2>1, <2>2, BeginType
  <1>7. ASSUME NEW t \in Caller, InitRegisters(t) PROVE TypeOK'
    <2>1. Moves(t, "reload", "init", "init") BY <1>7, ReloadMoves
    <2>2. call[t].bundle_id \in BundleId BY <2>1, CallType DEF LifecycleTypeOK, CallOK, Moves
    <2>3. Register(call[t].bundle_id) BY <1>7 DEF InitRegisters
    <2> QED BY <1>0, <2>2, <2>3, TypeStep DEF Next
  <1>8. ASSUME NEW t \in Caller, ReloadSwaps(t) \/ ReloadSwapFails(t) \/ ReloadAborts(t) PROVE TypeOK'
    <2>1. SwapSucceeds \/ SwapFails \/ AbortReload BY <1>8 DEF ReloadSwaps, ReloadSwapFails, ReloadAborts
    <2> QED BY <1>0, <2>1, TypeStep DEF Next, ReloadStep
  <1>9. ASSUME NEW t \in Caller, LoadStep(t), ~LoadCommits(t) PROVE UNCHANGED vars
    BY <1>9 DEF LoadStep, LoadBegins, LoadOpens, LoadOpenFails, LoadCommitFails,
                LoadRecordsManifest, LoadCleansUp
  <1>10. ASSUME NEW t \in Caller, UnloadStep(t), ~UnloadInvalidates(t) PROVE UNCHANGED vars
    BY <1>10 DEF UnloadStep, UnloadBegins, UnloadNotifies, UnloadForgets, UnloadReclaims
  <1>11. ASSUME NEW t \in Caller, LoaderInstalls(t) \/ InitFails(t) PROVE UNCHANGED vars
    BY <1>11 DEF LoaderInstalls, InitFails
  <1>12. ASSUME \/ \E r \in Reader : Pin(r) \/ Enter(r) \/ Unpin(r)
                \/ \E d \in deferred : Dlclose(d)
         PROVE  UNCHANGED vars
    BY <1>12 DEF Pin, Enter, Unpin, Dlclose
  <1>13. ASSUME NEW t \in Caller, ReloadCallStep(t) PROVE TypeOK'
    BY <1>4, <1>5, <1>6, <1>7, <1>8, <1>13 DEF ReloadCallStep
  <1> QED BY <1>1, <1>2, <1>3, <1>9, <1>10, <1>11, <1>12, <1>13 DEF LifecycleNext

\* The steps of callers keep calls, libraries and manifests well typed, and
\* every call knows the library it opened.
LEMMA CallerTypeStep ==
  ASSUME LifecycleTypeOK, NEW t \in Caller,
         LoadStep(t) \/ UnloadStep(t) \/ ReloadCallStep(t) \/ LoaderInstalls(t) \/ InitFails(t)
  PROVE  /\ LoaderTypeOK' /\ bundle_manifests' \subseteq BundleId /\ CallOK' /\ LibrariesKnown'
         /\ reader' = reader
  <1> DEFINE Goal == /\ LoaderTypeOK' /\ bundle_manifests' \subseteq BundleId /\ CallOK' /\ LibrariesKnown'
                     /\ reader' = reader
  <1>0. LoaderTypeOK /\ bundle_manifests \subseteq BundleId /\ CallOK /\ LibrariesKnown /\ opened \in Nat
    BY LifecycleAssumption DEF LifecycleTypeOK, CallOK, LoaderTypeOK
  <1>1. call[t] # NoCall => call[t].bundle_id \in BundleId BY <1>0, CallType
  <1>2. call[t] # NoCall /\ call[t].phase \in {"init", "installed"} => call[t].library \in Library
    BY <1>0, LifecycleAssumption DEF LibrariesKnown, LoaderTypeOK, Library
  \* The known libraries, from what the step does to its own call.
  <1>3. ASSUME OthersSame(t), opened' \in Nat, opened <= opened',
               call'[t] # NoCall /\ call'[t].phase \in {"init", "installed"} => call'[t].library \in 1 .. opened'
        PROVE  LibrariesKnown'
    BY <1>0, <1>3 DEF LibrariesKnown, OthersSame
  <1>4. ASSUME UNCHANGED loader PROVE LoaderTypeOK' /\ opened' = opened
    BY <1>0, <1>4 DEF loader, LoaderTypeOK
  \* A step that opens nothing and installs nothing.
  <1>5. ASSUME UNCHANGED loader, reader' = reader, bundle_manifests' \subseteq BundleId, OthersSame(t), CallOK',
               call'[t] # NoCall => \/ call'[t].phase \notin {"init", "installed"}
                                    \/ call'[t] = call[t]
        PROVE  Goal
    BY <1>0, <1>3, <1>4, <1>5 DEF LibrariesKnown
  <1>6. ASSUME NEW b \in BundleId, LoadBegins(t, b) \/ UnloadBegins(t, b) \/ ReloadBegins(t, b) PROVE Goal
    <2>1. UNCHANGED <<loader, bundle_manifests, reader>> BY <1>6, Zenon DEF LoadBegins, UnloadBegins, ReloadBegins
    <2>2. \E op \in {"load", "unload", "reload"}, phase \in {"staged", "checked", "preparing"} : Begins(t, op, b, phase)
      BY <1>6, LoadMoves, UnloadMoves, ReloadMoves
    <2> QED BY <1>0, <1>5, <2>1, <2>2 DEF Begins
  <1>7. ASSUME LoadOpens(t) \/ ReloadOpens(t) PROVE Goal
    <2>1. /\ \E op : \E from : Moves(t, op, from, "init")
          /\ call'[t].library = opened + 1
      BY <1>7, LoadMoves, ReloadMoves
    <2>2. PICK i \in Image : Dlopen(call[t].bundle_id, i) BY <1>7, Zenon DEF LoadOpens, ReloadOpens
    <2>3. LoaderTypeOK' /\ opened' = opened + 1 BY <1>0, <1>1, <2>1, <2>2, DlopenFacts DEF Moves
    <2>4. UNCHANGED <<bundle_manifests, reader>> BY <1>7, Zenon DEF LoadOpens, ReloadOpens
    <2>5. opened' \in Nat /\ opened <= opened' /\ opened + 1 \in 1 .. opened' BY <1>0, <2>3
    <2> QED BY <1>0, <1>3, <2>1, <2>3, <2>4, <2>5 DEF Moves
  <1>8. ASSUME LoadOpenFails(t) \/ LoadCommits(t) \/ LoadCommitFails(t) \/ UnloadNotifies(t)
               \/ UnloadInvalidates(t) \/ ReloadOpenFails(t)
        PROVE  Goal
    <2>1. UNCHANGED <<loader, bundle_manifests, reader>>
      BY <1>8, Zenon DEF LoadOpenFails, LoadCommits, LoadCommitFails, UnloadNotifies, UnloadInvalidates, ReloadOpenFails
    <2>2. \E op : \E from : \E to \in {"cleanup", "published", "notified", "forget", "failed"} : Moves(t, op, from, to)
      BY <1>8, LoadMoves, UnloadMoves, ReloadMoves
    <2> QED BY <1>0, <1>5, <2>1, <2>2 DEF Moves
  <1>9. ASSUME UnloadForgets(t) PROVE Goal
    <2>1. UNCHANGED <<loader, reader>> /\ bundle_manifests' = bundle_manifests \ {call[t].bundle_id}
      BY <1>9, Zenon DEF UnloadForgets
    <2>2. Moves(t, "unload", "forget", "reclaim") BY <1>9, UnloadMoves
    <2> QED BY <1>0, <1>5, <2>1, <2>2 DEF Moves
  <1>10. ASSUME LoadRecordsManifest(t) \/ ReloadSwaps(t) PROVE Goal
    <2>1. UNCHANGED <<loader, reader>> /\ bundle_manifests' = bundle_manifests \cup {call[t].bundle_id}
      BY <1>10, Zenon DEF LoadRecordsManifest, ReloadSwaps
    <2>2. \E op : \E from : Ends(t, op, from) BY <1>10, LoadMoves, ReloadMoves
    <2> QED BY <1>0, <1>1, <1>5, <2>1, <2>2 DEF Ends
  <1>11. ASSUME ReloadSwapFails(t) \/ ReloadAborts(t) PROVE Goal
    <2>1. UNCHANGED <<loader, bundle_manifests, reader>> BY <1>11, Zenon DEF ReloadSwapFails, ReloadAborts
    <2>2. \E op : \E from : Ends(t, op, from) BY <1>11, ReloadMoves
    <2> QED BY <1>0, <1>5, <2>1, <2>2 DEF Ends
  <1>12. ASSUME InitRegisters(t) PROVE Goal
    <2>1. UNCHANGED <<loader, bundle_manifests, reader, call>> BY <1>12, Zenon DEF InitRegisters
    <2>2. Moves(t, "reload", "init", "init") BY <1>12, ReloadMoves
    <2> QED BY <1>0, <1>5, <2>1, <2>2 DEF Moves
  <1>13. ASSUME LoadCleansUp(t) \/ UnloadReclaims(t) PROVE Goal
    <2>1. UNCHANGED <<bundle_manifests, reader>> /\ (LoaderUnload(call[t].bundle_id) \/ UNCHANGED loader)
      BY <1>13 DEF LoadCleansUp, UnloadReclaims
    <2>2. \E op : \E from : Ends(t, op, from) BY <1>13, LoadMoves, UnloadMoves
    <2>3. LoaderTypeOK' /\ opened' = opened BY <1>0, <1>1, <1>4, <2>1, <2>2, LoaderUnloadFacts DEF Ends
    <2> QED BY <1>0, <1>3, <2>1, <2>2, <2>3 DEF Ends
  <1>14. ASSUME LoaderInstalls(t) PROVE Goal
    <2>1. (\E op : Moves(t, op, "init", "installed")) /\ KeepsRest(t) BY <1>14, LoaderMoves
    <2>2. /\ Install(call[t].bundle_id, call[t].library)
          /\ UNCHANGED <<opened, mapping, latest, bundle_manifests, reader>>
      BY <1>14, Zenon DEF LoaderInstalls
    <2>3. LoaderTypeOK' BY <1>0, <1>1, <1>2, <2>1, <2>2, InstallFacts DEF Moves
    <2>4. call[t].library \in 1 .. opened BY <1>0, <2>1 DEF Moves, LibrariesKnown
    <2> QED BY <1>0, <1>3, <2>1, <2>2, <2>3, <2>4 DEF Moves, KeepsRest
  <1>15. ASSUME InitFails(t) PROVE Goal
    <2>1. \E op : \E to \in {"cleanup", "failed"} : Moves(t, op, "init", to) BY <1>15, LoaderMoves
    <2>2. ScheduleReclaim(call[t].library) /\ UNCHANGED <<libraries, opened, mapping, latest, bundle_manifests, reader>>
      BY <1>15, Zenon DEF InitFails
    <2>3. LoaderTypeOK' BY <1>0, <1>2, <2>1, <2>2, ScheduleFacts DEF Moves
    <2> QED BY <1>0, <1>3, <2>1, <2>2, <2>3 DEF Moves
  <1> HIDE DEF Goal
  <1>16. Goal
    BY <1>6, <1>7, <1>8, <1>9, <1>10, <1>11, <1>12, <1>13, <1>14, <1>15 DEF LoadStep, UnloadStep, ReloadCallStep
  <1> QED BY <1>16 DEF Goal

\* Every step of every interleaving keeps the whole state well typed.
LEMMA LifecycleTypeStep ==
  ASSUME LifecycleTypeOK, [LifecycleNext]_lifecycleVars
  PROVE  LifecycleTypeOK'
  <1>0. hot_reload_enabled' \in BOOLEAN BY DEF LifecycleTypeOK, LifecycleNext, lifecycleVars
  <1>1. CASE UNCHANGED lifecycleVars
    <2>1. UNCHANGED vars BY <1>1 DEF lifecycleVars
    <2>2. TypeOK' BY <2>1, TypeStep DEF LifecycleTypeOK
    <2> QED BY <1>0, <1>1, <2>2 DEF lifecycleVars, loader, LifecycleTypeOK, LoaderTypeOK, LibrariesKnown
  <1>2. ASSUME LifecycleNext, NEW t \in Caller,
               LoadStep(t) \/ UnloadStep(t) \/ ReloadCallStep(t) \/ LoaderInstalls(t) \/ InitFails(t)
        PROVE  LifecycleTypeOK'
    <2>1. TypeOK' BY <1>2, StoreTypeStep
    <2>2. /\ LoaderTypeOK' /\ bundle_manifests' \subseteq BundleId /\ CallOK' /\ LibrariesKnown'
          /\ reader' = reader
      BY <1>2, CallerTypeStep
    <2> QED BY <1>0, <2>1, <2>2 DEF LifecycleTypeOK, CallOK
  <1>3. ASSUME LifecycleNext, NEW r \in Reader, Pin(r) \/ Enter(r) \/ Unpin(r) PROVE LifecycleTypeOK'
    <2>1. TypeOK' BY <1>3, StoreTypeStep
    <2>2. UNCHANGED <<bundle_manifests, call, opened>> BY <1>3 DEF Pin, Enter, Unpin, loader
    <2>3. LoaderTypeOK' BY <1>3, UnpinFacts DEF Pin, Enter, loader, LifecycleTypeOK, LoaderTypeOK
    <2>4. reader' \in [Reader -> [phase : {"out", "pinned", "calling"}, image : Image]]
      <3>0. reader \in [Reader -> [phase : {"out", "pinned", "calling"}, image : Image]] BY DEF LifecycleTypeOK
      <3>1. CASE Pin(r) BY <3>0, <3>1 DEF Pin
      <3>2. CASE Enter(r)
        <4>1. PICK c \in GuestContractId : \E s \in guest_contract_index[c] :
                /\ tenant[s] # Vacant
                /\ reader' = [reader EXCEPT ![r] = [phase |-> "calling", image |-> tenant[s].image]]
          BY <3>2 DEF Enter
        <4>2. PICK s \in guest_contract_index[c] :
                /\ tenant[s] # Vacant
                /\ reader' = [reader EXCEPT ![r] = [phase |-> "calling", image |-> tenant[s].image]]
          BY <4>1
        <4>3. tenant[s].image \in Image BY <4>2 DEF LifecycleTypeOK, TypeOK, Tenant
        <4> QED BY <3>0, <4>2, <4>3
      <3>3. CASE Unpin(r)
        <4>1. 0 \in Image BY RegistryAssumption DEF Image
        <4> QED BY <3>0, <3>3, <4>1 DEF Unpin
      <3> QED BY <1>3, <3>1, <3>2, <3>3
    <2> QED BY <1>0, <2>1, <2>2, <2>3, <2>4 DEF LifecycleTypeOK, LibrariesKnown
  <1>4. ASSUME LifecycleNext, NEW d \in deferred, Dlclose(d) PROVE LifecycleTypeOK'
    <2>1. TypeOK' BY <1>4, StoreTypeStep
    <2>2. UNCHANGED <<bundle_manifests, call, reader>> BY <1>4 DEF Dlclose
    <2>3. LoaderTypeOK' /\ opened' = opened BY <1>4, DlcloseFacts DEF LifecycleTypeOK
    <2> QED BY <1>0, <2>1, <2>2, <2>3 DEF LifecycleTypeOK, LibrariesKnown
  <1> QED BY <1>1, <1>2, <1>3, <1>4 DEF LifecycleNext

\* The initial state is well typed.
LEMMA LifecycleTypeInit == LifecycleInit => LifecycleTypeOK
  <1> SUFFICES ASSUME LifecycleInit PROVE LifecycleTypeOK OBVIOUS
  <1>1. TypeOK BY TypeInit DEF LifecycleInit
  <1>2. 0 \in Image BY RegistryAssumption DEF Image
  <1>3. LoaderTypeOK BY <1>2, LifecycleAssumption DEF LifecycleInit, LoaderTypeOK
  <1> QED BY <1>1, <1>2, <1>3 DEF LifecycleInit, LifecycleTypeOK, LibrariesKnown

\* Under every interleaving of loads, unloads, reloads and calls, registry,
\* loader, calls and readers stay well typed; in particular a call that has
\* opened a library still knows it when it installs it.
THEOREM LifecycleTypeCorrect == LifecycleSpec => []LifecycleTypeOK
  <1>1. LifecycleTypeOK /\ [LifecycleNext]_lifecycleVars => LifecycleTypeOK' BY LifecycleTypeStep
  <1> QED BY <1>1, LifecycleTypeInit, PTL DEF LifecycleSpec

-----------------------------------------------------------------------------
(***************************************************************************)
(* Every library is in one place, under every interleaving.                *)
(***************************************************************************)

\* A step that leaves the libraries and the calls that run init alone keeps
\* every library where it is.
LEMMA AccountKept ==
  ASSUME LibraryAccounted, UNCHANGED <<libraries, opened, deferred, closed>>,
         InInit' = InInit, \A t \in InInit : call'[t].library = call[t].library
  PROVE  LibraryAccounted'
  <1>1. InHand' = InHand BY DEF InHand
  <1>2. Installed' = Installed /\ Waiting' = Waiting BY DEF Installed, Waiting
  <1> QED BY <1>1, <1>2 DEF LibraryAccounted

\* The libraries that wait, after one more is scheduled.
LEMMA WaitingMore ==
  ASSUME NEW S, NEW l, NEW P
  PROVE  {d.library : d \in S \cup {[library |-> l, pins |-> P]}} = {d.library : d \in S} \cup {l}
  <1> DEFINE e == [library |-> l, pins |-> P]
  <1>1. e.library = l OBVIOUS
  <1> HIDE DEF e
  <1>2. {d.library : d \in S \cup {e}} = {d.library : d \in S} \cup {e.library} OBVIOUS
  <1> QED BY <1>1, <1>2, Zenon DEF e

\* The calls that run init, after a step of caller t.
LEMMA InitAfter ==
  ASSUME NEW t \in Caller, OthersSame(t)
  PROVE  /\ InInit' = (InInit \ {t}) \cup {u \in {t} : call'[t] # NoCall /\ call'[t].phase = "init"}
         /\ \A u \in InInit \ {t} : call'[u].library = call[u].library
  BY DEF InInit, OthersSame

\* A library that was opened is in the hand of its call.
LEMMA OpenAccounts ==
  ASSUME LifecycleTypeOK, LibraryAccounted, NEW t \in Caller, LoadOpens(t) \/ ReloadOpens(t)
  PROVE  LibraryAccounted'
  <1>0. CallOK /\ LoaderTypeOK BY DEF LifecycleTypeOK, CallOK
  <1>1. /\ \E op : \E from \in {"staged", "preparing"} : Moves(t, op, from, "init")
        /\ call'[t].library = opened + 1
    BY LoadMoves, ReloadMoves
  <1>2. PICK i \in Image : Dlopen(call[t].bundle_id, i) BY Zenon DEF LoadOpens, ReloadOpens
  <1>3. call[t].bundle_id \in BundleId BY <1>0, <1>1, CallType DEF Moves
  <1>4. opened' = opened + 1 /\ opened \in Nat /\ UNCHANGED <<libraries, deferred, closed>>
    BY <1>0, <1>2, <1>3, DlopenFacts
  <1>5. t \notin InInit /\ InInit' = InInit \cup {t} /\ \A u \in InInit : call'[u].library = call[u].library
    BY <1>1, InitAfter DEF Moves, InInit
  <1>6. InHand' = InHand \cup {opened + 1} BY <1>1, <1>5 DEF InHand
  <1>7. Installed' = Installed /\ Waiting' = Waiting BY <1>4 DEF Installed, Waiting
  <1>8. 1 .. opened' = (1 .. opened) \cup {opened + 1} /\ opened + 1 \notin 1 .. opened BY <1>4
  <1>9. \A u \in InInit : call[u].library # opened + 1 BY <1>8 DEF LibraryAccounted, InHand
  <1>10. \A u, v \in InInit' : call'[u].library = call'[v].library => u = v
    BY <1>1, <1>5, <1>9 DEF LibraryAccounted
  <1> QED BY <1>4, <1>6, <1>7, <1>8, <1>10 DEF LibraryAccounted

\* An install moves the library from the call to the bundle, and the one it
\* supersedes to those that wait for dlclose.
LEMMA InstallAccounts ==
  ASSUME LifecycleTypeOK, LibraryAccounted, NEW t \in Caller, LoaderInstalls(t)
  PROVE  LibraryAccounted'
  <1> DEFINE b == call[t].bundle_id
             l == call[t].library
             old == libraries[b]
  <1>0. CallOK /\ LoaderTypeOK BY DEF LifecycleTypeOK, CallOK
  <1>1. (\E op : Moves(t, op, "init", "installed")) /\ KeepsRest(t) BY LoaderMoves
  <1>2. t \in InInit /\ b \in BundleId BY <1>0, <1>1, CallType DEF Moves, InInit
  <1>3. l \in InHand /\ l \in Library
    <2>1. l \in 1 .. opened BY <1>1 DEF LifecycleTypeOK, LibrariesKnown, Moves
    <2> QED BY <1>0, <1>2, <2>1, LifecycleAssumption DEF InHand, LoaderTypeOK, Library
  <1>4. Install(b, l) /\ UNCHANGED <<opened, mapping, latest>> BY Zenon DEF LoaderInstalls
  <1>5. /\ closed' = closed /\ opened' = opened /\ libraries'[b] = l
        /\ \A a \in BundleId \ {b} : libraries'[a] = libraries[a]
        /\ deferred' = IF old = NoLibrary THEN deferred ELSE deferred \cup {[library |-> old, pins |-> Pinned]}
    BY <1>0, <1>2, <1>3, <1>4, InstallFacts
  <1>6. InInit' = InInit \ {t} /\ \A u \in InInit' : call'[u].library = call[u].library
    BY <1>1, InitAfter DEF Moves
  <1>7. l # NoLibrary BY <1>3 DEF Library, NoLibrary
  <1> HIDE DEF b, l, old
  <1>8. InHand' = InHand \ {l}
    <2>1. \A u \in InInit : call[u].library = l => u = t BY <1>2 DEF LibraryAccounted, l
    <2>2. \A u \in InInit' : call[u].library # l BY <1>6, <2>1
    <2> QED BY <1>6, <2>2 DEF InHand, l
  <1>9. Installed' = (Installed \ {old}) \cup {l}
    <2>1. \A a \in BundleId : libraries[a] = old /\ a # b => old = NoLibrary BY <1>2 DEF LibraryAccounted, old
    <2>2. \A x : x \in Installed' <=> x = l \/ (x # NoLibrary /\ \E a \in BundleId \ {b} : x = libraries[a])
      BY <1>2, <1>5, <1>7 DEF Installed
    <2>3. \A x : x \in Installed <=> x # NoLibrary /\ \E a \in BundleId : x = libraries[a]
      BY DEF Installed
    <2>4. \A x : x \in Installed \ {old} => \E a \in BundleId \ {b} : x = libraries[a] BY <2>3 DEF old
    <2>5. \A a \in BundleId \ {b} : libraries[a] # NoLibrary => libraries[a] # old BY <2>1
    <2> QED BY <2>2, <2>3, <2>4, <2>5
  <1>10. Waiting' = Waiting \cup ({old} \ {NoLibrary})
    <2>1. CASE old = NoLibrary BY <1>5, <2>1 DEF Waiting
    <2>2. CASE old # NoLibrary
      <3>1. deferred' = deferred \cup {[library |-> old, pins |-> Pinned]} BY <1>5, <2>2
      <3>2. Waiting' = Waiting \cup {old} BY <3>1, WaitingMore, Zenon DEF Waiting
      <3> QED BY <2>2, <3>2
    <2> QED BY <2>1, <2>2
  <1>11. old # NoLibrary => old \in Installed BY <1>2 DEF Installed, old
  <1>12. \A u, v \in InInit' : call'[u].library = call'[v].library => u = v BY <1>6 DEF LibraryAccounted
  <1>13. \A a, c \in BundleId : libraries'[a] = libraries'[c] => a = c \/ libraries'[a] = NoLibrary
    <2>1. \A a \in BundleId \ {b} : libraries[a] # l
      BY <1>3, <1>7 DEF LibraryAccounted, Installed
    <2> QED BY <1>5, <2>1 DEF LibraryAccounted
  <1>14. \A d, e \in deferred' : d.library = e.library => d = e
    <2>1. CASE old = NoLibrary BY <1>5, <2>1 DEF LibraryAccounted
    <2>2. CASE old # NoLibrary
      <3>1. \A d \in deferred : d.library # old BY <1>11, <2>2 DEF LibraryAccounted, Waiting
      <3> QED BY <1>5, <2>2, <3>1 DEF LibraryAccounted
    <2> QED BY <2>1, <2>2
  <1>15. /\ 1 .. opened = InHand \cup Installed \cup Waiting \cup closed
        /\ InHand \cap (Installed \cup Waiting \cup closed) = {}
        /\ Installed \cap (Waiting \cup closed) = {}
        /\ Waiting \cap closed = {}
    BY DEF LibraryAccounted
  <1>16. (/\ 1 .. opened = InHand \cup Installed \cup Waiting \cup closed
          /\ InHand \cap (Installed \cup Waiting \cup closed) = {}
          /\ Installed \cap (Waiting \cup closed) = {}
          /\ Waiting \cap closed = {})'
    <2>2. NoLibrary \notin Installed BY DEF Installed
    <2>3. InHand' \cup Installed' \cup Waiting' \cup closed' = InHand \cup Installed \cup Waiting \cup closed
      BY <1>3, <1>5, <1>8, <1>9, <1>10, <1>11, <1>15, <2>2
    <2>4. (1 .. opened)' = 1 .. opened BY <1>5
    <2>5. (InHand \cap (Installed \cup Waiting \cup closed) = {})' BY <1>3, <1>5, <1>8, <1>9, <1>10, <1>11, <1>15
    <2>6. (Installed \cap (Waiting \cup closed) = {})' BY <1>3, <1>5, <1>9, <1>10, <1>11, <1>15, <2>2
    <2>7. (Waiting \cap closed = {})' BY <1>5, <1>10, <1>11, <1>15
    <2> QED BY <1>15, <2>3, <2>4, <2>5, <2>6, <2>7
  <1> QED BY <1>12, <1>13, <1>14, <1>16 DEF LibraryAccounted

\* A failed init moves the library from the call to those that wait for dlclose.
LEMMA FailAccounts ==
  ASSUME LifecycleTypeOK, LibraryAccounted, NEW t \in Caller, InitFails(t)
  PROVE  LibraryAccounted'
  <1> DEFINE l == call[t].library
  <1>0. CallOK /\ LoaderTypeOK BY DEF LifecycleTypeOK, CallOK
  <1>1. \E op : \E to \in {"cleanup", "failed"} : Moves(t, op, "init", to) BY LoaderMoves
  <1>2. t \in InInit BY <1>1 DEF Moves, InInit
  <1>3. l \in InHand /\ l \in Library
    <2>1. l \in 1 .. opened BY <1>1 DEF LifecycleTypeOK, LibrariesKnown, Moves
    <2> QED BY <1>0, <1>2, <2>1, LifecycleAssumption DEF InHand, LoaderTypeOK, Library
  <1>4. ScheduleReclaim(l) /\ UNCHANGED <<libraries, opened, mapping, latest>> BY Zenon DEF InitFails
  <1>5. closed' = closed /\ opened' = opened /\ deferred' = deferred \cup {[library |-> l, pins |-> Pinned]}
    BY <1>0, <1>3, <1>4, ScheduleFacts
  <1>6. InInit' = InInit \ {t} /\ \A u \in InInit' : call'[u].library = call[u].library
    BY <1>1, InitAfter DEF Moves
  <1> HIDE DEF l
  <1>7. InHand' = InHand \ {l}
    <2>1. \A u \in InInit : call[u].library = l => u = t BY <1>2 DEF LibraryAccounted, l
    <2>2. \A u \in InInit' : call[u].library # l BY <1>6, <2>1
    <2> QED BY <1>6, <2>2 DEF InHand, l
  <1>8. Installed' = Installed BY <1>4 DEF Installed
  <1>9. Waiting' = Waiting \cup {l} BY <1>5, WaitingMore DEF Waiting
  <1>10. \A u, v \in InInit' : call'[u].library = call'[v].library => u = v BY <1>6 DEF LibraryAccounted
  <1>11. \A d, e \in deferred' : d.library = e.library => d = e
    <2>1. \A d \in deferred : d.library # l BY <1>3 DEF LibraryAccounted, Waiting
    <2> QED BY <1>5, <2>1 DEF LibraryAccounted
  <1> QED BY <1>3, <1>4, <1>5, <1>7, <1>8, <1>9, <1>10, <1>11 DEF LibraryAccounted

\* The loader's unload moves the bundle's library to those that wait.
LEMMA UnloadAccounts ==
  ASSUME LifecycleTypeOK, LibraryAccounted, NEW t \in Caller, LoadCleansUp(t) \/ UnloadReclaims(t)
  PROVE  LibraryAccounted'
  <1> DEFINE b == call[t].bundle_id
             old == libraries[b]
  <1>0. CallOK /\ LoaderTypeOK BY DEF LifecycleTypeOK, CallOK
  <1>1. \E op : \E from \in {"cleanup", "reclaim"} : Ends(t, op, from) BY LoadMoves, UnloadMoves
  <1>2. b \in BundleId BY <1>0, <1>1, CallType DEF Ends
  <1>3. InInit' = InInit /\ \A u \in InInit : call'[u].library = call[u].library
    BY <1>1, InitAfter DEF Ends, InInit
  <1>4. CASE UNCHANGED loader BY <1>3, <1>4, AccountKept DEF loader
  <1>5. CASE LoaderUnload(b)
    <2>1. /\ closed' = closed /\ opened' = opened /\ libraries'[b] = NoLibrary
          /\ \A a \in BundleId \ {b} : libraries'[a] = libraries[a]
          /\ deferred' = IF old = NoLibrary THEN deferred ELSE deferred \cup {[library |-> old, pins |-> Pinned]}
      BY <1>0, <1>2, <1>5, LoaderUnloadFacts
    <2>2. InHand' = InHand BY <1>3 DEF InHand
    <2> HIDE DEF b, old
    <2>3. Installed' = Installed \ {old}
      <3>1. \A a \in BundleId : libraries[a] = old /\ a # b => old = NoLibrary BY <1>2 DEF LibraryAccounted, old
      <3>2. \A x : x \in Installed' <=> x # NoLibrary /\ \E a \in BundleId \ {b} : x = libraries[a]
        BY <1>2, <2>1 DEF Installed
      <3>3. \A x : x \in Installed <=> x # NoLibrary /\ \E a \in BundleId : x = libraries[a]
        BY DEF Installed
      <3>4. \A x : x \in Installed \ {old} => \E a \in BundleId \ {b} : x = libraries[a] BY <3>3 DEF old
      <3>5. \A a \in BundleId \ {b} : libraries[a] # NoLibrary => libraries[a] # old BY <3>1
      <3> QED BY <3>2, <3>3, <3>4, <3>5
    <2>4. Waiting' = Waiting \cup ({old} \ {NoLibrary})
      <3>1. CASE old = NoLibrary BY <2>1, <3>1 DEF Waiting
      <3>2. CASE old # NoLibrary
        <4>1. deferred' = deferred \cup {[library |-> old, pins |-> Pinned]} BY <2>1, <3>2
        <4>2. Waiting' = Waiting \cup {old} BY <4>1, WaitingMore, Zenon DEF Waiting
        <4> QED BY <3>2, <4>2
      <3> QED BY <3>1, <3>2
    <2>5. old # NoLibrary => old \in Installed BY <1>2 DEF Installed, old
    <2>6. \A u, v \in InInit' : call'[u].library = call'[v].library => u = v BY <1>3 DEF LibraryAccounted
    <2>7. \A a, c \in BundleId : libraries'[a] = libraries'[c] => a = c \/ libraries'[a] = NoLibrary
      BY <2>1 DEF LibraryAccounted
    <2>8. \A d, e \in deferred' : d.library = e.library => d = e
      <3>1. CASE old = NoLibrary BY <2>1, <3>1 DEF LibraryAccounted
      <3>2. CASE old # NoLibrary
        <4>1. \A d \in deferred : d.library # old BY <2>5, <3>2 DEF LibraryAccounted, Waiting
        <4> QED BY <2>1, <3>2, <4>1 DEF LibraryAccounted
      <3> QED BY <3>1, <3>2
    <2>9. /\ 1 .. opened = InHand \cup Installed \cup Waiting \cup closed
          /\ InHand \cap (Installed \cup Waiting \cup closed) = {}
          /\ Installed \cap (Waiting \cup closed) = {}
          /\ Waiting \cap closed = {}
      BY DEF LibraryAccounted
    <2>10. NoLibrary \notin Installed BY DEF Installed
    <2>11. (1 .. opened = InHand \cup Installed \cup Waiting \cup closed)'
      BY <2>1, <2>2, <2>3, <2>4, <2>5, <2>9, <2>10
    <2>12. (InHand \cap (Installed \cup Waiting \cup closed) = {})' BY <2>1, <2>2, <2>3, <2>4, <2>5, <2>9
    <2>13. (Installed \cap (Waiting \cup closed) = {})' BY <2>1, <2>3, <2>4, <2>5, <2>9
    <2>14. (Waiting \cap closed = {})' BY <2>1, <2>4, <2>5, <2>9
    <2> QED BY <2>6, <2>7, <2>8, <2>11, <2>12, <2>13, <2>14 DEF LibraryAccounted
  <1> QED BY <1>4, <1>5 DEF LoadCleansUp, UnloadReclaims

\* Every other step of a caller leaves the libraries alone.
LEMMA OtherCallsAccount ==
  ASSUME LifecycleTypeOK, LibraryAccounted, NEW t \in Caller,
         \/ LoadStep(t) /\ ~LoadOpens(t) /\ ~LoadCleansUp(t)
         \/ UnloadStep(t) /\ ~UnloadReclaims(t)
         \/ ReloadCallStep(t) /\ ~ReloadOpens(t)
  PROVE  LibraryAccounted'
  <1> DEFINE Quiet == /\ OthersSame(t)
                      /\ \/ /\ call[t] = NoCall \/ call[t].phase # "init"
                            /\ call'[t] = NoCall \/ call'[t].phase # "init"
                         \/ call'[t] = call[t]
  <1>1. UNCHANGED loader
    BY Zenon DEF LoadStep, UnloadStep, ReloadCallStep, LoadBegins, LoadOpenFails, LoadCommits, LoadCommitFails,
           LoadRecordsManifest, UnloadBegins, UnloadNotifies, UnloadInvalidates, UnloadForgets,
           ReloadBegins, ReloadOpenFails, InitRegisters, ReloadSwaps, ReloadSwapFails, ReloadAborts
  <1>2. ASSUME NEW b \in BundleId, LoadBegins(t, b) \/ UnloadBegins(t, b) \/ ReloadBegins(t, b) PROVE Quiet
    BY <1>2, LoadMoves, UnloadMoves, ReloadMoves DEF Begins
  <1>3. ASSUME LoadOpenFails(t) \/ LoadCommits(t) \/ LoadCommitFails(t) \/ UnloadNotifies(t)
               \/ UnloadInvalidates(t) \/ UnloadForgets(t) \/ ReloadOpenFails(t)
        PROVE  Quiet
    BY <1>3, LoadMoves, UnloadMoves, ReloadMoves DEF Moves
  <1>4. ASSUME LoadRecordsManifest(t) \/ ReloadSwaps(t) \/ ReloadSwapFails(t) \/ ReloadAborts(t) PROVE Quiet
    BY <1>4, LoadMoves, ReloadMoves DEF Ends
  <1>5. ASSUME InitRegisters(t) PROVE Quiet
    <2>1. call' = call BY <1>5, Zenon DEF InitRegisters
    <2> QED BY <2>1 DEF OthersSame
  <1> HIDE DEF Quiet
  <1>6. Quiet BY <1>2, <1>3, <1>4, <1>5 DEF LoadStep, UnloadStep, ReloadCallStep
  <1>7. InInit' = InInit /\ \A u \in InInit : call'[u].library = call[u].library
    BY <1>6, InitAfter DEF Quiet, InInit
  <1> QED BY <1>1, <1>7, AccountKept DEF loader

\* Readers and the deferred dlclose.
LEMMA ReadersAccount ==
  ASSUME LifecycleTypeOK, LibraryAccounted,
         \/ \E r \in Reader : Pin(r) \/ Enter(r) \/ Unpin(r)
         \/ \E d \in deferred : Dlclose(d)
  PROVE  LibraryAccounted'
  <1>0. LoaderTypeOK BY DEF LifecycleTypeOK
  <1>1. call' = call BY DEF Pin, Enter, Unpin, Dlclose
  <1>2. InInit' = InInit /\ InHand' = InHand BY <1>1 DEF InInit, InHand
  <1>3. ASSUME NEW r \in Reader, Pin(r) \/ Enter(r) PROVE LibraryAccounted'
    <2>1. UNCHANGED <<libraries, opened, deferred, closed>> BY <1>3 DEF Pin, Enter, loader
    <2> QED BY <1>1, <1>2, <2>1, AccountKept
  <1>4. ASSUME NEW r \in Reader, Unpin(r) PROVE LibraryAccounted'
    <2>1. /\ UNCHANGED <<libraries, opened, mapping, closed>>
          /\ \A d \in deferred : \E e \in deferred' : e.library = d.library /\ e.pins = d.pins \ {r}
          /\ \A e \in deferred' : \E d \in deferred : e.library = d.library /\ e.pins = d.pins \ {r}
          /\ \A d, e \in deferred' : d.library = e.library /\ d.pins = e.pins => d = e
      BY <1>0, <1>4, UnpinFacts
    <2>2. Waiting' = Waiting BY <2>1 DEF Waiting
    <2>3. Installed' = Installed BY <2>1 DEF Installed
    <2>4. \A d, e \in deferred' : d.library = e.library => d = e
      <3> SUFFICES ASSUME NEW d \in deferred', NEW e \in deferred', d.library = e.library PROVE d = e OBVIOUS
      <3>1. PICK d0 \in deferred : d.library = d0.library /\ d.pins = d0.pins \ {r} BY <2>1
      <3>2. PICK e0 \in deferred : e.library = e0.library /\ e.pins = e0.pins \ {r} BY <2>1
      <3>3. d0 = e0 BY <3>1, <3>2 DEF LibraryAccounted
      <3>4. d.pins = e.pins BY <3>1, <3>2, <3>3
      <3> QED BY <2>1, <3>4
    <2> QED BY <1>1, <1>2, <2>1, <2>2, <2>3, <2>4 DEF LibraryAccounted
  <1>5. ASSUME NEW d \in deferred, Dlclose(d) PROVE LibraryAccounted'
    <2>1. /\ UNCHANGED <<libraries, opened>> /\ deferred' = deferred \ {d}
          /\ closed' = closed \cup {d.library}
      BY <1>0, <1>5, DlcloseFacts
    <2>2. Installed' = Installed BY <2>1 DEF Installed
    <2>3. \A e \in deferred : e.library = d.library => e = d BY DEF LibraryAccounted
    <2>4. d.library \in Waiting /\ Waiting' = Waiting \ {d.library} BY <2>1, <2>3 DEF Waiting
    <2> QED BY <1>1, <1>2, <2>1, <2>2, <2>4 DEF LibraryAccounted
  <1> QED BY <1>3, <1>4, <1>5

\* LibraryAccounted is inductive with the types.
LEMMA AccountStep ==
  ASSUME LifecycleTypeOK, LibraryAccounted, [LifecycleNext]_lifecycleVars
  PROVE  LibraryAccounted'
  <1>1. CASE UNCHANGED lifecycleVars
    <2>1. UNCHANGED <<libraries, opened, deferred, closed, call>> BY <1>1 DEF lifecycleVars, loader
    <2>2. InInit' = InInit BY <2>1 DEF InInit
    <2> QED BY <2>1, <2>2, AccountKept
  <1>2. CASE LifecycleNext
    BY <1>2, OpenAccounts, InstallAccounts, FailAccounts, UnloadAccounts, OtherCallsAccount, ReadersAccount
    DEF LifecycleNext, LoadStep, UnloadStep, ReloadCallStep
  <1> QED BY <1>1, <1>2

\* Nothing is opened initially.
LEMMA AccountInit == LifecycleInit => LibraryAccounted
  <1> SUFFICES ASSUME LifecycleInit PROVE LibraryAccounted OBVIOUS
  <1>1. InInit = {} /\ InHand = {} BY DEF LifecycleInit, InInit, InHand
  <1>2. Installed = {} /\ Waiting = {} BY DEF LifecycleInit, Installed, Waiting
  <1>3. 1 .. 0 = {} OBVIOUS
  <1> QED BY <1>1, <1>2, <1>3 DEF LifecycleInit, LibraryAccounted

\* Every library the loader opened is with the call that runs its init,
\* installed, waiting for dlclose or closed, and in one of these places only:
\* none is lost and none is closed twice, for any number of callers, with and
\* without hot reload (load_inner, schedule_reclaim, NativeLoader::unload).
THEOREM LibrariesAccounted == LifecycleSpec => []LibraryAccounted
  <1>1. LifecycleTypeOK /\ LibraryAccounted /\ [LifecycleNext]_lifecycleVars => LibraryAccounted' BY AccountStep
  <1> QED BY <1>1, AccountInit, LifecycleTypeCorrect, PTL DEF LifecycleSpec

-----------------------------------------------------------------------------
(***************************************************************************)
(* Where no two callers work on one bundle: the slots of a bundle and the  *)
(* library the loader has installed for it.                                *)
(***************************************************************************)

\* A call of another kind is not on the bundle that is being reloaded.
LEMMA NotTheReload ==
  ASSUME CallersApart, CallsTracked, NEW t \in Caller, call[t] # NoCall, call[t].op # "reload"
  PROVE  NotReloading(call[t].bundle_id)
  <1> SUFFICES ASSUME reload # Idle PROVE reload.bundle_id # call[t].bundle_id BY DEF NotReloading
  <1>1. PICK u \in Caller : call[u] # NoCall /\ call[u].op = "reload" BY DEF CallsTracked
  <1>2. u # t /\ reload.bundle_id = call[u].bundle_id BY <1>1 DEF CallsTracked, CallTracked
  <1>3. call[u].bundle_id \in Manages[u] /\ call[t].bundle_id \in Manages[t] BY <1>1 DEF CallsTracked, CallTracked
  <1> QED BY <1>2, <1>3 DEF CallersApart

\* At most one caller reloads.
LEMMA OneReloads ==
  ASSUME CallersApart, CallsTracked, NEW t \in Caller, call[t] # NoCall, call[t].op = "reload",
         NEW u \in Caller, call[u] # NoCall, call[u].op = "reload"
  PROVE  u = t
  <1>1. call[u].bundle_id = call[t].bundle_id BY DEF CallsTracked, CallTracked
  <1>2. call[u].bundle_id \in Manages[u] /\ call[t].bundle_id \in Manages[t] BY DEF CallsTracked, CallTracked
  <1> QED BY <1>1, <1>2 DEF CallersApart

\* What a commit does to the registry.
LEMMA CommitEffect ==
  ASSUME LifecycleTypeOK, StoreInv, CallersApart, CallsTracked, NEW t \in Caller, LoadCommits(t), TypeOK'
  PROVE  LET b == call[t].bundle_id
         IN  /\ StoreInv' /\ reload' = reload /\ bundle_data' = bundle_data \cup {b}
             /\ image'[b] = mapping[call[t].library]
             /\ \A a \in BundleId \ {b} : image'[a] = image[a] /\ plugin_slots'[a] = plugin_slots[a]
  <1> DEFINE b == call[t].bundle_id
  <1>1. Moves(t, "load", "installed", "published") BY LoadMoves
  <1>2. b \in BundleId BY <1>1, CallType DEF LifecycleTypeOK, CallOK, Moves
  <1>3. call[t].library \in Library
    BY <1>1, LifecycleAssumption DEF LifecycleTypeOK, LibrariesKnown, LoaderTypeOK, Library, Moves
  <1>4. mapping[call[t].library] \in Image BY <1>3 DEF LifecycleTypeOK, LoaderTypeOK
  <1>5. PICK S \in SUBSET Free : \E occ \in [S -> Plugin], deps \in DependencySets :
          RegisterPreparedBundle(b, occ, deps, mapping[call[t].library])
    BY DEF LoadCommits
  <1>6. PICK occ \in [S -> Plugin], deps \in DependencySets :
          RegisterPreparedBundle(b, occ, deps, mapping[call[t].library])
    BY <1>5
  <1>7. NotReloading(b) BY <1>1, NotTheReload DEF Moves
  <1>8. StoreInv' BY <1>2, <1>4, <1>6, <1>7, LoadKeepsInv
  <1>9. /\ reload' = reload /\ bundle_data' = bundle_data \cup {b}
        /\ image'[b] = mapping[call[t].library]
        /\ \A a \in BundleId \ {b} : image'[a] = image[a] /\ plugin_slots'[a] = plugin_slots[a]
    BY <1>2, <1>6 DEF RegisterPreparedBundle, Insert, LifecycleTypeOK, TypeOK
  <1> QED BY <1>8, <1>9

\* What an unload does to the registry.
LEMMA InvalidateEffect ==
  ASSUME LifecycleTypeOK, StoreInv, CallersApart, CallsTracked, NEW t \in Caller, UnloadInvalidates(t), TypeOK'
  PROVE  LET b == call[t].bundle_id
         IN  /\ StoreInv' /\ reload' = reload /\ bundle_data' = bundle_data \ {b} /\ image' = image
             /\ \A a \in BundleId \ {b} : plugin_slots'[a] = plugin_slots[a]
  <1> DEFINE b == call[t].bundle_id
  <1>1. Moves(t, "unload", "notified", "forget") BY UnloadMoves
  <1>2. b \in BundleId BY <1>1, CallType DEF LifecycleTypeOK, CallOK, Moves
  <1>3. NotReloading(b) BY <1>1, NotTheReload DEF Moves
  <1>4. CASE InvalidateBundle(b)
    <2>1. StoreInv' BY <1>2, <1>3, <1>4, InvalidateKeepsInv
    <2>2. /\ reload' = reload /\ bundle_data' = bundle_data \ {b} /\ image' = image
          /\ \A a \in BundleId \ {b} : plugin_slots'[a] = plugin_slots[a]
      BY <1>2, <1>4 DEF InvalidateBundle, LifecycleTypeOK, TypeOK
    <2> QED BY <2>1, <2>2
  <1>5. CASE b \notin bundle_data /\ UNCHANGED vars
    <2>1. StoreInv' BY <1>5, StoreInvStep
    <2> QED BY <1>5, <2>1 DEF vars, store
  <1> QED BY <1>4, <1>5 DEF UnloadInvalidates

\* What the beginning of a reload does to the registry.
LEMMA SnapshotEffect ==
  ASSUME LifecycleTypeOK, StoreInv, NEW t \in Caller, NEW b \in BundleId, ReloadBegins(t, b), TypeOK'
  PROVE  /\ StoreInv' /\ UNCHANGED <<plugin_slots, image, bundle_data>>
         /\ reload = Idle /\ reload' # Idle /\ reload'.phase = "preparing" /\ reload'.bundle_id = b
         /\ reload'.old_slots = plugin_slots[b]
  <1>1. SnapshotSlots(b) BY DEF ReloadBegins
  <1>2. StoreInv' BY <1>1, SnapshotKeepsInv
  <1>3. /\ UNCHANGED <<plugin_slots, image, bundle_data>> /\ reload = Idle
        /\ reload'.phase = "preparing" /\ reload'.bundle_id = b /\ reload'.old_slots = plugin_slots[b]
    BY <1>1 DEF SnapshotSlots, store
  <1> QED BY <1>2, <1>3 DEF Idle

\* What the opening of the window does to the registry.
LEMMA BeginEffect ==
  ASSUME StoreInv, NEW i \in Image, BeginReload(i), TypeOK'
  PROVE  /\ StoreInv' /\ UNCHANGED <<plugin_slots, image, bundle_data>>
         /\ reload' # Idle /\ reload'.phase = "open" /\ reload'.bundle_id = reload.bundle_id
         /\ reload'.old_slots = reload.old_slots /\ reload'.image = i
  <1>1. StoreInv' BY BeginKeepsInv
  <1>2. reload \in Reload BY DEF BeginReload, StoreInv, TypeOK, Idle
  <1>3. /\ reload'.phase = "open" /\ reload'.bundle_id = reload.bundle_id
        /\ reload'.old_slots = reload.old_slots /\ reload'.image = i
    BY <1>2 DEF BeginReload, Reload
  <1> QED BY <1>1, <1>3 DEF BeginReload, Idle

\* What a registration of the new version does to the registry.
LEMMA RegisterEffect ==
  ASSUME LifecycleTypeOK, StoreInv, CallsTracked, NEW t \in Caller, InitRegisters(t), TypeOK'
  PROVE  LET b == call[t].bundle_id
         IN  /\ StoreInv' /\ bundle_data' = bundle_data \cup {b} /\ image' = image
             /\ \A a \in BundleId \ {b} : plugin_slots'[a] = plugin_slots[a]
             /\ reload' # Idle /\ reload'.phase = reload.phase /\ reload'.bundle_id = reload.bundle_id
             /\ reload'.old_slots = reload.old_slots /\ reload'.image = reload.image
  <1> DEFINE b == call[t].bundle_id
  <1>1. Moves(t, "reload", "init", "init") BY ReloadMoves
  <1>2. b \in BundleId BY <1>1, CallType DEF LifecycleTypeOK, CallOK, Moves
  <1>3. reload \in Reload /\ reload.bundle_id = b /\ reload.phase # "preparing"
    BY <1>1 DEF Moves, CallsTracked, CallTracked, LifecycleTypeOK, TypeOK
  <1>4. InitRunning(b) BY <1>3 DEF InitRunning, Reload
  <1>5. Register(b) BY DEF InitRegisters
  <1>6. StoreInv' BY <1>2, <1>4, <1>5, RegisterKeepsInv
  <1>7. PICK p \in Plugin, s \in Free : RegisterGuestContract(b, p, s) BY <1>5 DEF Register
  <1>8. reload' = [reload EXCEPT !.new_contracts = @ \cup {ContractIdOf[p]}]
    BY <1>4, <1>7 DEF RegisterGuestContract
  <1>9. /\ reload'.phase = reload.phase /\ reload'.bundle_id = reload.bundle_id
        /\ reload'.old_slots = reload.old_slots /\ reload'.image = reload.image
    BY <1>3, <1>8 DEF Reload
  <1>10. reload' # Idle BY <1>3, <1>9 DEF Idle, Reload
  <1>11. /\ bundle_data' = bundle_data \cup {b} /\ image' = image
         /\ \A a \in BundleId \ {b} : plugin_slots'[a] = plugin_slots[a]
    BY <1>2, <1>7 DEF RegisterGuestContract, Insert, LifecycleTypeOK, TypeOK
  <1> QED BY <1>6, <1>9, <1>10, <1>11

\* What a successful swap does to the registry.
LEMMA SwapEffect ==
  ASSUME StoreInv, SwapSucceeds, TypeOK'
  PROVE  /\ StoreInv' /\ reload' = Idle /\ bundle_data' = bundle_data
         /\ image'[reload.bundle_id] = reload.image
         /\ \A a \in BundleId \ {reload.bundle_id} : image'[a] = image[a] /\ plugin_slots'[a] = plugin_slots[a]
  <1>1. StoreInv' BY SwapKeepsInv
  <1>2. reload \in Reload /\ reload.bundle_id \in BundleId BY DEF SwapSucceeds, StoreInv, TypeOK, Idle, Reload
  <1>3. PICK S \in SUBSET reload.old_slots : \E m \in [S -> NewSlots], deps \in DependencySets : ApplyReloadSwap(m, deps)
    BY DEF SwapSucceeds
  <1>4. PICK m \in [S -> NewSlots], deps \in DependencySets : ApplyReloadSwap(m, deps) BY <1>3
  <1>5. /\ reload' = Idle /\ bundle_data' = bundle_data
        /\ image' = [image EXCEPT ![reload.bundle_id] = reload.image]
        /\ plugin_slots' = [plugin_slots EXCEPT ![reload.bundle_id] = @ \ Gone(reload.old_slots, m)]
    BY <1>4 DEF ApplyReloadSwap, Swap
  <1> QED BY <1>1, <1>2, <1>5 DEF StoreInv, TypeOK

\* A swap that fails is that of a bundle that is not loaded.
LEMMA SwapFailEffect ==
  ASSUME StoreInv, SwapFails, TypeOK'
  PROVE  /\ StoreInv' /\ reload' = Idle /\ bundle_data' = bundle_data
         /\ plugin_slots'[reload.bundle_id] = {}
         /\ \A a \in BundleId \ {reload.bundle_id} : image'[a] = image[a] /\ plugin_slots'[a] = plugin_slots[a]
  <1>1. StoreInv' BY FailKeepsInv
  <1>2. reload \in Reload /\ reload.bundle_id \in BundleId BY DEF SwapFails, StoreInv, TypeOK, Idle, Reload
  <1>3. PICK done \in SUBSET reload.old_slots : \E S \in SUBSET done : \E m \in [S -> NewSlots] : FailReloadSwap(done, m)
    BY DEF SwapFails
  <1>4. PICK S \in SUBSET done : \E m \in [S -> NewSlots] : FailReloadSwap(done, m) BY <1>3
  <1>5. PICK m \in [S -> NewSlots] : FailReloadSwap(done, m) BY <1>4
  <1>6. /\ reload' = Idle /\ bundle_data' = bundle_data
        /\ image' = [image EXCEPT ![reload.bundle_id] = reload.image]
        /\ plugin_slots' = [plugin_slots EXCEPT ![reload.bundle_id] = @ \ Gone(done, m)]
    BY <1>5 DEF FailReloadSwap, Swap
  <1>7. reload.bundle_id \notin bundle_data
    <2>1. \A s \in reload.old_slots : tenant[s] # Vacant
      BY <1>2, WindowFacts DEF SwapFails
    <2> QED BY <1>5, <2>1 DEF FailReloadSwap
  <1>8. plugin_slots'[reload.bundle_id] = {} BY <1>1, <1>2, <1>6, <1>7 DEF StoreInv, ReloadWindow
  <1> QED BY <1>1, <1>2, <1>6, <1>8 DEF StoreInv, TypeOK

\* What an abort does to the registry.
LEMMA AbortEffect ==
  ASSUME StoreInv, AbortReload, TypeOK'
  PROVE  /\ StoreInv' /\ reload' = Idle /\ bundle_data' = bundle_data /\ image' = image
         /\ plugin_slots'[reload.bundle_id] = reload.old_slots
         /\ \A a \in BundleId \ {reload.bundle_id} : plugin_slots'[a] = plugin_slots[a]
  <1>1. StoreInv' BY AbortKeepsInv
  <1>2. reload \in Reload /\ reload.bundle_id \in BundleId BY DEF AbortReload, StoreInv, TypeOK, Idle, Reload
  <1>3. reload.old_slots \subseteq plugin_slots[reload.bundle_id] BY <1>2, WindowFacts DEF AbortReload
  <1>4. /\ reload' = Idle /\ bundle_data' = bundle_data /\ image' = image
        /\ plugin_slots' = [plugin_slots EXCEPT ![reload.bundle_id] = @ \ NewSlots]
    BY DEF AbortReload
  <1>5. plugin_slots[reload.bundle_id] \ NewSlots = reload.old_slots BY <1>3 DEF NewSlots
  <1> QED BY <1>1, <1>2, <1>4, <1>5 DEF StoreInv, TypeOK

\* A step of caller t on its bundle b leaves the other callers' bundles alone.
OwnStep(t, b) ==
  /\ b \in BundleId /\ b \in Manages[t]
  /\ call[t] # NoCall => call[t].bundle_id = b
  /\ call'[t] # NoCall => call'[t].bundle_id = b
  /\ OthersSame(t)
  /\ \A a \in BundleId \ {b} :
       /\ plugin_slots'[a] = plugin_slots[a] /\ image'[a] = image[a] /\ libraries'[a] = libraries[a]
       /\ a \in bundle_data' <=> a \in bundle_data
       /\ a \in bundle_manifests' <=> a \in bundle_manifests
  /\ opened' \in Nat /\ opened <= opened' /\ \A l \in 1 .. opened : mapping'[l] = mapping[l]
  /\ \/ reload' = reload
     \/ \A u \in Caller \ {t} : call[u] # NoCall => call[u].op # "reload"

\* What the step owes for its own call and bundle.
OwnInv(t, b) ==
  /\ CallTracked(t)' /\ CallBacked(t)' /\ BundleBacked(b)' /\ StoreInv'
  /\ reload' # Idle => \/ call'[t] # NoCall /\ call'[t].op = "reload"
                       \/ reload' = reload /\ ~(call[t] # NoCall /\ call[t].op = "reload")

\* No other caller works on a bundle of t's.
LEMMA Lone ==
  ASSUME CallersApart, CallsTracked, NEW t \in Caller, NEW b \in Manages[t],
         NEW u \in Caller, u # t, call[u] # NoCall
  PROVE  call[u].bundle_id # b /\ call[u].bundle_id \in Manages[u]
  <1>1. call[u].bundle_id \in Manages[u] BY DEF CallsTracked, CallTracked
  <1> QED BY <1>1 DEF CallersApart

\* Whether a bundle is settled is up to its caller, before and after its step.
LEMMA SettledFacts ==
  ASSUME CallersApart, CallsTracked, NEW t \in Caller, NEW b, OwnStep(t, b)
  PROVE  /\ Settled(b) <=> (call[t] # NoCall => call[t].phase \in {"published", "checked", "notified"})
         /\ Settled(b)' <=> (call'[t] # NoCall => call'[t].phase \in {"published", "checked", "notified"})
         /\ \A u \in Caller : call[u] # NoCall /\ call[u].bundle_id = b => u = t
         /\ \A u \in Caller : call'[u] # NoCall /\ call'[u].bundle_id = b => u = t
  <1>1. \A u \in Caller : u # t /\ call[u] # NoCall => call[u].bundle_id # b BY Lone DEF OwnStep
  <1>2. \A u \in Caller : u # t /\ call'[u] # NoCall => call'[u].bundle_id # b BY <1>1 DEF OwnStep, OthersSame
  <1>3. (call[t] # NoCall => call[t].bundle_id = b) /\ (call'[t] # NoCall => call'[t].bundle_id = b) BY DEF OwnStep
  <1>4. Settled(b) <=> (call[t] # NoCall => call[t].phase \in {"published", "checked", "notified"})
    BY <1>1, <1>3 DEF Settled
  <1>5. Settled(b)' <=> (call'[t] # NoCall => call'[t].phase \in {"published", "checked", "notified"})
    BY <1>2, <1>3 DEF Settled
  <1> QED BY <1>1, <1>2, <1>4, <1>5

\* An installed library is one of those opened.
LEMMA InstalledOpened ==
  ASSUME LibraryAccounted, NEW b \in BundleId, libraries[b] # NoLibrary
  PROVE  libraries[b] \in 1 .. opened
  <1>1. libraries[b] \in Installed BY DEF Installed
  <1> QED BY <1>1 DEF LibraryAccounted

\* The other callers' part of the invariant.
LEMMA OthersKept ==
  ASSUME CallersApart, LifecycleInv, LifecycleTypeOK', NEW t \in Caller, NEW b, OwnStep(t, b), OwnInv(t, b)
  PROVE  CallsTracked' /\ SlotsBacked'
  <1>0. CallsTracked /\ SlotsBacked /\ LibraryAccounted /\ CallOK /\ LibrariesKnown
    BY DEF LifecycleInv, LifecycleTypeOK, CallOK
  <1>1. ASSUME NEW u \in Caller, u # t, call[u] # NoCall
        PROVE  /\ call'[u] = call[u] /\ call[u].bundle_id \in BundleId \ {b}
               /\ call[u].op = "reload" => reload' = reload
    <2>1. call'[u] = call[u] BY <1>1 DEF OwnStep, OthersSame
    <2>2. call[u].bundle_id \in BundleId BY <1>0, <1>1, CallType
    <2>3. call[u].bundle_id # b BY <1>0, <1>1, Lone DEF OwnStep
    <2>4. call[u].op = "reload" => reload' = reload BY <1>1 DEF OwnStep
    <2> QED BY <2>1, <2>2, <2>3, <2>4
  <1>2. ASSUME NEW a \in BundleId \ {b}, Backed(a) PROVE Backed(a)'
    <2>1. libraries[a] \in 1 .. opened BY <1>0, <1>2, InstalledOpened DEF Backed
    <2> QED BY <1>2, <2>1 DEF Backed, OwnStep
  <1>3. ASSUME NEW u \in Caller PROVE CallTracked(u)'
    <2>1. CASE u = t BY <2>1 DEF OwnInv
    <2>2. CASE u # t /\ call[u] = NoCall BY <2>2 DEF OwnStep, OthersSame, CallTracked
    <2>3. CASE u # t /\ call[u] # NoCall
      <3>1. CallTracked(u) BY <1>0 DEF CallsTracked
      <3> QED BY <1>1, <2>3, <3>1 DEF CallTracked
    <2> QED BY <2>1, <2>2, <2>3
  <1>4. ASSUME NEW u \in Caller PROVE CallBacked(u)'
    <2>1. CASE u = t BY <2>1 DEF OwnInv
    <2>2. CASE u # t /\ call[u] = NoCall BY <2>2 DEF OwnStep, OthersSame, CallBacked
    <2>3. CASE u # t /\ call[u] # NoCall
      <3>1. CallBacked(u) BY <1>0 DEF SlotsBacked
      <3> DEFINE a == call[u].bundle_id
      <3>2. /\ call'[u] = call[u] /\ a \in BundleId \ {b} /\ (call[u].op = "reload" => reload' = reload)
        BY <1>1, <2>3
      <3>3. /\ a \in bundle_data' <=> a \in bundle_data
            /\ a \in bundle_manifests' <=> a \in bundle_manifests
            /\ libraries'[a] = libraries[a]
        BY <3>2 DEF OwnStep
      <3>4. call[u].phase \in {"init", "installed"} => mapping'[call[u].library] = mapping[call[u].library]
        BY <1>0, <2>3 DEF LibrariesKnown, OwnStep
      <3>5. Backed(a) => Backed(a)' BY <1>2, <3>2
      <3>6. call'[u].bundle_id = a BY <3>2
      <3> HIDE DEF a
      <3> QED BY <2>3, <3>1, <3>2, <3>3, <3>4, <3>5, <3>6 DEF CallBacked, a
    <2> QED BY <2>1, <2>2, <2>3
  <1>5. ASSUME NEW a \in BundleId PROVE BundleBacked(a)'
    <2>1. CASE a = b BY <2>1 DEF OwnInv
    <2>2. CASE a # b
      <3> SUFFICES ASSUME Settled(a)', plugin_slots'[a] # {}
                   PROVE  /\ Backed(a)'
                          /\ \/ a \in bundle_manifests'
                             \/ \E u \in Caller : call'[u] # NoCall /\ call'[u].bundle_id = a /\ call'[u].phase = "published"
        BY DEF BundleBacked
      <3>1. \A u \in Caller : call[u] # NoCall /\ call[u].bundle_id = a => u # t /\ call'[u] = call[u]
        BY <2>2 DEF OwnStep, OthersSame
      <3>2. Settled(a) BY <3>1 DEF Settled
      <3>3. plugin_slots[a] # {} /\ (a \in bundle_manifests' <=> a \in bundle_manifests) BY <2>2 DEF OwnStep
      <3>4. /\ Backed(a)
            /\ \/ a \in bundle_manifests
               \/ \E u \in Caller : call[u] # NoCall /\ call[u].bundle_id = a /\ call[u].phase = "published"
        BY <1>0, <3>2, <3>3 DEF SlotsBacked, BundleBacked
      <3> QED BY <1>2, <2>2, <3>1, <3>3, <3>4
    <2> QED BY <2>1, <2>2
  <1>6. ASSUME reload' # Idle PROVE \E u \in Caller : call'[u] # NoCall /\ call'[u].op = "reload"
    <2>1. CASE call'[t] # NoCall /\ call'[t].op = "reload" BY <2>1
    <2>2. CASE reload' = reload /\ ~(call[t] # NoCall /\ call[t].op = "reload")
      <3>1. PICK u \in Caller : call[u] # NoCall /\ call[u].op = "reload" BY <1>0, <1>6, <2>2 DEF CallsTracked
      <3> QED BY <2>2, <3>1 DEF OwnStep, OthersSame
    <2> QED BY <1>6, <2>1, <2>2 DEF OwnInv
  <1> QED BY <1>3, <1>4, <1>5, <1>6 DEF CallsTracked, SlotsBacked

\* A step that leaves the registry alone.
LEMMA StoreStill ==
  ASSUME StoreInv, UNCHANGED vars
  PROVE  StoreInv' /\ UNCHANGED <<reload, plugin_slots, image, bundle_data>>
  <1>1. StoreInv' BY StoreInvStep
  <1> QED BY <1>1 DEF vars, store

\* A load before its bundle is registered, and after it failed.
LEMMA LoadOwn ==
  ASSUME CallersApart, LifecycleInv, LifecycleTypeOK', NEW t \in Caller,
         \/ \E b \in BundleId : LoadBegins(t, b)
         \/ LoadOpens(t) \/ LoadOpenFails(t) \/ LoadCommitFails(t) \/ LoadCleansUp(t)
  PROVE  \E b : OwnStep(t, b) /\ OwnInv(t, b)
  <1>0. /\ StoreInv /\ CallsTracked /\ SlotsBacked /\ CallOK /\ LoaderTypeOK /\ opened \in Nat
        /\ CallBacked(t) /\ CallTracked(t)
    BY LifecycleAssumption DEF LifecycleInv, LifecycleTypeOK, CallOK, LoaderTypeOK, SlotsBacked, CallsTracked
  <1>1. UNCHANGED vars BY Zenon DEF LoadBegins, LoadOpens, LoadOpenFails, LoadCommitFails, LoadCleansUp
  <1>2. StoreInv' /\ UNCHANGED <<reload, plugin_slots, image, bundle_data>> BY <1>0, <1>1, StoreStill
  <1>3. UNCHANGED bundle_manifests BY Zenon DEF LoadBegins, LoadOpens, LoadOpenFails, LoadCommitFails, LoadCleansUp
  <1>4. PICK b \in BundleId :
          \/ LoadBegins(t, b) /\ Begins(t, "load", b, "staged")
          \/ /\ call[t] # NoCall /\ call[t].bundle_id = b
             /\ \/ LoadOpens(t) \/ LoadOpenFails(t) \/ LoadCommitFails(t) \/ LoadCleansUp(t)
    <2>1. CASE \E b \in BundleId : LoadBegins(t, b) BY <2>1, LoadMoves DEF LifecycleInv
    <2>2. CASE \/ LoadOpens(t) \/ LoadOpenFails(t) \/ LoadCommitFails(t) \/ LoadCleansUp(t)
      <3>1. call[t] # NoCall BY <2>2, Zenon DEF LoadOpens, LoadOpenFails, LoadCommitFails, LoadCleansUp, In
      <3> QED BY <1>0, <2>2, <3>1, CallType
    <2> QED BY <2>1, <2>2
  <1>5. /\ \/ Begins(t, "load", b, "staged") /\ b \notin bundle_data
           \/ call[t].bundle_id = b /\ Moves(t, "load", "staged", "init")
           \/ call[t].bundle_id = b /\ Moves(t, "load", "staged", "cleanup")
           \/ call[t].bundle_id = b /\ Moves(t, "load", "installed", "cleanup")
           \/ call[t].bundle_id = b /\ Ends(t, "load", "cleanup")
    BY <1>4, LoadMoves DEF LifecycleInv, LoadBegins
  <1>6. b \notin bundle_data BY <1>0, <1>5 DEF Moves, Ends, CallBacked
  <1>7. b \in Manages[t] BY <1>0, <1>5 DEF Begins, Moves, Ends, CallTracked
  <1>8. /\ \A a \in BundleId \ {b} : libraries'[a] = libraries[a]
        /\ opened' \in Nat /\ opened <= opened' /\ \A l \in 1 .. opened : mapping'[l] = mapping[l]
    <2>1. CASE LoadBegins(t, b) \/ LoadOpenFails(t) \/ LoadCommitFails(t)
      <3>1. UNCHANGED loader BY <2>1, Zenon DEF LoadBegins, LoadOpenFails, LoadCommitFails
      <3> QED BY <1>0, <3>1 DEF loader
    <2>2. CASE LoadOpens(t) /\ call[t].bundle_id = b
      <3>1. PICK i \in Image : Dlopen(b, i) BY <2>2, Zenon DEF LoadOpens
      <3> QED BY <1>0, <3>1, DlopenFacts
    <2>3. CASE LoadCleansUp(t) /\ call[t].bundle_id = b
      <3>1. LoaderUnload(b) BY <2>3 DEF LoadCleansUp
      <3> QED BY <1>0, <3>1, LoaderUnloadFacts
    <2> QED BY <1>4, <2>1, <2>2, <2>3
  <1>9. OwnStep(t, b)
    BY <1>2, <1>3, <1>5, <1>7, <1>8 DEF OwnStep, Begins, Moves, Ends
  <1>10. plugin_slots'[b] = {} BY <1>0, <1>2, <1>6 DEF StoreInv, ReloadWindow
  <1>11. BundleBacked(b)' BY <1>10 DEF BundleBacked
  <1>12. CallTracked(t)' BY <1>0, <1>5, <1>7 DEF CallTracked, Begins, Moves, Ends, Phases
  <1>13. CallBacked(t)' BY <1>2, <1>5, <1>6 DEF CallBacked, Begins, Moves, Ends
  <1>14. OwnInv(t, b) BY <1>2, <1>5, <1>11, <1>12, <1>13 DEF OwnInv, Begins, Moves, Ends
  <1> QED BY <1>9, <1>14

\* The commit of a load, and its manifest.
LEMMA CommitOwn ==
  ASSUME CallersApart, LifecycleInv, LifecycleTypeOK', NEW t \in Caller, LoadCommits(t) \/ LoadRecordsManifest(t)
  PROVE  \E b : OwnStep(t, b) /\ OwnInv(t, b)
  <1>b. PICK b : b = call[t].bundle_id OBVIOUS
  <1> USE <1>b
  <1>0. /\ LifecycleTypeOK /\ StoreInv /\ CallsTracked /\ SlotsBacked /\ CallOK /\ LoaderTypeOK /\ opened \in Nat
        /\ CallBacked(t) /\ CallTracked(t) /\ TypeOK'
    BY LifecycleAssumption DEF LifecycleInv, LifecycleTypeOK, CallOK, LoaderTypeOK, SlotsBacked, CallsTracked
  <1>1. UNCHANGED loader BY Zenon DEF LoadCommits, LoadRecordsManifest
  <1>2. call[t] # NoCall BY Zenon DEF LoadCommits, LoadRecordsManifest, In
  <1>3. b \in BundleId /\ b \in Manages[t] BY <1>0, <1>2, CallType DEF CallTracked
  <1>4. CASE LoadCommits(t)
    <2>1. Moves(t, "load", "installed", "published") /\ KeepsRest(t) BY <1>0, <1>4, LoadMoves
    <2>2. UNCHANGED bundle_manifests BY <1>4, Zenon DEF LoadCommits
    <2>3. /\ StoreInv' /\ reload' = reload /\ bundle_data' = bundle_data \cup {b}
          /\ image'[b] = mapping[call[t].library]
          /\ \A a \in BundleId \ {b} : image'[a] = image[a] /\ plugin_slots'[a] = plugin_slots[a]
      BY <1>0, <1>4, CommitEffect
    <2>4. OwnStep(t, b) BY <1>0, <1>1, <1>3, <2>1, <2>2, <2>3 DEF OwnStep, Moves, loader
    <2>5. libraries[b] = call[t].library /\ call[t].library # NoLibrary
      BY <1>0, <2>1 DEF CallBacked, Moves, LifecycleTypeOK, LibrariesKnown, NoLibrary
    <2>6. BundleBacked(b)' BY <1>1, <2>1, <2>3, <2>5 DEF BundleBacked, Backed, loader, Moves
    <2>7. CallTracked(t)' BY <1>3, <2>1 DEF CallTracked, Moves, Phases
    <2>8. CallBacked(t)' BY <2>1 DEF CallBacked, Moves
    <2> QED BY <2>1, <2>3, <2>4, <2>6, <2>7, <2>8 DEF OwnInv, Moves
  <1>5. CASE LoadRecordsManifest(t)
    <2>1. Ends(t, "load", "published") BY <1>0, <1>5, LoadMoves
    <2>2. UNCHANGED vars /\ bundle_manifests' = bundle_manifests \cup {b} BY <1>5 DEF LoadRecordsManifest
    <2>3. StoreInv' /\ UNCHANGED <<reload, plugin_slots, image, bundle_data>> BY <1>0, <2>2, StoreStill
    <2>4. OwnStep(t, b) BY <1>0, <1>1, <1>3, <2>1, <2>2, <2>3 DEF OwnStep, Ends, loader
    <2>5. Settled(b) BY <1>0, <2>1, <2>4, SettledFacts DEF Ends
    <2>6. plugin_slots[b] # {} => Backed(b) BY <1>0, <1>3, <2>5 DEF SlotsBacked, BundleBacked
    <2>7. BundleBacked(b)' BY <1>1, <2>2, <2>3, <2>6 DEF BundleBacked, Backed, loader
    <2>8. CallTracked(t)' /\ CallBacked(t)' BY <2>1 DEF CallTracked, CallBacked, Ends
    <2> QED BY <2>1, <2>3, <2>4, <2>7, <2>8 DEF OwnInv, Ends
  <1> QED BY <1>4, <1>5

\* The steps of an unload.
LEMMA UnloadOwn ==
  ASSUME CallersApart, LifecycleInv, LifecycleTypeOK', NEW t \in Caller, UnloadStep(t)
  PROVE  \E b : OwnStep(t, b) /\ OwnInv(t, b)
  <1>0. /\ LifecycleTypeOK /\ StoreInv /\ CallsTracked /\ SlotsBacked /\ CallOK /\ LoaderTypeOK /\ opened \in Nat
        /\ CallBacked(t) /\ CallTracked(t) /\ TypeOK'
    BY LifecycleAssumption DEF LifecycleInv, LifecycleTypeOK, CallOK, LoaderTypeOK, SlotsBacked, CallsTracked
  <1>1. ASSUME NEW b \in BundleId, UnloadBegins(t, b) \/ (UnloadNotifies(t) /\ call[t].bundle_id = b)
        PROVE  OwnStep(t, b) /\ OwnInv(t, b)
    <2>1. \/ Begins(t, "unload", b, "checked")
          \/ Moves(t, "unload", "checked", "notified") /\ call[t].bundle_id = b
      BY <1>0, <1>1, UnloadMoves
    <2>2. UNCHANGED vars /\ UNCHANGED loader /\ UNCHANGED bundle_manifests
      BY <1>1, Zenon DEF UnloadBegins, UnloadNotifies
    <2>3. StoreInv' /\ UNCHANGED <<reload, plugin_slots, image, bundle_data>> BY <1>0, <2>2, StoreStill
    <2>4. b \in Manages[t] BY <1>0, <2>1 DEF Begins, Moves, CallTracked
    <2>5. OwnStep(t, b) BY <1>0, <2>1, <2>2, <2>3, <2>4 DEF OwnStep, Begins, Moves, loader
    <2>6. Settled(b) BY <1>0, <2>1, <2>5, SettledFacts DEF Begins, Moves
    <2>7. plugin_slots[b] # {} => Backed(b) /\ b \in bundle_manifests
      <3>1. \A u \in Caller : call[u] # NoCall /\ call[u].bundle_id = b => u = t BY <1>0, <2>5, SettledFacts
      <3> QED BY <1>0, <2>1, <2>6, <3>1 DEF SlotsBacked, BundleBacked, Begins, Moves
    <2>8. BundleBacked(b)' BY <2>2, <2>3, <2>7 DEF BundleBacked, Backed, loader
    <2>9. CallTracked(t)' BY <2>1, <2>4 DEF CallTracked, Begins, Moves, Phases
    <2>10. CallBacked(t)' BY <2>1 DEF CallBacked, Begins, Moves
    <2> QED BY <2>1, <2>3, <2>5, <2>8, <2>9, <2>10 DEF OwnInv, Begins, Moves
  <1>b. PICK b : b = call[t].bundle_id OBVIOUS
  <1> USE <1>b
  <1>2. call[t] # NoCall => b \in BundleId /\ b \in Manages[t] BY <1>0, CallType DEF CallTracked
  <1>3. ASSUME UnloadInvalidates(t) PROVE OwnStep(t, b) /\ OwnInv(t, b)
    <2>1. Moves(t, "unload", "notified", "forget") BY <1>0, <1>3, UnloadMoves
    <2>2. UNCHANGED loader /\ UNCHANGED bundle_manifests BY <1>3, Zenon DEF UnloadInvalidates
    <2>3. /\ StoreInv' /\ reload' = reload /\ bundle_data' = bundle_data \ {b} /\ image' = image
          /\ \A a \in BundleId \ {b} : plugin_slots'[a] = plugin_slots[a]
      BY <1>0, <1>3, InvalidateEffect
    <2>4. OwnStep(t, b) BY <1>0, <1>2, <2>1, <2>2, <2>3 DEF OwnStep, Moves, loader
    <2>5. plugin_slots'[b] = {} BY <1>2, <2>1, <2>3 DEF StoreInv, ReloadWindow, Moves
    <2>6. BundleBacked(b)' BY <2>5 DEF BundleBacked
    <2>7. CallTracked(t)' BY <1>2, <2>1 DEF CallTracked, Moves, Phases
    <2>8. CallBacked(t)' BY <2>1, <2>3 DEF CallBacked, Moves
    <2> QED BY <2>1, <2>3, <2>4, <2>6, <2>7, <2>8 DEF OwnInv, Moves
  <1>4. ASSUME UnloadForgets(t) \/ UnloadReclaims(t) PROVE OwnStep(t, b) /\ OwnInv(t, b)
    <2>1. Moves(t, "unload", "forget", "reclaim") \/ Ends(t, "unload", "reclaim") BY <1>0, <1>4, UnloadMoves
    <2>2. /\ UNCHANGED vars
          /\ bundle_manifests' = bundle_manifests \/ bundle_manifests' = bundle_manifests \ {b}
          /\ UNCHANGED loader \/ LoaderUnload(b)
      BY <1>4 DEF UnloadForgets, UnloadReclaims
    <2>3. StoreInv' /\ UNCHANGED <<reload, plugin_slots, image, bundle_data>> BY <1>0, <2>2, StoreStill
    <2>4. b \in BundleId /\ b \in Manages[t] BY <1>2, <2>1 DEF Moves, Ends
    <2>5. opened' = opened /\ mapping' = mapping /\ \A a \in BundleId \ {b} : libraries'[a] = libraries[a]
      BY <1>0, <2>2, <2>4, LoaderUnloadFacts DEF loader
    <2>6. OwnStep(t, b) BY <1>0, <2>1, <2>2, <2>3, <2>4, <2>5 DEF OwnStep, Moves, Ends
    <2>7. b \notin bundle_data BY <1>0, <2>1 DEF CallBacked, Moves, Ends
    <2>8. plugin_slots'[b] = {} BY <2>3, <2>4, <2>7 DEF StoreInv, ReloadWindow
    <2>9. BundleBacked(b)' BY <2>8 DEF BundleBacked
    <2>10. CallTracked(t)' BY <2>1, <2>4 DEF CallTracked, Moves, Ends, Phases
    <2>11. CallBacked(t)' BY <2>1, <2>3, <2>7 DEF CallBacked, Moves, Ends
    <2> QED BY <2>1, <2>3, <2>6, <2>9, <2>10, <2>11 DEF OwnInv, Moves, Ends
  <1>5. UnloadNotifies(t) => call[t] # NoCall BY Zenon DEF UnloadNotifies, In
  <1> QED BY <1>1, <1>2, <1>3, <1>4, <1>5 DEF UnloadStep

\* The end of init, in a load and in a reload.
LEMMA LoaderOwn ==
  ASSUME CallersApart, LifecycleInv, LifecycleTypeOK', NEW t \in Caller, LoaderInstalls(t) \/ InitFails(t)
  PROVE  \E b : OwnStep(t, b) /\ OwnInv(t, b)
  <1>b. PICK b : b = call[t].bundle_id OBVIOUS
  <1> USE <1>b
  <1>0. /\ LifecycleTypeOK /\ StoreInv /\ CallsTracked /\ SlotsBacked /\ CallOK /\ LoaderTypeOK /\ opened \in Nat
        /\ CallBacked(t) /\ CallTracked(t) /\ LibrariesKnown
    BY LifecycleAssumption DEF LifecycleInv, LifecycleTypeOK, CallOK, LoaderTypeOK, SlotsBacked, CallsTracked
  <1>1. /\ \/ LoaderInstalls(t) /\ Moves(t, "load", "init", "installed")
           \/ LoaderInstalls(t) /\ Moves(t, "reload", "init", "installed")
           \/ InitFails(t) /\ Moves(t, "load", "init", "cleanup")
           \/ InitFails(t) /\ Moves(t, "reload", "init", "failed")
        /\ KeepsRest(t)
    BY <1>0, LoaderMoves
  <1>2. UNCHANGED vars /\ UNCHANGED <<bundle_manifests, opened, mapping, latest>> BY Zenon DEF LoaderInstalls, InitFails
  <1>3. StoreInv' /\ UNCHANGED <<reload, plugin_slots, image, bundle_data>> BY <1>0, <1>2, StoreStill
  <1>4. b \in BundleId /\ b \in Manages[t] /\ call[t].library \in Library
    BY <1>0, <1>1, CallType, LifecycleAssumption DEF Moves, CallTracked, LibrariesKnown, LoaderTypeOK, Library
  <1>5. /\ \A a \in BundleId \ {b} : libraries'[a] = libraries[a]
        /\ LoaderInstalls(t) => libraries'[b] = call[t].library
        /\ InitFails(t) => libraries' = libraries
    <2>1. LoaderInstalls(t) => Install(b, call[t].library) BY Zenon DEF LoaderInstalls
    <2>2. InitFails(t) => libraries' = libraries BY Zenon DEF InitFails
    <2> QED BY <1>0, <1>2, <1>4, <2>1, <2>2, InstallFacts
  <1>6. OwnStep(t, b) BY <1>0, <1>1, <1>2, <1>3, <1>4, <1>5 DEF OwnStep, Moves
  <1>7. BundleBacked(b)'
    <2>1. ~Settled(b)' BY <1>0, <1>1, <1>6, SettledFacts DEF Moves
    <2> QED BY <2>1 DEF BundleBacked
  <1>8. CallTracked(t)' BY <1>0, <1>1, <1>3, <1>4 DEF CallTracked, Moves, Phases
  <1>9. CallBacked(t)'
    <2>1. CASE Moves(t, "load", "init", "installed") /\ LoaderInstalls(t)
      BY <1>0, <1>1, <1>3, <1>5, <2>1 DEF CallBacked, Moves, KeepsRest
    <2>2. CASE Moves(t, "load", "init", "cleanup")
      BY <1>0, <1>1, <1>3, <2>2 DEF CallBacked, Moves, KeepsRest
    <2>3. CASE Moves(t, "reload", "init", "installed") /\ LoaderInstalls(t)
      BY <1>0, <1>1, <1>2, <1>3, <1>5, <2>3 DEF CallBacked, Moves, KeepsRest
    <2>4. CASE Moves(t, "reload", "init", "failed") /\ InitFails(t)
      BY <1>0, <1>1, <1>2, <1>3, <1>5, <2>4 DEF CallBacked, Moves, KeepsRest, Backed
    <2> QED BY <1>1, <2>1, <2>2, <2>3, <2>4
  <1>10. OwnInv(t, b) BY <1>1, <1>3, <1>7, <1>8, <1>9 DEF OwnInv, Moves
  <1> QED BY <1>6, <1>10

\* A reload up to the end of its init.
LEMMA ReloadOwn ==
  ASSUME CallersApart, LifecycleInv, LifecycleTypeOK', NEW t \in Caller,
         \/ \E b \in BundleId : ReloadBegins(t, b)
         \/ ReloadOpens(t) \/ ReloadOpenFails(t) \/ InitRegisters(t)
  PROVE  \E b : OwnStep(t, b) /\ OwnInv(t, b)
  <1>0. /\ LifecycleTypeOK /\ StoreInv /\ CallsTracked /\ SlotsBacked /\ CallOK /\ LoaderTypeOK /\ opened \in Nat
        /\ CallBacked(t) /\ CallTracked(t) /\ TypeOK' /\ LibraryAccounted /\ LibrariesKnown
    BY LifecycleAssumption DEF LifecycleInv, LifecycleTypeOK, CallOK, LoaderTypeOK, SlotsBacked, CallsTracked
  <1>1. ASSUME NEW b \in BundleId, ReloadBegins(t, b) PROVE OwnStep(t, b) /\ OwnInv(t, b)
    <2>1. Begins(t, "reload", b, "preparing") BY <1>0, <1>1, ReloadMoves
    <2>2. UNCHANGED loader /\ UNCHANGED bundle_manifests BY <1>1, Zenon DEF ReloadBegins
    <2>3. /\ StoreInv' /\ UNCHANGED <<plugin_slots, image, bundle_data>>
          /\ reload = Idle /\ reload' # Idle /\ reload'.phase = "preparing" /\ reload'.bundle_id = b
          /\ reload'.old_slots = plugin_slots[b]
      BY <1>0, <1>1, SnapshotEffect
    <2>4. \A u \in Caller \ {t} : call[u] # NoCall => call[u].op # "reload"
      BY <1>0, <2>3 DEF CallsTracked, CallTracked
    <2>5. OwnStep(t, b) BY <1>0, <2>1, <2>2, <2>3, <2>4 DEF OwnStep, Begins, loader
    <2>6. plugin_slots[b] # {} => Backed(b) /\ b \in bundle_manifests
      <3>1. \A u \in Caller : call[u] # NoCall /\ call[u].bundle_id = b => u = t BY <1>0, <2>5, SettledFacts
      <3>2. Settled(b) BY <1>0, <2>1, <2>5, SettledFacts DEF Begins
      <3> QED BY <1>0, <2>1, <3>1, <3>2 DEF SlotsBacked, BundleBacked, Begins
    <2>7. BundleBacked(b)'
      <3>1. ~Settled(b)' BY <1>0, <2>1, <2>5, SettledFacts DEF Begins
      <3> QED BY <3>1 DEF BundleBacked
    <2>8. CallTracked(t)' BY <2>1, <2>3 DEF CallTracked, Begins, Phases
    <2>9. CallBacked(t)' BY <2>1, <2>2, <2>3, <2>6 DEF CallBacked, Begins, Backed, loader
    <2> QED BY <2>1, <2>3, <2>5, <2>7, <2>8, <2>9 DEF OwnInv, Begins
  <1>b. PICK b : b = call[t].bundle_id OBVIOUS
  <1> USE <1>b
  <1>2. ASSUME ReloadOpens(t) \/ ReloadOpenFails(t) \/ InitRegisters(t)
        PROVE  /\ b \in BundleId /\ b \in Manages[t] /\ call[t] # NoCall /\ call[t].op = "reload"
               /\ \A u \in Caller \ {t} : call[u] # NoCall => call[u].op # "reload"
    <2>1. call[t] # NoCall /\ call[t].op = "reload" BY <1>2, Zenon DEF ReloadOpens, ReloadOpenFails, InitRegisters, In
    <2> QED BY <1>0, <2>1, CallType, OneReloads DEF CallTracked
  <1>3. ASSUME ReloadOpens(t) PROVE OwnStep(t, b) /\ OwnInv(t, b)
    <2>1. Moves(t, "reload", "preparing", "init") /\ call'[t].library = opened + 1 BY <1>0, <1>3, ReloadMoves
    <2>2. PICK i \in Image : BeginReload(i) /\ Dlopen(b, i) BY <1>3, Zenon DEF ReloadOpens
    <2>3. UNCHANGED bundle_manifests BY <1>3, Zenon DEF ReloadOpens
    <2>4. /\ StoreInv' /\ UNCHANGED <<plugin_slots, image, bundle_data>>
          /\ reload' # Idle /\ reload'.phase = "open" /\ reload'.bundle_id = reload.bundle_id
          /\ reload'.old_slots = reload.old_slots /\ reload'.image = i
      BY <1>0, <2>2, BeginEffect
    <2>5. /\ opened' = opened + 1 /\ UNCHANGED libraries
          /\ \A l \in 1 .. opened : mapping'[l] = mapping[l]
          /\ mapping'[opened + 1] = i
      BY <1>0, <1>2, <1>3, <2>2, DlopenFacts
    <2>6. OwnStep(t, b) BY <1>0, <1>2, <1>3, <2>1, <2>3, <2>4, <2>5 DEF OwnStep, Moves
    <2>7. Backed(b) => Backed(b)'
      <3>1. libraries[b] # NoLibrary => libraries[b] \in 1 .. opened BY <1>0, <1>2, <1>3, InstalledOpened
      <3> QED BY <2>4, <2>5, <3>1 DEF Backed
    <2>8. BundleBacked(b)'
      <3>1. ~Settled(b)' BY <1>0, <2>1, <2>6, SettledFacts DEF Moves
      <3> QED BY <3>1 DEF BundleBacked
    <2>9. CallTracked(t)' BY <1>0, <1>2, <1>3, <2>1, <2>4 DEF CallTracked, Moves, Phases
    <2>10. CallBacked(t)' BY <1>0, <2>1, <2>3, <2>4, <2>5, <2>7 DEF CallBacked, Moves
    <2> QED BY <2>1, <2>4, <2>6, <2>8, <2>9, <2>10 DEF OwnInv, Moves
  <1>4. ASSUME ReloadOpenFails(t) PROVE OwnStep(t, b) /\ OwnInv(t, b)
    <2>1. Moves(t, "reload", "preparing", "failed") BY <1>0, <1>4, ReloadMoves
    <2>2. BeginReload(reload.image) /\ UNCHANGED loader /\ UNCHANGED bundle_manifests
      BY <1>4, Zenon DEF ReloadOpenFails
    <2>3. reload.image \in Image BY <1>0, <2>2 DEF BeginReload, LifecycleTypeOK, TypeOK, Reload, Idle
    <2>4. /\ StoreInv' /\ UNCHANGED <<plugin_slots, image, bundle_data>>
          /\ reload' # Idle /\ reload'.phase = "open" /\ reload'.bundle_id = reload.bundle_id
          /\ reload'.old_slots = reload.old_slots
      BY <1>0, <2>2, <2>3, BeginEffect
    <2>5. OwnStep(t, b) BY <1>0, <1>2, <1>4, <2>1, <2>2, <2>4 DEF OwnStep, Moves, loader
    <2>6. BundleBacked(b)'
      <3>1. ~Settled(b)' BY <1>0, <2>1, <2>5, SettledFacts DEF Moves
      <3> QED BY <3>1 DEF BundleBacked
    <2>7. CallTracked(t)' BY <1>0, <1>2, <1>4, <2>1, <2>4 DEF CallTracked, Moves, Phases
    <2>8. CallBacked(t)' BY <1>0, <2>1, <2>2, <2>4 DEF CallBacked, Moves, Backed, loader
    <2> QED BY <2>1, <2>4, <2>5, <2>6, <2>7, <2>8 DEF OwnInv, Moves
  <1>5. ASSUME InitRegisters(t) PROVE OwnStep(t, b) /\ OwnInv(t, b)
    <2>1. Moves(t, "reload", "init", "init") /\ KeepsRest(t) BY <1>0, <1>5, ReloadMoves
    <2>2. UNCHANGED loader /\ UNCHANGED bundle_manifests BY <1>5, Zenon DEF InitRegisters
    <2>3. /\ StoreInv' /\ bundle_data' = bundle_data \cup {b} /\ image' = image
          /\ \A a \in BundleId \ {b} : plugin_slots'[a] = plugin_slots[a]
          /\ reload' # Idle /\ reload'.phase = reload.phase /\ reload'.bundle_id = reload.bundle_id
          /\ reload'.old_slots = reload.old_slots /\ reload'.image = reload.image
      BY <1>0, <1>5, RegisterEffect
    <2>4. OwnStep(t, b) BY <1>0, <1>2, <1>5, <2>1, <2>2, <2>3 DEF OwnStep, Moves, loader
    <2>5. BundleBacked(b)'
      <3>1. ~Settled(b)' BY <1>0, <2>1, <2>4, SettledFacts DEF Moves
      <3> QED BY <3>1 DEF BundleBacked
    <2>6. CallTracked(t)' BY <1>0, <1>2, <1>5, <2>1, <2>3 DEF CallTracked, Moves, Phases
    <2>7. CallBacked(t)' BY <1>0, <2>1, <2>2, <2>3 DEF CallBacked, Moves, KeepsRest, Backed, loader
    <2> QED BY <2>1, <2>3, <2>4, <2>5, <2>6, <2>7 DEF OwnInv, Moves
  <1> QED BY <1>1, <1>3, <1>4, <1>5

\* The ends of a reload.
LEMMA ReloadEndOwn ==
  ASSUME CallersApart, LifecycleInv, LifecycleTypeOK', NEW t \in Caller,
         ReloadSwaps(t) \/ ReloadSwapFails(t) \/ ReloadAborts(t)
  PROVE  \E b : OwnStep(t, b) /\ OwnInv(t, b)
  <1>b. PICK b : b = call[t].bundle_id OBVIOUS
  <1> USE <1>b
  <1>0. /\ LifecycleTypeOK /\ StoreInv /\ CallsTracked /\ SlotsBacked /\ CallOK /\ LoaderTypeOK /\ opened \in Nat
        /\ CallBacked(t) /\ CallTracked(t) /\ TypeOK' /\ LibrariesKnown
    BY LifecycleAssumption DEF LifecycleInv, LifecycleTypeOK, CallOK, LoaderTypeOK, SlotsBacked, CallsTracked
  <1>1. Ends(t, "reload", "installed") \/ Ends(t, "reload", "failed") BY <1>0, ReloadMoves
  <1>2. /\ b \in BundleId /\ b \in Manages[t] /\ reload # Idle /\ reload.bundle_id = b
        /\ \A u \in Caller \ {t} : call[u] # NoCall => call[u].op # "reload"
    BY <1>0, <1>1, CallType, OneReloads DEF Ends, CallTracked
  <1>3. UNCHANGED loader BY Zenon DEF ReloadSwaps, ReloadSwapFails, ReloadAborts
  <1>4. bundle_manifests' = bundle_manifests \/ bundle_manifests' = bundle_manifests \cup {b}
    BY Zenon DEF ReloadSwaps, ReloadSwapFails, ReloadAborts
  <1>5. /\ StoreInv' /\ reload' = Idle /\ bundle_data' = bundle_data
        /\ \A a \in BundleId \ {b} : image'[a] = image[a] /\ plugin_slots'[a] = plugin_slots[a]
    <2>1. SwapSucceeds \/ SwapFails \/ AbortReload BY Zenon DEF ReloadSwaps, ReloadSwapFails, ReloadAborts
    <2> QED BY <1>0, <1>2, <2>1, SwapEffect, SwapFailEffect, AbortEffect
  <1>6. OwnStep(t, b) BY <1>0, <1>1, <1>2, <1>3, <1>4, <1>5 DEF OwnStep, Ends, loader
  <1>7. CASE ReloadSwaps(t)
    <2>1. Ends(t, "reload", "installed") BY <1>0, <1>7, ReloadMoves
    <2>2. SwapSucceeds /\ bundle_manifests' = bundle_manifests \cup {b} BY <1>7, Zenon DEF ReloadSwaps
    <2>3. image'[b] = reload.image BY <1>0, <1>2, <2>2, SwapEffect
    <2>4. libraries[b] = call[t].library /\ reload.image = mapping[call[t].library] /\ call[t].library # NoLibrary
      BY <1>0, <2>1 DEF CallBacked, Ends, LibrariesKnown, NoLibrary
    <2> QED BY <1>3, <2>2, <2>3, <2>4, <1>1, <1>5, <1>6 DEF OwnInv, BundleBacked, Backed, loader, CallTracked, CallBacked, Ends
  <1>8. CASE ReloadSwapFails(t)
    <2>1. SwapFails BY <1>8, Zenon DEF ReloadSwapFails
    <2>2. plugin_slots'[b] = {} BY <1>0, <1>2, <2>1, SwapFailEffect
    <2> QED BY <1>1, <1>5, <1>6, <2>2 DEF OwnInv, BundleBacked, CallTracked, CallBacked, Ends
  <1>9. CASE ReloadAborts(t)
    <2>1. Ends(t, "reload", "failed") BY <1>0, <1>9, ReloadMoves
    <2>2. AbortReload /\ UNCHANGED bundle_manifests BY <1>9, Zenon DEF ReloadAborts
    <2>3. plugin_slots'[b] = reload.old_slots /\ image' = image BY <1>0, <1>2, <2>2, AbortEffect
    <2>4. reload.old_slots # {} => b \in bundle_manifests /\ Backed(b) BY <1>0, <2>1 DEF CallBacked, Ends
    <2>5. BundleBacked(b)' BY <1>3, <2>2, <2>3, <2>4 DEF BundleBacked, Backed, loader
    <2> QED BY <2>5, <1>1, <1>5, <1>6 DEF OwnInv, CallTracked, CallBacked, Ends
  <1> QED BY <1>7, <1>8, <1>9

\* Every step of every caller keeps the invariant.
LEMMA CallerKeepsInv ==
  ASSUME CallersApart, LifecycleInv, LifecycleTypeOK', LibraryAccounted', NEW t \in Caller,
         LoadStep(t) \/ UnloadStep(t) \/ ReloadCallStep(t) \/ LoaderInstalls(t) \/ InitFails(t)
  PROVE  LifecycleInv'
  <1>1. PICK b : OwnStep(t, b) /\ OwnInv(t, b)
    BY LoadOwn, CommitOwn, UnloadOwn, LoaderOwn, ReloadOwn, ReloadEndOwn DEF LoadStep, ReloadCallStep
  <1>2. CallsTracked' /\ SlotsBacked' BY <1>1, OthersKept
  <1> QED BY <1>1, <1>2 DEF LifecycleInv, OwnInv

\* Readers and the deferred dlclose keep it.
LEMMA ReaderKeepsInv ==
  ASSUME LifecycleInv, LifecycleTypeOK', LibraryAccounted',
         UNCHANGED <<vars, libraries, opened, mapping, bundle_manifests, call>>
  PROVE  LifecycleInv'
  <1>1. StoreInv' /\ UNCHANGED <<reload, plugin_slots, image, bundle_data>> BY StoreStill DEF LifecycleInv
  <1>2. CallsTracked' BY <1>1 DEF LifecycleInv, CallsTracked, CallTracked
  <1>3. SlotsBacked' BY <1>1 DEF LifecycleInv, SlotsBacked, BundleBacked, CallBacked, Backed, Settled
  <1> QED BY <1>1, <1>2, <1>3 DEF LifecycleInv

\* LifecycleInv is inductive.
LEMMA LifecycleInvStep ==
  ASSUME CallersApart, LifecycleInv, [LifecycleNext]_lifecycleVars
  PROVE  LifecycleInv'
  <1>0. LifecycleTypeOK' /\ LibraryAccounted' BY LifecycleTypeStep, AccountStep DEF LifecycleInv
  <1>1. CASE UNCHANGED lifecycleVars
    BY <1>0, <1>1, ReaderKeepsInv DEF lifecycleVars, loader
  <1>2. CASE \/ \E r \in Reader : Pin(r) \/ Enter(r) \/ Unpin(r)
             \/ \E d \in deferred : Dlclose(d)
    <2>1. UNCHANGED <<vars, libraries, opened, mapping, bundle_manifests, call>>
      BY <1>2, Zenon DEF Pin, Enter, Unpin, Dlclose, loader
    <2> QED BY <1>0, <2>1, ReaderKeepsInv
  <1> QED BY <1>0, <1>1, <1>2, CallerKeepsInv DEF LifecycleNext

\* It holds initially.
LEMMA LifecycleInvInit == LifecycleInit => LifecycleInv
  <1> SUFFICES ASSUME LifecycleInit PROVE LifecycleInv OBVIOUS
  <1>1. LifecycleTypeOK /\ LibraryAccounted BY LifecycleTypeInit, AccountInit
  <1>2. StoreInv BY StoreInvInit DEF LifecycleInit
  <1>3. reload = Idle /\ \A b \in BundleId : plugin_slots[b] = {} BY DEF LifecycleInit, Init
  <1>4. \A t \in Caller : call[t] = NoCall BY DEF LifecycleInit
  <1> QED BY <1>1, <1>2, <1>3, <1>4 DEF LifecycleInv, CallsTracked, CallTracked, SlotsBacked, BundleBacked, CallBacked

\* Where no two callers work on one bundle, the registry's invariant and the
\* loader's hold together with what ties a call's phase to the registry, its
\* library and its manifest, hot reload included.
THEOREM LifecycleInvariant ==
  ASSUME CallersApart
  PROVE  LifecycleSpec => []LifecycleInv
  <1>1. LifecycleInv /\ [LifecycleNext]_lifecycleVars => LifecycleInv' BY LifecycleInvStep
  <1> QED BY <1>1, LifecycleInvInit, PTL DEF LifecycleSpec

\* A loaded bundle no call works on has its manifest and an installed library
\* that all its slots point into and nobody has scheduled for dlclose
\* (load_manifest_with_source, load_inner, reload_bundle).
THEOREM BundlesBacked ==
  ASSUME CallersApart
  PROVE  LifecycleSpec => []LoadedBacked
  <1>1. LifecycleInv => LoadedBacked
    <2> SUFFICES ASSUME LifecycleInv, NEW b \in bundle_data, ~Busy(b), plugin_slots[b] # {}
                 PROVE  /\ b \in bundle_manifests
                        /\ libraries[b] # NoLibrary
                        /\ \A s \in plugin_slots[b] : tenant[s].image = mapping[libraries[b]]
                        /\ libraries[b] \notin closed
                        /\ \A d \in deferred : d.library # libraries[b]
      BY DEF LoadedBacked
    <2>0. TypeOK /\ StoreInv /\ LibraryAccounted /\ CallsTracked BY DEF LifecycleInv, StoreInv
    <2>1. b \in BundleId BY <2>0 DEF TypeOK
    <2>2. Settled(b) BY DEF Settled, Busy
    <2>3. Backed(b) /\ b \in bundle_manifests BY <2>1, <2>2 DEF LifecycleInv, SlotsBacked, BundleBacked, Busy
    <2>4. ~InitRunning(b)
      <3>1. reload # Idle => reload.bundle_id # b BY <2>0 DEF CallsTracked, CallTracked, Busy
      <3> QED BY <3>1 DEF InitRunning, Idle
    <2>5. \A s \in plugin_slots[b] : s \in Slot /\ tenant[s] # Vacant /\ tenant[s].bundle_id = b
      BY <2>0, <2>1 DEF StoreInv, SlotsOwned, TypeOK
    <2>6. \A s \in plugin_slots[b] : tenant[s].image = image[b] BY <2>0, <2>4, <2>5 DEF StoreInv, ImagesTracked
    <2>7. libraries[b] \in Installed BY <2>1, <2>3 DEF Backed, Installed
    <2>8. \A d \in deferred : d.library \in Waiting BY DEF Waiting
    <2> QED BY <2>0, <2>3, <2>6, <2>7, <2>8 DEF Backed, LibraryAccounted
  <1> QED BY <1>1, LifecycleInvariant, PTL

-----------------------------------------------------------------------------
(***************************************************************************)
(* Without hot reload: the code a reader can reach stays mapped, and an    *)
(* unload leaves nothing behind.                                           *)
(***************************************************************************)

\* Nobody reloads, and every slot is backed by its bundle's library.
LEMMA AllBacked ==
  ASSUME UnloadInv
  PROVE  /\ reload = Idle
         /\ \A b \in BundleId : plugin_slots[b] # {} => Backed(b)
  <1>0. CallsTracked /\ SlotsBacked /\ StoreInv /\ ManifestsTracked BY DEF UnloadInv, LifecycleInv
  <1>1. reload = Idle BY <1>0 DEF CallsTracked, ManifestsTracked, ManifestTracked
  <1>2. ASSUME NEW b \in BundleId, plugin_slots[b] # {} PROVE Backed(b)
    <2>1. b \in bundle_data BY <1>0, <1>2 DEF StoreInv, ReloadWindow
    <2>2. ASSUME NEW t \in Caller, call[t] # NoCall, call[t].bundle_id = b
          PROVE  call[t].phase \in {"published", "checked", "notified"}
      <3>1. CallTracked(t) /\ CallBacked(t) /\ ManifestTracked(t)
        BY <1>0 DEF CallsTracked, SlotsBacked, ManifestsTracked
      <3> QED BY <2>1, <2>2, <3>1 DEF CallTracked, CallBacked, ManifestTracked, Phases
    <2>3. Settled(b) BY <2>2 DEF Settled
    <2> QED BY <1>0, <1>2, <2>3 DEF SlotsBacked, BundleBacked
  <1> QED BY <1>1, <1>2

\* What a step of caller t owes for its bundle's manifest and library.
OwnManifest(t, b) ==
  /\ ManifestTracked(t)'
  /\ call'[t] = NoCall =>
       IF b \in bundle_data' THEN b \in bundle_manifests'
       ELSE libraries'[b] = NoLibrary /\ b \notin bundle_manifests'

\* The other callers' part.
LEMMA ManifestsKept ==
  ASSUME CallersApart, UnloadInv, LifecycleTypeOK', NEW t \in Caller, NEW b, OwnStep(t, b), OwnManifest(t, b)
  PROVE  ManifestsTracked'
  <1>0. CallsTracked /\ ManifestsTracked /\ CallOK /\ bundle_data \subseteq BundleId /\ bundle_data' \subseteq BundleId
    BY DEF UnloadInv, LifecycleInv, LifecycleTypeOK, CallOK, TypeOK
  <1>1. ASSUME NEW u \in Caller PROVE ManifestTracked(u)'
    <2>1. CASE u = t BY <2>1 DEF OwnManifest
    <2>2. CASE u # t
      <3>1. call'[u] = call[u] BY <2>2 DEF OwnStep, OthersSame
      <3>2. CASE call[u] = NoCall BY <3>1, <3>2 DEF ManifestTracked
      <3>3. CASE call[u] # NoCall
        <4>1. call[u].bundle_id \in BundleId \ {b} BY <1>0, <2>2, <3>3, CallType, Lone DEF OwnStep
        <4>2. /\ call[u].bundle_id \in bundle_data' <=> call[u].bundle_id \in bundle_data
              /\ call[u].bundle_id \in bundle_manifests' <=> call[u].bundle_id \in bundle_manifests
          BY <4>1 DEF OwnStep
        <4>3. ManifestTracked(u) BY <1>0 DEF ManifestsTracked
        <4> QED BY <3>1, <4>2, <4>3 DEF ManifestTracked
      <3> QED BY <3>2, <3>3
    <2> QED BY <2>1, <2>2
  <1>2. ASSUME NEW a \in BundleId \ {b}
        PROVE  /\ Busy(a)' <=> Busy(a)
               /\ a \in bundle_data' <=> a \in bundle_data
               /\ a \in bundle_manifests' <=> a \in bundle_manifests
               /\ libraries'[a] = libraries[a]
    BY DEF Busy, OwnStep, OthersSame
  <1>3. Busy(b)' <=> call'[t] # NoCall
    <2>1. \A u \in Caller : call'[u] # NoCall /\ call'[u].bundle_id = b => u = t BY <1>0, SettledFacts
    <2> QED BY <2>1 DEF Busy, OwnStep
  <1>4. \A a \in bundle_data' : ~Busy(a)' => a \in bundle_manifests'
    BY <1>0, <1>2, <1>3 DEF ManifestsTracked, OwnManifest
  <1>5. NothingLeft' BY <1>0, <1>2, <1>3 DEF ManifestsTracked, NothingLeft, OwnManifest
  <1> QED BY <1>1, <1>4, <1>5 DEF ManifestsTracked

\* What a step of a call does to its bundle's manifest and library.
LEMMA CallerManifest ==
  ASSUME CallersApart, ~hot_reload_enabled, UnloadInv, LifecycleTypeOK', NEW t \in Caller, NEW b, OwnStep(t, b),
         LoadStep(t) \/ UnloadStep(t) \/ ReloadCallStep(t) \/ LoaderInstalls(t) \/ InitFails(t)
  PROVE  OwnManifest(t, b)
  <1>0. /\ LifecycleTypeOK /\ StoreInv /\ CallsTracked /\ SlotsBacked /\ CallOK /\ LoaderTypeOK
        /\ CallBacked(t) /\ CallTracked(t) /\ ManifestTracked(t) /\ ManifestsTracked /\ TypeOK'
    BY DEF UnloadInv, LifecycleInv, LifecycleTypeOK, CallOK, SlotsBacked, CallsTracked, ManifestsTracked
  <1>1. /\ call[t] # NoCall => call[t].bundle_id = b
        /\ call'[t] # NoCall => call'[t].bundle_id = b
        /\ b \in BundleId
    BY DEF OwnStep
  <1>2. call[t] = NoCall => ~Busy(b)
    BY <1>0, SettledFacts DEF Busy
  <1>3. ASSUME NEW a \in BundleId, LoadBegins(t, a) PROVE OwnManifest(t, b)
    <2>1. Begins(t, "load", a, "staged") BY <1>0, <1>3, LoadMoves
    <2>2. a = b /\ b \notin bundle_data /\ UNCHANGED bundle_manifests BY <1>1, <1>3, <2>1 DEF Begins, LoadBegins
    <2>3. b \notin bundle_manifests BY <1>0, <1>1, <1>2, <2>1, <2>2 DEF Begins, ManifestsTracked, NothingLeft
    <2> QED BY <2>1, <2>2, <2>3 DEF OwnManifest, ManifestTracked, Begins
  <1>4. ASSUME LoadOpens(t) \/ LoadOpenFails(t) \/ LoadCommitFails(t) \/ LoaderInstalls(t) \/ InitFails(t)
        PROVE  OwnManifest(t, b)
    <2>1. \E op \in {"load", "reload"}, to \in {"init", "cleanup", "installed", "failed"} : \E from : Moves(t, op, from, to)
      BY <1>0, <1>4, LoadMoves, LoaderMoves
    <2>2. UNCHANGED bundle_manifests BY <1>4, Zenon DEF LoadOpens, LoadOpenFails, LoadCommitFails, LoaderInstalls, InitFails
    <2> QED BY <1>0, <1>1, <2>1, <2>2 DEF OwnManifest, ManifestTracked, Moves
  <1>5. ASSUME LoadCommits(t) PROVE OwnManifest(t, b)
    <2>1. Moves(t, "load", "installed", "published") BY <1>0, <1>5, LoadMoves
    <2>2. UNCHANGED bundle_manifests BY <1>5, Zenon DEF LoadCommits
    <2>3. bundle_data' = bundle_data \cup {call[t].bundle_id} BY <1>0, <1>5, CommitEffect
    <2> QED BY <1>0, <1>1, <2>1, <2>2, <2>3 DEF OwnManifest, ManifestTracked, Moves
  <1>6. ASSUME LoadRecordsManifest(t) PROVE OwnManifest(t, b)
    <2>1. Ends(t, "load", "published") BY <1>0, <1>6, LoadMoves
    <2>2. UNCHANGED vars /\ bundle_manifests' = bundle_manifests \cup {call[t].bundle_id} BY <1>6 DEF LoadRecordsManifest
    <2>3. bundle_data' = bundle_data BY <2>2 DEF vars, store
    <2> QED BY <1>0, <1>1, <2>1, <2>2, <2>3 DEF OwnManifest, ManifestTracked, Ends
  <1>7. ASSUME LoadCleansUp(t) PROVE OwnManifest(t, b)
    <2>1. Ends(t, "load", "cleanup") BY <1>0, <1>7, LoadMoves
    <2>2. UNCHANGED vars /\ UNCHANGED bundle_manifests /\ LoaderUnload(b) BY <1>1, <1>7, <2>1 DEF LoadCleansUp, Ends
    <2>3. bundle_data' = bundle_data /\ libraries'[b] = NoLibrary BY <1>0, <1>1, <2>2, LoaderUnloadFacts DEF vars, store
    <2> QED BY <1>0, <1>1, <2>1, <2>2, <2>3 DEF OwnManifest, ManifestTracked, CallBacked, Ends
  <1>8. ASSUME NEW a \in BundleId, UnloadBegins(t, a) PROVE OwnManifest(t, b)
    <2>1. Begins(t, "unload", a, "checked") BY <1>0, <1>8, UnloadMoves
    <2>2. a = b /\ b \in bundle_data /\ UNCHANGED bundle_manifests /\ UNCHANGED vars
      BY <1>1, <1>8, <2>1 DEF Begins, UnloadBegins
    <2>3. bundle_data' = bundle_data BY <2>2 DEF vars, store
    <2>4. b \in bundle_manifests BY <1>0, <1>1, <1>2, <2>1, <2>2 DEF Begins, ManifestsTracked
    <2> QED BY <2>1, <2>2, <2>3, <2>4 DEF OwnManifest, ManifestTracked, Begins
  <1>9. ASSUME UnloadNotifies(t) PROVE OwnManifest(t, b)
    <2>1. /\ Moves(t, "unload", "checked", "notified")
          /\ call'[t].loader_name = (call[t].bundle_id \in bundle_manifests)
      BY <1>0, <1>9, UnloadMoves
    <2>2. UNCHANGED bundle_manifests /\ UNCHANGED vars BY <1>9, Zenon DEF UnloadNotifies
    <2>3. bundle_data' = bundle_data BY <2>2 DEF vars, store
    <2>4. b \in bundle_manifests /\ b \in bundle_data BY <1>0, <1>1, <2>1 DEF ManifestTracked, Moves
    <2>5. call'[t].loader_name BY <1>1, <2>1, <2>4, Zenon DEF Moves
    <2> QED BY <1>1, <2>1, <2>2, <2>3, <2>4, <2>5 DEF OwnManifest, ManifestTracked, Moves
  <1>10. ASSUME UnloadInvalidates(t) PROVE OwnManifest(t, b)
    <2>1. Moves(t, "unload", "notified", "forget") /\ KeepsRest(t) BY <1>0, <1>10, UnloadMoves
    <2>2. call[t].loader_name BY <1>0, <2>1 DEF ManifestTracked, Moves
    <2>3. call'[t].loader_name BY <2>1, <2>2, Zenon DEF KeepsRest
    <2> QED BY <1>1, <2>1, <2>3 DEF OwnManifest, ManifestTracked, Moves
  <1>11. ASSUME UnloadForgets(t) PROVE OwnManifest(t, b)
    <2>1. Moves(t, "unload", "forget", "reclaim") /\ KeepsRest(t) BY <1>0, <1>11, UnloadMoves
    <2>2. call[t].loader_name BY <1>0, <2>1 DEF ManifestTracked, Moves
    <2>3. call'[t].loader_name BY <2>1, <2>2, Zenon DEF KeepsRest
    <2>4. bundle_manifests' = bundle_manifests \ {call[t].bundle_id} BY <1>11 DEF UnloadForgets
    <2> QED BY <1>1, <2>1, <2>3, <2>4 DEF OwnManifest, ManifestTracked, Moves
  <1>12. ASSUME UnloadReclaims(t) PROVE OwnManifest(t, b)
    <2>1. Ends(t, "unload", "reclaim") BY <1>0, <1>12, UnloadMoves
    <2>2. call[t].loader_name /\ b \notin bundle_manifests /\ b \notin bundle_data
      BY <1>0, <1>1, <2>1 DEF ManifestTracked, CallBacked, Ends
    <2>3. UNCHANGED vars /\ UNCHANGED bundle_manifests /\ LoaderUnload(b)
      BY <1>1, <1>12, <2>1, <2>2 DEF UnloadReclaims, Ends
    <2>4. bundle_data' = bundle_data /\ libraries'[b] = NoLibrary BY <1>0, <1>1, <2>3, LoaderUnloadFacts DEF vars, store
    <2> QED BY <2>1, <2>2, <2>3, <2>4 DEF OwnManifest, ManifestTracked, Ends
  <1>13. ~ReloadCallStep(t)
    <2>1. ~(\E a \in BundleId : ReloadBegins(t, a)) BY Zenon DEF ReloadBegins
    <2>2. ASSUME ReloadOpens(t) \/ ReloadOpenFails(t) \/ InitRegisters(t)
                 \/ ReloadSwaps(t) \/ ReloadSwapFails(t) \/ ReloadAborts(t)
          PROVE  FALSE
      <3>1. call[t] # NoCall /\ call[t].op = "reload"
        BY <2>2, Zenon DEF ReloadOpens, ReloadOpenFails, InitRegisters, ReloadSwaps, ReloadSwapFails, ReloadAborts, In
      <3> QED BY <1>0, <3>1 DEF ManifestTracked
    <2> QED BY <2>1, <2>2 DEF ReloadCallStep
  <1> QED BY <1>3, <1>4, <1>5, <1>6, <1>7, <1>8, <1>9, <1>10, <1>11, <1>12, <1>13 DEF LoadStep, UnloadStep

\* A library a pinned reader runs in stays installed, or its dlclose waits.
HeldBy(r, l) ==
  \/ \E b \in BundleId : libraries[b] = l
  \/ \E d \in deferred : d.library = l /\ r \in d.pins

\* The callers' steps keep the libraries readers run in.
LEMMA CallerHolds ==
  ASSUME CallersApart, UnloadInv, LifecycleTypeOK', NEW t \in Caller, NEW b, OwnStep(t, b),
         LoadStep(t) \/ UnloadStep(t) \/ ReloadCallStep(t) \/ LoaderInstalls(t) \/ InitFails(t)
  PROVE  CallsHeld'
  <1>0. LifecycleTypeOK /\ LoaderTypeOK /\ CallOK /\ LibrariesKnown /\ CallsHeld /\ opened \in Nat
    BY LifecycleAssumption DEF UnloadInv, LifecycleInv, LifecycleTypeOK, CallOK, LoaderTypeOK
  <1>1. reader' = reader BY <1>0, CallerTypeStep
  <1>2. /\ opened <= opened' /\ opened' \in Nat /\ \A l \in 1 .. opened : mapping'[l] = mapping[l]
        /\ b \in BundleId /\ \A a \in BundleId \ {b} : libraries'[a] = libraries[a]
        /\ call[t] # NoCall => call[t].bundle_id = b
    BY DEF OwnStep
  <1>3. \/ libraries'[b] = libraries[b] /\ deferred \subseteq deferred'
        \/ deferred' = IF libraries[b] = NoLibrary THEN deferred
                       ELSE deferred \cup {[library |-> libraries[b], pins |-> Pinned]}
    <2> DEFINE Goal == \/ libraries'[b] = libraries[b] /\ deferred \subseteq deferred'
                       \/ deferred' = IF libraries[b] = NoLibrary THEN deferred
                                      ELSE deferred \cup {[library |-> libraries[b], pins |-> Pinned]}
    <2>1. ASSUME UNCHANGED loader PROVE Goal BY <2>1 DEF loader
    <2>2. ASSUME LoaderUnload(b) PROVE Goal BY <1>0, <1>2, <2>2, LoaderUnloadFacts
    <2>3. ASSUME LoadOpens(t) \/ ReloadOpens(t) PROVE Goal
      <3>1. UNCHANGED <<libraries, deferred>> BY <2>3, Zenon DEF LoadOpens, ReloadOpens, Dlopen
      <3> QED BY <3>1
    <2>4. ASSUME LoaderInstalls(t) PROVE Goal
      <3>1. Install(call[t].bundle_id, call[t].library) /\ call[t] # NoCall BY <2>4, Zenon DEF LoaderInstalls, In
      <3>2. Install(b, call[t].library) BY <1>2, <3>1
      <3> QED BY <3>2 DEF Install, ScheduleReclaim
    <2>5. ASSUME InitFails(t) PROVE Goal
      <3>1. ScheduleReclaim(call[t].library) /\ UNCHANGED libraries BY <2>5, Zenon DEF InitFails
      <3> QED BY <3>1 DEF ScheduleReclaim
    <2>6. ASSUME LoadCleansUp(t) \/ UnloadReclaims(t) PROVE LoaderUnload(b) \/ UNCHANGED loader
      BY <1>2, <2>6, Zenon DEF LoadCleansUp, UnloadReclaims, In
    <2>7. ASSUME LoadStep(t), ~LoadOpens(t), ~LoadCleansUp(t) PROVE UNCHANGED loader
      BY <2>7, Zenon DEF LoadStep, LoadBegins, LoadOpenFails, LoadCommits, LoadCommitFails, LoadRecordsManifest
    <2>8. ASSUME UnloadStep(t), ~UnloadReclaims(t) PROVE UNCHANGED loader
      BY <2>8, Zenon DEF UnloadStep, UnloadBegins, UnloadNotifies, UnloadInvalidates, UnloadForgets
    <2>9. ASSUME ReloadCallStep(t), ~ReloadOpens(t) PROVE UNCHANGED loader
      BY <2>9, Zenon DEF ReloadCallStep, ReloadBegins, ReloadOpenFails, InitRegisters, ReloadSwaps, ReloadSwapFails, ReloadAborts
    <2> HIDE DEF Goal
    <2>10. Goal BY <2>1, <2>2, <2>3, <2>4, <2>5, <2>6, <2>7, <2>8, <2>9
    <2> QED BY <2>10 DEF Goal
  <1>4. ASSUME NEW r \in Reader, reader[r].phase = "calling", NEW l \in 1 .. opened, HeldBy(r, l)
        PROVE  HeldBy(r, l)'
    <2>0. r \in Pinned /\ l # NoLibrary BY <1>4 DEF Pinned, NoLibrary
    <2>1. deferred \subseteq deferred' BY <1>3
    <2>2. CASE \E a \in BundleId \ {b} : libraries[a] = l BY <1>2, <2>2 DEF HeldBy
    <2>3. CASE libraries[b] = l
      <3>1. CASE libraries'[b] = libraries[b] BY <1>2, <2>3, <3>1 DEF HeldBy
      <3>2. CASE deferred' = deferred \cup {[library |-> libraries[b], pins |-> Pinned]}
        <4> DEFINE d == [library |-> libraries[b], pins |-> Pinned]
        <4>1. d \in deferred' /\ d.library = l /\ d.pins = Pinned BY <2>3, <3>2
        <4> HIDE DEF d
        <4> QED BY <2>0, <4>1 DEF HeldBy
      <3> QED BY <1>3, <2>0, <2>3, <3>1, <3>2
    <2>4. CASE \E d \in deferred : d.library = l /\ r \in d.pins BY <2>1, <2>4 DEF HeldBy
    <2> QED BY <1>4, <2>2, <2>3, <2>4 DEF HeldBy
  <1>5. ASSUME NEW r \in Reader, reader[r].phase = "calling"
        PROVE  \E l \in 1 .. opened' : mapping'[l] = reader[r].image /\ HeldBy(r, l)'
    <2>1. PICK l \in 1 .. opened : mapping[l] = reader[r].image /\ HeldBy(r, l) BY <1>0, <1>5 DEF CallsHeld, HeldBy
    <2>2. HeldBy(r, l)' BY <1>4, <1>5, <2>1
    <2>3. l \in 1 .. opened' BY <1>0, <1>2
    <2> QED BY <1>2, <2>1, <2>2, <2>3
  <1> QED BY <1>1, <1>5 DEF CallsHeld, HeldBy

\* A reader enters a library that is installed, a dlclose waits for every
\* reader that could be in its library, and an unpin is one reader's.
LEMMA ReaderHolds ==
  ASSUME UnloadInv,
         \/ \E r \in Reader : Pin(r) \/ Enter(r) \/ Unpin(r)
         \/ \E d \in deferred : Dlclose(d)
  PROVE  CallsHeld'
  <1>0. /\ LoaderTypeOK /\ StoreInv /\ TypeOK /\ CallsHeld /\ LibraryAccounted
        /\ reader \in [Reader -> [phase : {"out", "pinned", "calling"}, image : Image]]
    BY DEF UnloadInv, LifecycleInv, LifecycleTypeOK
  <1>1. ASSUME NEW r \in Reader, Pin(r) PROVE CallsHeld'
    <2>1. UNCHANGED <<libraries, opened, mapping, deferred>> BY <1>1 DEF Pin, loader
    <2>2. \A q \in Reader : reader'[q].phase = "calling" => reader'[q] = reader[q]
      BY <1>0, <1>1 DEF Pin
    <2> QED BY <1>0, <2>1, <2>2 DEF CallsHeld
  <1>2. ASSUME NEW r \in Reader, Enter(r) PROVE CallsHeld'
    <2>1. UNCHANGED <<libraries, opened, mapping, deferred>> BY <1>2 DEF Enter, loader
    <2>c. PICK c \in GuestContractId : \E s \in guest_contract_index[c] :
            /\ tenant[s] # Vacant
            /\ reader' = [reader EXCEPT ![r] = [phase |-> "calling", image |-> tenant[s].image]]
      BY <1>2 DEF Enter
    <2>2. PICK s \in guest_contract_index[c] :
            /\ tenant[s] # Vacant
            /\ reader' = [reader EXCEPT ![r] = [phase |-> "calling", image |-> tenant[s].image]]
      BY <2>c
    <2>3. s \in Slot /\ tenant[s].bundle_id \in BundleId
      BY <1>0, <2>2 DEF TypeOK, Tenant
    <2> DEFINE a == tenant[s].bundle_id
    <2>4. s \in plugin_slots[a] BY <1>0, <2>2, <2>3 DEF StoreInv, SlotsOwned
    <2>5. reload = Idle /\ Backed(a) BY <2>3, <2>4, AllBacked
    <2>6. tenant[s].image = image[a]
      BY <1>0, <2>2, <2>3, <2>5 DEF StoreInv, ImagesTracked, InitRunning, Idle
    <2>7. libraries[a] \in 1 .. opened BY <1>0, <2>3, <2>5, InstalledOpened DEF Backed
    <2>8. mapping[libraries[a]] = tenant[s].image BY <2>5, <2>6 DEF Backed
    <2>9. reader'[r].image = tenant[s].image /\ \A q \in Reader \ {r} : reader'[q] = reader[q] BY <1>0, <2>2
    <2>10. ASSUME NEW q \in Reader, q # r, reader'[q].phase = "calling"
           PROVE  \E l \in 1 .. opened : /\ mapping[l] = reader'[q].image
                                         /\ \/ \E b \in BundleId : libraries[b] = l
                                            \/ \E d \in deferred : d.library = l /\ q \in d.pins
      BY <1>0, <2>9, <2>10 DEF CallsHeld
    <2> QED BY <2>1, <2>3, <2>7, <2>8, <2>9, <2>10 DEF CallsHeld
  <1>3. ASSUME NEW r \in Reader, Unpin(r) PROVE CallsHeld'
    <2>1. /\ UNCHANGED <<libraries, opened, mapping, closed>>
          /\ \A d \in deferred : \E e \in deferred' : e.library = d.library /\ e.pins = d.pins \ {r}
      BY <1>0, <1>3, UnpinFacts
    <2>2. \A q \in Reader : reader'[q].phase = "calling" => q # r /\ reader'[q] = reader[q]
      BY <1>0, <1>3 DEF Unpin
    <2> SUFFICES ASSUME NEW q \in Reader, reader'[q].phase = "calling"
                 PROVE  \E l \in 1 .. opened' : /\ mapping'[l] = reader'[q].image
                                                /\ \/ \E b \in BundleId : libraries'[b] = l
                                                   \/ \E d \in deferred' : d.library = l /\ q \in d.pins
      BY DEF CallsHeld
    <2>3. PICK l \in 1 .. opened : /\ mapping[l] = reader[q].image
                                   /\ \/ \E b \in BundleId : libraries[b] = l
                                      \/ \E d \in deferred : d.library = l /\ q \in d.pins
      BY <1>0, <2>2 DEF CallsHeld
    <2>4. CASE \E b \in BundleId : libraries[b] = l BY <2>1, <2>2, <2>3, <2>4
    <2>5. CASE \E d \in deferred : d.library = l /\ q \in d.pins
      <3>1. PICK d \in deferred : d.library = l /\ q \in d.pins BY <2>5
      <3>2. PICK e \in deferred' : e.library = d.library /\ e.pins = d.pins \ {r} BY <2>1
      <3> QED BY <2>1, <2>2, <2>3, <3>1, <3>2
    <2> QED BY <2>3, <2>4, <2>5
  <1>4. ASSUME NEW d \in deferred, Dlclose(d) PROVE CallsHeld'
    <2>1. UNCHANGED <<libraries, opened, mapping, reader>> /\ d.pins = {} /\ deferred' = deferred \ {d}
      BY <1>4 DEF Dlclose
    <2> QED BY <1>0, <2>1 DEF CallsHeld
  <1> QED BY <1>1, <1>2, <1>3, <1>4

\* UnloadInv is inductive where hot reload is off.
LEMMA UnloadInvStep ==
  ASSUME CallersApart, ~hot_reload_enabled, UnloadInv, [LifecycleNext]_lifecycleVars
  PROVE  UnloadInv'
  <1>0. LifecycleInv' /\ LifecycleTypeOK' BY LifecycleInvStep DEF UnloadInv, LifecycleInv
  <1>1. ASSUME UNCHANGED <<vars, libraries, bundle_manifests, call>> PROVE ManifestsTracked'
    <2>1. bundle_data' = bundle_data BY <1>1 DEF vars, store
    <2> QED BY <1>1, <2>1 DEF UnloadInv, ManifestsTracked, ManifestTracked, NothingLeft, Busy
  <1>2. CASE UNCHANGED lifecycleVars
    <2>1. CallsHeld' BY <1>2 DEF UnloadInv, CallsHeld, lifecycleVars, loader
    <2>2. ManifestsTracked' BY <1>1, <1>2 DEF lifecycleVars, loader
    <2> QED BY <1>0, <2>1, <2>2 DEF UnloadInv
  <1>3. CASE \/ \E r \in Reader : Pin(r) \/ Enter(r) \/ Unpin(r)
             \/ \E d \in deferred : Dlclose(d)
    <2>1. CallsHeld' BY <1>3, ReaderHolds
    <2>2. UNCHANGED <<vars, libraries, bundle_manifests, call>> BY <1>3, Zenon DEF Pin, Enter, Unpin, Dlclose, loader
    <2> QED BY <1>0, <1>1, <2>1, <2>2 DEF UnloadInv
  <1>4. ASSUME NEW t \in Caller,
               LoadStep(t) \/ UnloadStep(t) \/ ReloadCallStep(t) \/ LoaderInstalls(t) \/ InitFails(t)
        PROVE  UnloadInv'
    <2>0. LifecycleInv BY DEF UnloadInv
    <2>1. PICK b : OwnStep(t, b) /\ OwnInv(t, b)
      BY <1>0, <1>4, <2>0, LoadOwn, CommitOwn, UnloadOwn, LoaderOwn, ReloadOwn, ReloadEndOwn DEF LoadStep, ReloadCallStep
    <2>2. OwnManifest(t, b) BY <1>0, <1>4, <2>1, CallerManifest
    <2>3. ManifestsTracked' BY <1>0, <2>1, <2>2, ManifestsKept
    <2>4. CallsHeld' BY <1>0, <1>4, <2>1, CallerHolds
    <2> QED BY <1>0, <2>3, <2>4 DEF UnloadInv
  <1> QED BY <1>2, <1>3, <1>4 DEF LifecycleNext

\* It holds initially.
LEMMA UnloadInvInit == LifecycleInit => UnloadInv
  <1> SUFFICES ASSUME LifecycleInit PROVE UnloadInv OBVIOUS
  <1>1. LifecycleInv BY LifecycleInvInit
  <1>2. \A t \in Caller : call[t] = NoCall BY DEF LifecycleInit
  <1>3. bundle_data = {} BY DEF LifecycleInit, Init
  <1>4. ManifestsTracked
    BY <1>2, <1>3 DEF LifecycleInit, ManifestsTracked, ManifestTracked, NothingLeft, NoLibrary
  <1>5. CallsHeld BY DEF LifecycleInit, CallsHeld
  <1> QED BY <1>1, <1>4, <1>5 DEF UnloadInv

\* Where hot reload is off and no two callers work on one bundle, the manifests
\* follow the registry and every call under a pin is in a library that is
\* installed or waits for that pin.
THEOREM UnloadInvariant ==
  ASSUME CallersApart
  PROVE  LifecycleSpec => [](hot_reload_enabled \/ UnloadInv)
  <1>1. (hot_reload_enabled \/ UnloadInv) /\ [LifecycleNext]_lifecycleVars => (hot_reload_enabled \/ UnloadInv)'
    <2> SUFFICES ASSUME hot_reload_enabled \/ UnloadInv, [LifecycleNext]_lifecycleVars
                 PROVE  hot_reload_enabled' \/ UnloadInv'
      OBVIOUS
    <2>1. hot_reload_enabled' = hot_reload_enabled BY DEF LifecycleNext, lifecycleVars
    <2>2. CASE hot_reload_enabled BY <2>1, <2>2
    <2>3. CASE ~hot_reload_enabled BY <2>3, UnloadInvStep
    <2> QED BY <2>2, <2>3
  <1> QED BY <1>1, UnloadInvInit, PTL DEF LifecycleSpec

\* No call under an epoch pin ever runs in an unmapped image (schedule_reclaim
\* defers dlclose past the pins of its moment).
THEOREM PinnedCallsMapped ==
  ASSUME CallersApart
  PROVE  LifecycleSpec => []ColdCallMapped
  <1>1. hot_reload_enabled \/ UnloadInv => ColdCallMapped
    <2> SUFFICES ASSUME UnloadInv, NEW r \in Reader, reader[r].phase = "calling" PROVE Mapped(reader[r].image)
      BY DEF ColdCallMapped, PinnedCallMapped
    <2>1. PICK l \in 1 .. opened : /\ mapping[l] = reader[r].image
                                   /\ \/ \E b \in BundleId : libraries[b] = l
                                      \/ \E d \in deferred : d.library = l /\ r \in d.pins
      BY DEF UnloadInv, CallsHeld
    <2>2. l # NoLibrary BY DEF NoLibrary
    <2>3. l \in Installed \cup Waiting BY <2>1, <2>2 DEF Installed, Waiting
    <2>4. l \notin closed BY <2>3 DEF UnloadInv, LifecycleInv, LibraryAccounted
    <2> QED BY <2>1, <2>4 DEF Mapped
  <1> QED BY <1>1, UnloadInvariant, PTL

\* Every interface a lock-free reader can find is backed by a mapped image: the
\* commit publishes after the install, the unload reclaims after the registry
\* forgot the bundle.
THEOREM PublishedInterfacesMapped ==
  ASSUME CallersApart
  PROVE  LifecycleSpec => []PublishedMapped
  <1>1. hot_reload_enabled \/ UnloadInv => PublishedMapped
    <2> SUFFICES ASSUME UnloadInv, NEW c \in GuestContractId, NEW s \in published.index[c], published.tenant[s] # Vacant
                 PROVE  Mapped(published.tenant[s].image)
      BY DEF PublishedMapped
    <2>0. StoreInv /\ TypeOK /\ LibraryAccounted BY DEF UnloadInv, LifecycleInv, StoreInv
    <2>1. published.index = guest_contract_index /\ published.tenant = tenant BY <2>0 DEF StoreInv, PublishedCurrent
    <2>2. s \in Slot /\ tenant[s] # Vacant BY <2>0, <2>1 DEF TypeOK
    <2>3. tenant[s].bundle_id \in BundleId BY <2>0, <2>2 DEF TypeOK, Tenant
    <2> DEFINE a == tenant[s].bundle_id
    <2>4. s \in plugin_slots[a] BY <2>0, <2>2, <2>3 DEF StoreInv, SlotsOwned
    <2>5. reload = Idle /\ Backed(a) BY <2>3, <2>4, AllBacked
    <2>6. tenant[s].image = image[a] BY <2>0, <2>2, <2>5 DEF StoreInv, ImagesTracked, InitRunning, Idle
    <2>7. libraries[a] \in 1 .. opened /\ libraries[a] \in Installed
      BY <2>0, <2>3, <2>5, InstalledOpened DEF Backed, Installed
    <2>8. libraries[a] \notin closed BY <2>0, <2>7 DEF LibraryAccounted
    <2> QED BY <2>1, <2>5, <2>6, <2>7, <2>8 DEF Mapped, Backed
  <1> QED BY <1>1, UnloadInvariant, PTL

\* An unloaded bundle that no call works on has left no library installed and
\* no manifest (unload_bundle, NativeLoader::unload).
THEOREM UnloadsReclaim ==
  ASSUME CallersApart
  PROVE  LifecycleSpec => []UnloadedReclaimed
  <1>1. hot_reload_enabled \/ UnloadInv => UnloadedReclaimed
    BY DEF UnloadedReclaimed, UnloadInv, ManifestsTracked
  <1> QED BY <1>1, UnloadInvariant, PTL
=============================================================================
