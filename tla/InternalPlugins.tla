-------------------------- MODULE InternalPlugins --------------------------
(***************************************************************************)
(* Internal plugins: bundles whose providers live in the host process      *)
(* (runtime.rs, ffi.rs), the backing each one has (a Rust root, a native   *)
(* resident, or memory of the foreign wrapper), and the instance counts    *)
(* that keep that backing alive.                                           *)
(*                                                                         *)
(* The registry is abstracted to the registration each bundle has          *)
(* published.  A plugin is one registration transaction, numbered as it    *)
(* begins.  The mutexes that a call keeps from one step to the next are    *)
(* explicit: unload takes instance_counts, then internal_plugin_roots, then*)
(* the residents; the generated Rust registration keeps the roots from     *)
(* begin to the end of its commit.  internal_plugin_lifecycle, the registry*)
(* lock and the staging area are taken and released within a step.         *)
(***************************************************************************)
EXTENDS Integers, FiniteSets

CONSTANTS
  InternalBundle,     \* names registered by begin_internal_plugin
  LoaderBundle,       \* names of bundles loaded through a loader
  Thread,             \* threads that register, load and unload
  User,               \* threads that create and destroy instances
  Disciplined,        \* the host keeps lifecycle calls for one bundle apart
  MaxPlugins,         \* bound: transactions in a behaviour
  None

BundleId == InternalBundle \cup LoaderBundle
Plugin == 1 .. MaxPlugins
NoPlugin == 0

ASSUME InternalPluginsAssumption ==
  /\ MaxPlugins \in Nat
  /\ Disciplined \in BOOLEAN
  /\ None \notin Thread \cup BundleId
  /\ IsFiniteSet(User)

VARIABLES
  begun,       \* number of transactions begun
  plugin,      \* what each transaction is
  txn,         \* the transaction each thread has open (prepared_bundles)
  registered,  \* the registration each bundle has published
  internal_plugin_lifecycle,
  internal_plugin_roots,
  internal_plugin_residents,
  instance_counts,
  held,        \* the thread that holds each mutex
  unload,      \* the unload each thread is in
  user,        \* the instance each user has
  releasedBy,  \* the thread that released a plugin's backing
  alive        \* the runtime exists

vars == <<begun, plugin, txn, registered, internal_plugin_lifecycle,
          internal_plugin_roots, internal_plugin_residents, instance_counts,
          held, unload, user, releasedBy, alive>>

Mutex == {"counts", "roots", "residents"}
Bundle == [p \in Plugin |-> plugin[p].bundle_id]

TypeOK ==
  /\ begun \in 0 .. MaxPlugins
  /\ plugin \in [Plugin -> [bundle_id : BundleId \cup {None}, internal : BOOLEAN,
                            generated : BOOLEAN, resident : BOOLEAN,
                            thread : Thread \cup {None}]]
  /\ txn \in [Thread -> [phase : {"none", "staged", "published", "failed"},
                         plugin : Plugin \cup {NoPlugin}]]
  /\ registered \in [BundleId -> Plugin \cup {NoPlugin}]
  /\ internal_plugin_lifecycle \subseteq BundleId
  /\ internal_plugin_roots \in [BundleId -> Plugin \cup {NoPlugin}]
  /\ internal_plugin_residents \in [BundleId -> Plugin \cup {NoPlugin}]
  /\ instance_counts \in [BundleId -> Nat]
  /\ held \in [Mutex -> Thread \cup {None}]
  /\ unload \in [Thread -> [phase : {"none", "checked", "counts", "roots", "residents", "release"},
                            bundle_id : BundleId \cup {None}, plugin : Plugin \cup {NoPlugin}]]
  /\ user \in [User -> [phase : {"out", "constructing", "live", "noting"},
                        plugin : Plugin \cup {NoPlugin}]]
  /\ releasedBy \in [Plugin -> Thread \cup {None}]
  /\ alive \in BOOLEAN

-----------------------------------------------------------------------------
Free(m) == held[m] = None
NoTxn == [phase |-> "none", plugin |-> NoPlugin]
NoUnload == [phase |-> "none", bundle_id |-> None, plugin |-> NoPlugin]

\* Thread t is in no call of its own: a foreign transaction may be open.
Available(t) ==
  /\ alive /\ unload[t] = NoUnload
  /\ \/ txn[t] = NoTxn
     \/ txn[t].phase = "staged" /\ ~plugin[txn[t].plugin].generated

Pending(b) == \E t \in Thread : txn[t] # NoTxn /\ Bundle[txn[t].plugin] = b
Unloading(b) == \E t \in Thread : unload[t].bundle_id = b

New(b, internal, generated, t) ==
  /\ begun < MaxPlugins
  /\ begun' = begun + 1
  /\ plugin' = [plugin EXCEPT ![begun + 1] =
       [bundle_id |-> b, internal |-> internal, generated |-> generated,
        resident |-> FALSE, thread |-> t]]

Release(p, t) == releasedBy' = [releasedBy EXCEPT ![p] = t]

\* Faulty variant: the generated registration does not lock the roots.
BeginUnlocked(t, b, generated) ==
  /\ Available(t) /\ txn[t] = NoTxn
  /\ registered[b] = NoPlugin
  /\ Disciplined => ~Pending(b) /\ ~Unloading(b)
  /\ New(b, TRUE, generated, t)
  /\ txn' = [txn EXCEPT ![t] = [phase |-> "staged", plugin |-> begun + 1]]
  /\ internal_plugin_lifecycle' = internal_plugin_lifecycle \cup {b}
  /\ UNCHANGED <<registered, internal_plugin_roots, internal_plugin_residents,
                 instance_counts, held, unload, user, releasedBy, alive>>
\* begin_internal_plugin, from polyplug_begin_internal_plugin or, with the
\* roots locked first, from register_generated_internal_plugin.
BeginInternalPlugin(t, b, generated) ==
  /\ Available(t) /\ txn[t] = NoTxn
  /\ generated => Free("roots")
  /\ registered[b] = NoPlugin
  /\ Disciplined => ~Pending(b) /\ ~Unloading(b)
  /\ New(b, TRUE, generated, t)
  /\ txn' = [txn EXCEPT ![t] = [phase |-> "staged", plugin |-> begun + 1]]
  /\ internal_plugin_lifecycle' = internal_plugin_lifecycle \cup {b}
  /\ held' = IF generated THEN [held EXCEPT !["roots"] = t] ELSE held
  /\ UNCHANGED <<registered, internal_plugin_roots, internal_plugin_residents,
                 instance_counts, unload, user, releasedBy, alive>>

\* attach_internal_plugin_resident: on the thread that owns it, once.
AttachResident(t) ==
  /\ Available(t) /\ txn[t].phase = "staged"
  /\ ~plugin[txn[t].plugin].resident
  /\ plugin' = [plugin EXCEPT ![txn[t].plugin].resident = TRUE]
  /\ UNCHANGED <<begun, txn, registered, internal_plugin_lifecycle, internal_plugin_roots,
                 internal_plugin_residents, instance_counts, held, unload, user,
                 releasedBy, alive>>

\* The end of a transaction; a generated one gives up the roots.
CloseTxn(t) ==
  /\ txn' = [txn EXCEPT ![t] = NoTxn]
  /\ held' = IF plugin[txn[t].plugin].generated THEN [held EXCEPT !["roots"] = None] ELSE held

\* abort_internal_plugin, by the foreign caller or after a failed stage.
AbortInternalPlugin(t) ==
  /\ alive /\ unload[t] = NoUnload /\ txn[t].phase = "staged"
  /\ Release(txn[t].plugin, t)
  /\ internal_plugin_lifecycle' = internal_plugin_lifecycle \ {Bundle[txn[t].plugin]}
  /\ CloseTxn(t)
  /\ UNCHANGED <<begun, plugin, registered, internal_plugin_roots,
                 internal_plugin_residents, instance_counts, unload, user, alive>>

\* commit_prepared_bundle_transaction_with_handles publishes, with the resident
\* under the residents lock.
CommitPublishes(t) ==
  LET p == txn[t].plugin
      b == Bundle[p]
  IN  /\ alive /\ unload[t] = NoUnload /\ txn[t].phase = "staged"
      /\ Free("residents")
      /\ registered[b] = NoPlugin
      /\ registered' = [registered EXCEPT ![b] = p]
      /\ internal_plugin_residents' =
           IF plugin[p].resident THEN [internal_plugin_residents EXCEPT ![b] = p]
           ELSE internal_plugin_residents
      /\ IF plugin[p].generated
         THEN txn' = [txn EXCEPT ![t].phase = "published"] /\ UNCHANGED held
         ELSE CloseTxn(t)
      /\ UNCHANGED <<begun, plugin, internal_plugin_lifecycle, internal_plugin_roots,
                     instance_counts, unload, user, releasedBy, alive>>

\* The commit fails (provider set, function counts, or the registry refuses):
\* the resident is dropped on the way out.
CommitFails(t) ==
  /\ alive /\ unload[t] = NoUnload /\ txn[t].phase = "staged"
  /\ Release(txn[t].plugin, t)
  /\ txn' = [txn EXCEPT ![t].phase = "failed"]
  /\ UNCHANGED <<begun, plugin, registered, internal_plugin_lifecycle, internal_plugin_roots,
                 internal_plugin_residents, instance_counts, held, unload, user, alive>>

\* After a failed commit: remove_internal_plugin_lifecycle_marker.
CommitRemovesMarker(t) ==
  /\ txn[t].phase = "failed"
  /\ internal_plugin_lifecycle' = internal_plugin_lifecycle \ {Bundle[txn[t].plugin]}
  /\ CloseTxn(t)
  /\ UNCHANGED <<begun, plugin, registered, internal_plugin_roots,
                 internal_plugin_residents, instance_counts, unload, user,
                 releasedBy, alive>>

\* register_generated_internal_plugin stores the root and unlocks.
InsertRoot(t) ==
  /\ txn[t].phase = "published"
  /\ internal_plugin_roots' =
       [internal_plugin_roots EXCEPT ![Bundle[txn[t].plugin]] = txn[t].plugin]
  /\ CloseTxn(t)
  /\ UNCHANGED <<begun, plugin, registered, internal_plugin_lifecycle,
                 internal_plugin_residents, instance_counts, unload, user,
                 releasedBy, alive>>

\* A bundle is loaded through a loader (BundleLifecycle).
LoadBundle(t, b) ==
  /\ Available(t) /\ txn[t] = NoTxn
  /\ registered[b] = NoPlugin /\ Free("residents")
  /\ Disciplined => ~Pending(b) /\ ~Unloading(b)
  /\ New(b, FALSE, FALSE, t)
  /\ registered' = [registered EXCEPT ![b] = begun + 1]
  /\ UNCHANGED <<txn, internal_plugin_lifecycle, internal_plugin_roots,
                 internal_plugin_residents, instance_counts, held, unload, user,
                 releasedBy, alive>>

-----------------------------------------------------------------------------
UnloadStep(t, phase) == unload' = [unload EXCEPT ![t].phase = phase]

\* Faulty variant: any thread may unload.
AnyThread(t, b) == TRUE
\* ensure_registered_bundle_resident_affinity.
ResidentAffinity(t, b) ==
  LET p == internal_plugin_residents[b]
  IN  p # NoPlugin => plugin[p].thread = t

\* unload_bundle up to the Unloading callback.
UnloadChecks(t, b) ==
  /\ Available(t)
  /\ registered[b] # NoPlugin
  /\ Free("residents") /\ ResidentAffinity(t, b)
  /\ unload' = [unload EXCEPT ![t] = [phase |-> "checked", bundle_id |-> b, plugin |-> NoPlugin]]
  /\ UNCHANGED <<begun, plugin, txn, registered, internal_plugin_lifecycle, internal_plugin_roots,
                 internal_plugin_residents, instance_counts, held, user, releasedBy, alive>>

\* Faulty variant: the residents are locked before the roots.
ResidentsFirst(phase) ==
  CASE phase = "checked" -> "counts" [] phase = "counts" -> "residents"
    [] phase = "residents" -> "roots" [] OTHER -> "none"
\* The order unload_registered_bundle takes its locks in.
NextMutex(phase) ==
  CASE phase = "checked" -> "counts" [] phase = "counts" -> "roots"
    [] phase = "roots" -> "residents" [] OTHER -> "none"

UnloadLocks(t) ==
  LET m == NextMutex(unload[t].phase)
  IN  /\ m \in Mutex /\ Free(m)
      /\ held' = [held EXCEPT ![m] = t]
      /\ UnloadStep(t, m)
      /\ UNCHANGED <<begun, plugin, txn, registered, internal_plugin_lifecycle,
                     internal_plugin_roots, internal_plugin_residents, instance_counts,
                     user, releasedBy, alive>>

UnlockAll(t) == held' = [m \in Mutex |-> IF held[m] = t THEN None ELSE held[m]]
AllLocked(t) == unload[t].phase # "release" /\ \A m \in Mutex : held[m] = t

\* Faulty variant: instances never count.
NeverInUse(b) == FALSE
\* InternalPluginInUse: the bundle has internal backing and live instances.
InUse(b) ==
  /\ \/ b \in internal_plugin_lifecycle
     \/ internal_plugin_roots[b] # NoPlugin
     \/ internal_plugin_residents[b] # NoPlugin
  /\ instance_counts[b] > 0

UnloadRefused(t) ==
  /\ AllLocked(t) /\ InUse(unload[t].bundle_id)
  /\ UnlockAll(t)
  /\ unload' = [unload EXCEPT ![t] = NoUnload]
  /\ UNCHANGED <<begun, plugin, txn, registered, internal_plugin_lifecycle,
                 internal_plugin_roots, internal_plugin_residents, instance_counts,
                 user, releasedBy, alive>>

\* Resident, root, registration, marker and count go together, then the locks.
UnloadInvalidates(t) ==
  LET b == unload[t].bundle_id
  IN  /\ AllLocked(t) /\ ~InUse(b)
      /\ internal_plugin_residents' = [internal_plugin_residents EXCEPT ![b] = NoPlugin]
      /\ internal_plugin_roots' = [internal_plugin_roots EXCEPT ![b] = NoPlugin]
      /\ registered' = [registered EXCEPT ![b] = NoPlugin]
      /\ internal_plugin_lifecycle' = internal_plugin_lifecycle \ {b}
      /\ instance_counts' = [instance_counts EXCEPT ![b] = 0]
      /\ UnlockAll(t)
      /\ unload' = [unload EXCEPT ![t].phase = "release", ![t].plugin = registered[b]]
      /\ UNCHANGED <<begun, plugin, txn, user, releasedBy, alive>>

\* Faulty variant: the backing an unload took is not released.
UnloadReturns(t) ==
  /\ unload[t].phase = "release"
  /\ unload' = [unload EXCEPT ![t] = NoUnload]
  /\ UNCHANGED <<begun, plugin, txn, registered, internal_plugin_lifecycle,
                 internal_plugin_roots, internal_plugin_residents, instance_counts,
                 held, user, releasedBy, alive>>
\* The loader reclaims; the resident is released and the root dropped; a
\* foreign wrapper frees its own backing when the call returns.
UnloadReleases(t) ==
  /\ unload[t].phase = "release"
  /\ IF unload[t].plugin = NoPlugin THEN UNCHANGED releasedBy ELSE Release(unload[t].plugin, t)
  /\ unload' = [unload EXCEPT ![t] = NoUnload]
  /\ UNCHANGED <<begun, plugin, txn, registered, internal_plugin_lifecycle,
                 internal_plugin_roots, internal_plugin_residents, instance_counts,
                 held, user, alive>>

-----------------------------------------------------------------------------
userOnly == <<begun, plugin, txn, registered, internal_plugin_lifecycle, internal_plugin_roots,
              internal_plugin_residents, held, unload, releasedBy, alive>>

\* begin_guest_instance_construction: the interface must still be registered.
BeginConstruction(u, b) ==
  /\ alive /\ user[u].phase = "out"
  /\ Free("counts") /\ registered[b] # NoPlugin
  /\ instance_counts' = [instance_counts EXCEPT ![b] = @ + 1]
  /\ user' = [user EXCEPT ![u] = [phase |-> "constructing", plugin |-> registered[b]]]
  /\ UNCHANGED userOnly

\* The constructor returns state.
Constructed(u) ==
  /\ user[u].phase = "constructing"
  /\ user' = [user EXCEPT ![u].phase = "live"]
  /\ UNCHANGED <<userOnly, instance_counts>>

\* Faulty variant: the count stays.
KeepCount(b) == UNCHANGED instance_counts
\* note_instance_destroyed: saturating, by bundle id.
NoteInstanceDestroyed(b) ==
  instance_counts' = [instance_counts EXCEPT ![b] = IF @ = 0 THEN 0 ELSE @ - 1]

\* The constructor returns no state: cancel_guest_instance_construction.
CancelConstruction(u) ==
  /\ user[u].phase = "constructing" /\ Free("counts")
  /\ NoteInstanceDestroyed(Bundle[user[u].plugin])
  /\ user' = [user EXCEPT ![u] = [phase |-> "out", plugin |-> NoPlugin]]
  /\ UNCHANGED userOnly

\* host_destroy_guest_instance: destroy_instance has run; the owner of the
\* interface is looked up, ...
DestroyInstance(u) ==
  LET p == user[u].plugin
  IN  /\ user[u].phase = "live"
      /\ user' = [user EXCEPT ![u] =
           IF registered[Bundle[p]] = p THEN [phase |-> "noting", plugin |-> p]
           ELSE [phase |-> "out", plugin |-> NoPlugin]]
      /\ UNCHANGED <<userOnly, instance_counts>>

\* ... and then, if there is one, its count goes down.
NoteDestroyed(u) ==
  /\ user[u].phase = "noting" /\ Free("counts")
  /\ NoteInstanceDestroyed(Bundle[user[u].plugin])
  /\ user' = [user EXCEPT ![u] = [phase |-> "out", plugin |-> NoPlugin]]
  /\ UNCHANGED userOnly

\* polyplug_runtime_destroy, which the host calls when nothing else runs:
\* refused while another thread owns a live or staged resident.
DestroyRuntime(t) ==
  /\ \A u \in User : user[u].phase = "out"
  /\ \A s \in Thread : Available(s)
  /\ \A s \in Thread \ {t} : txn[s] # NoTxn => ~plugin[txn[s].plugin].resident
  /\ \A b \in BundleId : ResidentAffinity(t, b)
  /\ alive' = FALSE
  /\ releasedBy' = [p \in Plugin |->
       IF p <= begun /\ releasedBy[p] = None THEN t ELSE releasedBy[p]]
  /\ txn' = [s \in Thread |-> NoTxn]
  /\ registered' = [b \in BundleId |-> NoPlugin]
  /\ internal_plugin_roots' = [b \in BundleId |-> NoPlugin]
  /\ internal_plugin_residents' = [b \in BundleId |-> NoPlugin]
  /\ internal_plugin_lifecycle' = {}
  /\ UNCHANGED <<begun, plugin, instance_counts, held, unload, user>>

-----------------------------------------------------------------------------
Init ==
  /\ begun = 0
  /\ plugin = [p \in Plugin |-> [bundle_id |-> None, internal |-> FALSE, generated |-> FALSE,
                                 resident |-> FALSE, thread |-> None]]
  /\ txn = [t \in Thread |-> NoTxn]
  /\ registered = [b \in BundleId |-> NoPlugin]
  /\ internal_plugin_lifecycle = {}
  /\ internal_plugin_roots = [b \in BundleId |-> NoPlugin]
  /\ internal_plugin_residents = [b \in BundleId |-> NoPlugin]
  /\ instance_counts = [b \in BundleId |-> 0]
  /\ held = [m \in Mutex |-> None]
  /\ unload = [t \in Thread |-> NoUnload]
  /\ user = [u \in User |-> [phase |-> "out", plugin |-> NoPlugin]]
  /\ releasedBy = [p \in Plugin |-> None]
  /\ alive = TRUE

ThreadStep(t) ==
  \/ \E b \in InternalBundle, generated \in BOOLEAN : BeginInternalPlugin(t, b, generated)
  \/ AttachResident(t) \/ AbortInternalPlugin(t)
  \/ CommitPublishes(t) \/ CommitFails(t) \/ CommitRemovesMarker(t) \/ InsertRoot(t)
  \/ \E b \in LoaderBundle : LoadBundle(t, b)
  \/ \E b \in BundleId : UnloadChecks(t, b)
  \/ UnloadLocks(t) \/ UnloadRefused(t) \/ UnloadInvalidates(t) \/ UnloadReleases(t)
  \/ DestroyRuntime(t)

UserStep(u) ==
  \/ \E b \in BundleId : BeginConstruction(u, b)
  \/ Constructed(u) \/ CancelConstruction(u) \/ DestroyInstance(u) \/ NoteDestroyed(u)

Next == (\E t \in Thread : ThreadStep(t)) \/ (\E u \in User : UserStep(u))

Spec == Init /\ [][Next]_vars

-----------------------------------------------------------------------------
\* While a constructor runs or an instance lives, the backing of its internal
\* plugin has not been released: "construction keeps internal backing alive"
\* (host_create_guest_instance_impl, unload_registered_bundle).
BackingAlive ==
  \A u \in User :
    user[u].phase \in {"constructing", "live"} /\ plugin[user[u].plugin].internal
      => releasedBy[user[u].plugin] = None

\* A resident is released by the thread that owns it (the assertions in
\* InternalPluginResident::release and its drop).
ResidentOnOwner ==
  \A p \in Plugin :
    plugin[p].resident /\ releasedBy[p] # None => releasedBy[p] = plugin[p].thread

\* Where the backing of a transaction may be.
Staged(p) == {t \in Thread : txn[t].phase = "staged" /\ txn[t].plugin = p}
Leaving(p) == {t \in Thread : unload[t].plugin = p}
Published(p) == {b \in BundleId : registered[b] = p}
ReleasedBy(p) == {t \in Thread : releasedBy[p] = t}
Places(p) ==
  ({"staged"} \X Staged(p)) \cup ({"leaving"} \X Leaving(p))
    \cup ({"published"} \X Published(p)) \cup ({"released"} \X ReleasedBy(p))

\* Every transaction's backing is in one place: staged, published, on its way
\* out of an unload, or released (no path of begin, commit, abort and unload
\* loses a resident or a root, or releases it while it is in use).
BackingAccounted == \A p \in 1 .. begun : \E place \in Places(p) : Places(p) = {place}

\* A published generated plugin whose registration call has let go of the roots
\* is backed by its root, a resident is filed under the registration it came
\* with: "unload cannot observe published interfaces before their backing
\* aggregate is runtime-owned" (register_generated_internal_plugin).
BackingFiled ==
  \A b \in BundleId :
    /\ internal_plugin_roots[b] =
         IF registered[b] # NoPlugin /\ plugin[registered[b]].generated
            /\ ~\E t \in Thread : txn[t] = [phase |-> "published", plugin |-> registered[b]]
         THEN registered[b] ELSE NoPlugin
    /\ internal_plugin_residents[b] =
         IF registered[b] # NoPlugin /\ plugin[registered[b]].resident
         THEN registered[b] ELSE NoPlugin

\* The count of a published internal plugin is the number of its constructors
\* and instances (instance_counts).
CountExact ==
  \A b \in InternalBundle \ LoaderBundle :
    instance_counts[b] =
      Cardinality({u \in User : /\ user[u].phase # "out" /\ registered[b] # NoPlugin
                                /\ user[u].plugin = registered[b]})

\* The mutex a thread cannot go on without, if any.
Awaits(t) ==
  IF unload[t] # NoUnload THEN NextMutex(unload[t].phase)
  ELSE IF txn[t].phase = "staged" THEN "residents" ELSE "none"

\* No threads wait for each other's mutexes (unload_registered_bundle: "always
\* acquires backing locks in this order").
NoLockCycle ==
  \A S \in SUBSET Thread : S # {} =>
    ~\A t \in S : Awaits(t) \in Mutex /\ held[Awaits(t)] \in S

-----------------------------------------------------------------------------
(***************************************************************************)
(* What the properties rest on, whatever the host does.                    *)
(***************************************************************************)

\* A thread's transaction is its own, and its registration stays while the call
\* that published it has the roots.
TxnsTracked ==
  \A t \in Thread :
    IF txn[t].phase = "none" THEN txn[t] = NoTxn
    ELSE LET p == txn[t].plugin
         IN  /\ p \in 1 .. begun /\ plugin[p].thread = t
             /\ plugin[p].internal /\ plugin[p].bundle_id \in InternalBundle
             /\ txn[t].phase = "published" =>
                  plugin[p].generated /\ registered[plugin[p].bundle_id] = p

\* An unload runs while its thread has no transaction, or a foreign one.
UnloadsTracked ==
  \A t \in Thread :
    IF unload[t].phase = "none" THEN unload[t] = NoUnload
    ELSE /\ unload[t].bundle_id \in BundleId
         /\ unload[t].plugin \in (IF unload[t].phase = "release" THEN 1 .. begun ELSE {}) \cup {NoPlugin}
         /\ txn[t] # NoTxn => txn[t].phase = "staged" /\ ~plugin[txn[t].plugin].generated

\* Who holds the mutexes.
LocksTracked ==
  \A t \in Thread :
    /\ held["counts"] = t <=> unload[t].phase \in {"counts", "roots", "residents"}
    /\ held["roots"] = t <=> \/ unload[t].phase \in {"roots", "residents"}
                             \/ txn[t] # NoTxn /\ plugin[txn[t].plugin].generated
    /\ held["residents"] = t <=> unload[t].phase = "residents"

\* A registration is of the bundle's own plugin.
RegistrationsTracked ==
  /\ \A b \in BundleId : registered[b] # NoPlugin =>
       LET p == registered[b]
       IN  /\ p \in 1 .. begun /\ plugin[p].bundle_id = b
           /\ plugin[p].internal \/ b \in LoaderBundle
  /\ \A p \in Plugin : p > begun => releasedBy[p] = None

\* The inductive invariant of any host.
BackingInv ==
  /\ TypeOK /\ TxnsTracked /\ UnloadsTracked /\ LocksTracked /\ RegistrationsTracked
  /\ BackingAccounted /\ BackingFiled

(***************************************************************************)
(* What they rest on where the host keeps lifecycle calls for one bundle   *)
(* apart, and the names of its own plugins apart from those of bundles.    *)
(***************************************************************************)
NamesApart == InternalBundle \cap LoaderBundle = {}

NamesTracked ==
  \A p \in 1 .. begun :
    plugin[p].bundle_id \in (IF plugin[p].internal THEN InternalBundle ELSE LoaderBundle)

PendingApart ==
  /\ \A t, s \in Thread :
       txn[t] # NoTxn /\ txn[s] # NoTxn /\ Bundle[txn[t].plugin] = Bundle[txn[s].plugin] => t = s
  /\ \A t \in Thread : txn[t].phase \in {"staged", "failed"} =>
       registered[Bundle[txn[t].plugin]] = NoPlugin /\ ~Unloading(Bundle[txn[t].plugin])

\* An internal bundle keeps its marker while it is staged or published.
Marked ==
  /\ \A t \in Thread : txn[t].phase = "staged" => Bundle[txn[t].plugin] \in internal_plugin_lifecycle
  /\ \A b \in BundleId : registered[b] # NoPlugin /\ plugin[registered[b]].internal =>
       b \in internal_plugin_lifecycle

\* An unload that passed the affinity check takes a resident of its own thread.
AffinityKept ==
  \A t \in Thread :
    LET b == unload[t].bundle_id
        p == unload[t].plugin
    IN  /\ unload[t].phase \notin {"none", "release"} /\ registered[b] # NoPlugin
             /\ plugin[registered[b]].resident => plugin[registered[b]].thread = t
        /\ p # NoPlugin /\ plugin[p].resident => plugin[p].thread = t

\* The plugin of an internal instance is still registered.
UsersTracked ==
  \A u \in User : user[u].phase # "out" =>
    LET p == user[u].plugin
    IN  /\ p \in 1 .. begun
        /\ plugin[p].internal => registered[Bundle[p]] = p

\* The inductive invariant of a disciplined host.
HostInv ==
  /\ BackingInv /\ NamesTracked /\ PendingApart /\ Marked /\ AffinityKept /\ UsersTracked
  /\ CountExact /\ ResidentOnOwner
=============================================================================
