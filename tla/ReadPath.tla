------------------------------ MODULE ReadPath ------------------------------
(***************************************************************************)
(* The lock-free read path of runtime_store.rs, one step finer than        *)
(* RuntimeStore: publish() swaps the ReadView, defers the old one to the   *)
(* epoch and only then bumps the revision; readers pin, load the view and  *)
(* use it; generated callers (polyplug_codegen) cache an interface without *)
(* a pin and compare the revision before each dispatch.                    *)
(*                                                                         *)
(* One slot is followed.  An interface is a number, new with each          *)
(* registration; a view keeps what it shows of the slot alive (Arc), and   *)
(* so does the slot itself.  Callers tell interfaces apart by their        *)
(* addresses, which the allocator gives out again once an interface is     *)
(* freed; an instance is the interface that created it.                    *)
(***************************************************************************)
EXTENDS Integers

CONSTANTS
  Reader,             \* threads that use the view under a pin
  Client,             \* generated callers
  Writer,             \* the thread in publish()
  MaxPublications     \* bound: publications in a behaviour

ASSUME ReadPathAssumption ==
  /\ MaxPublications \in Nat
  /\ Writer \notin Reader

View == 0 .. MaxPublications
Interface == 1 .. MaxPublications
Null == 0
SlotView == [interface : Interface \cup {Null}, generation : View]

VARIABLES
  slot,       \* the slot in the locked data
  address,    \* of each interface, Null for one not made yet
  view,       \* what each ReadView published so far shows of it
  published,  \* RuntimeStore.published
  revision,   \* RuntimeStore.revision
  writer,     \* where the holder of the write lock is in publish()
  deferred,   \* views given to defer_destroy, with the pins they wait for
  freed,      \* views destroyed
  reader,     \* a reader's guard and the view it loaded
  client      \* a generated caller's handle, interface, instance and cached_revision,
              \* and (history) the view its interface was resolved in

vars == <<slot, address, view, published, revision, writer, deferred, freed, reader, client>>

TypeOK ==
  /\ slot \in SlotView
  /\ address \in [Interface -> Interface \cup {Null}]
  /\ view \in [View -> SlotView]
  /\ published \in View /\ revision \in View
  /\ writer \in {"idle", "mutated", "swapped"}
  /\ deferred \subseteq [view : View, pins : SUBSET (Reader \cup {Writer})]
  /\ freed \subseteq View
  /\ reader \in [Reader -> [phase : {"out", "pinned", "loaded"}, view : View]]
  /\ client \in [Client -> [phase : {"none", "resolved", "created", "ready", "gone"}, generation : View,
                            interface : Interface \cup {Null}, instance : Interface \cup {Null},
                            revision : View, resolved_in : View]]

-----------------------------------------------------------------------------
\* Faulty variant: the guard is dropped before the view is used.
PinnedUntilLoad == {r \in Reader : reader[r].phase = "pinned"}
Pinned == {r \in Reader : reader[r].phase # "out"}

InterfaceAlive(i) ==
  \/ slot.interface = i
  \/ \E n \in 0 .. published : n \notin freed /\ view[n].interface = i

\* The allocator places interface i; an address is free when what had it is.
Place(i) ==
  \E a \in {i} \cup {address[j] : j \in {x \in 1 .. i - 1 : address[x] # Null}} :
    /\ \A j \in 1 .. i - 1 : address[j] = a => ~InterfaceAlive(j)
    /\ address' = [address EXCEPT ![i] = a]

\* A mutation under the write lock: it replaces the slot's interface (a load
\* or a reload), vacates the slot (an unload), or is about another slot.
Mutate ==
  /\ writer = "idle" /\ published < MaxPublications
  /\ \/ slot' = [slot EXCEPT !.interface = published + 1] /\ Place(published + 1)
     \/ /\ slot.interface # Null /\ slot' = [interface |-> Null, generation |-> slot.generation + 1]
        /\ UNCHANGED address
     \/ UNCHANGED <<slot, address>>
  /\ writer' = "mutated"
  /\ UNCHANGED <<view, published, revision, deferred, freed, reader, client>>

\* Faulty variant: publish() unpins before it bumps the revision.
ReaderPins == Pinned
\* The guards pinned when publish() defers the old view: its own is one of them.
PinsAtSwap == Pinned \cup {Writer}

\* rebuild, swap and defer_destroy.
Swap ==
  /\ writer = "mutated"
  /\ view' = [view EXCEPT ![published + 1] = slot]
  /\ published' = published + 1
  /\ deferred' = deferred \cup {[view |-> published, pins |-> PinsAtSwap]}
  /\ writer' = "swapped"
  /\ UNCHANGED <<slot, address, revision, freed, reader, client>>

Unpinned(p) == {[d EXCEPT !.pins = @ \ {p}] : d \in deferred}

\* The revision is bumped last; then the guard and the write lock go.
BumpRevision ==
  /\ writer = "swapped"
  /\ revision' = revision + 1
  /\ writer' = "idle"
  /\ deferred' = Unpinned(Writer)
  /\ UNCHANGED <<slot, address, view, published, freed, reader, client>>

\* The epoch has moved past every pin a deferred view waits for.
Destroy(d) ==
  /\ d.pins = {}
  /\ deferred' = deferred \ {d}
  /\ freed' = freed \cup {d.view}
  /\ UNCHANGED <<slot, address, view, published, revision, writer, reader, client>>

-----------------------------------------------------------------------------
\* A read under an epoch guard: pin, load the view, use it, unpin.
Pin(r) ==
  /\ reader[r].phase = "out"
  /\ reader' = [reader EXCEPT ![r].phase = "pinned"]
  /\ UNCHANGED <<slot, address, view, published, revision, writer, deferred, freed, client>>
LoadView(r) ==
  /\ reader[r].phase = "pinned"
  /\ reader' = [reader EXCEPT ![r] = [phase |-> "loaded", view |-> published]]
  /\ UNCHANGED <<slot, address, view, published, revision, writer, deferred, freed, client>>
Unpin(r) ==
  /\ reader[r].phase = "loaded"
  /\ reader' = [reader EXCEPT ![r] = [phase |-> "out", view |-> 0]]
  /\ deferred' = Unpinned(r)
  /\ UNCHANGED <<slot, address, view, published, revision, writer, freed, client>>

-----------------------------------------------------------------------------
clientOnly == <<slot, address, view, published, revision, writer, deferred, freed, reader>>

\* resolve_guest_contract for the handle's generation.
Resolved(g) ==
  IF view[published].generation = g THEN view[published].interface ELSE Null

NoClient == [phase |-> "none", generation |-> 0, interface |-> Null, instance |-> Null, revision |-> 0,
             resolved_in |-> 0]

\* new(): the caller is made for a handle just found, and resolves it.
NewCaller(k) ==
  /\ client[k].phase = "none"
  /\ view[published].interface # Null
  /\ client' = [client EXCEPT ![k] =
       [NoClient EXCEPT !.phase = "resolved", !.generation = view[published].generation,
                        !.interface = view[published].interface, !.resolved_in = published]]
  /\ UNCHANGED clientOnly

\* Pointers are compared, by the callers and by bundle_id_for_guest_interface.
SameInterface(i, j) == i # Null /\ j # Null /\ address[i] = address[j]

\* create_guest_instance: only if a slot has an interface at that address; the
\* null instance of a stateless contract or of a failure otherwise.
CreateInstance(k) ==
  /\ client[k].phase = "resolved" /\ client[k].interface # Null
  /\ \E i \in {Null, slot.interface} :
       /\ i # Null => SameInterface(i, client[k].interface)
       /\ client' = [client EXCEPT ![k].phase = "created", ![k].instance = i]
  /\ UNCHANGED clientOnly

\* new(), revalidate() and reset() read the revision last.  (reset() that finds
\* nothing keeps the one it read first: a call without an interface is refused
\* before any revision is compared.)
CaptureRevision(k) ==
  /\ \/ client[k].phase = "created"
     \/ client[k].phase = "resolved" /\ client[k].interface = Null
  /\ client' = [client EXCEPT ![k].phase = IF client[k].interface = Null THEN "gone" ELSE "ready",
                              ![k].revision = revision]
  /\ UNCHANGED clientOnly

\* Faulty variant: an instance is kept whatever the handle resolves to.
KeepInstance(k, i) ==
  [client[k] EXCEPT !.phase = IF i = Null THEN "resolved" ELSE "created", !.interface = i,
                    !.resolved_in = published]
\* revalidate() with the interface the handle resolves to: the same interface
\* keeps its instance; else that is abandoned, and a new one is created.
Refresh(k, i) ==
  IF SameInterface(i, client[k].interface)
  THEN [client[k] EXCEPT !.phase = "created", !.interface = i, !.resolved_in = published]
  ELSE [client[k] EXCEPT !.phase = "resolved", !.interface = i, !.instance = Null, !.resolved_in = published]

\* A call finds the revision changed: revalidate() resolves again.
Revalidate(k) ==
  /\ client[k].phase = "ready" /\ client[k].revision # revision
  /\ client' = [client EXCEPT ![k] = Refresh(k, Resolved(client[k].generation))]
  /\ UNCHANGED clientOnly

\* A call finds the revision unchanged and dispatches through the cache.
Dispatch(k) ==
  /\ client[k].phase = "ready" /\ client[k].revision = revision
  /\ UNCHANGED vars

\* reset(): resolves only when the revision changed or nothing is cached; the
\* old instance is destroyed or abandoned, and a new one is created.
Reset(k) ==
  /\ client[k].phase \in {"ready", "gone"}
  /\ client' = [client EXCEPT ![k] =
       IF client[k].revision = revision /\ client[k].interface # Null
       THEN [client[k] EXCEPT !.phase = "resolved", !.instance = Null]
       ELSE [client[k] EXCEPT !.phase = "resolved", !.instance = Null, !.resolved_in = published,
                              !.interface = Resolved(client[k].generation)]]
  /\ UNCHANGED clientOnly

\* drop(): the instance is destroyed if the revision is unchanged or the handle
\* resolves to the same interface, and abandoned otherwise.
Drop(k) ==
  /\ client[k].phase \in {"ready", "gone"}
  /\ client' = [client EXCEPT ![k] = NoClient]
  /\ UNCHANGED clientOnly

-----------------------------------------------------------------------------
Init ==
  /\ slot = [interface |-> Null, generation |-> 0]
  /\ view = [n \in View |-> slot]
  /\ published = 0 /\ revision = 0
  /\ writer = "idle" /\ deferred = {} /\ freed = {}
  /\ reader = [r \in Reader |-> [phase |-> "out", view |-> 0]]
  /\ address = [i \in Interface |-> Null]
  /\ client = [k \in Client |-> NoClient]

Next ==
  \/ Mutate \/ Swap \/ BumpRevision
  \/ \E d \in deferred : Destroy(d)
  \/ \E r \in Reader : Pin(r) \/ LoadView(r) \/ Unpin(r)
  \/ \E k \in Client : NewCaller(k) \/ CreateInstance(k) \/ CaptureRevision(k)
                       \/ Revalidate(k) \/ Dispatch(k) \/ Reset(k) \/ Drop(k)

Spec == Init /\ [][Next]_vars

-----------------------------------------------------------------------------
\* A reader never uses a destroyed view: "defer_destroy frees it only once all
\* such pins are dropped" (publish).
LoadedViewAlive ==
  \A r \in Reader : reader[r].phase = "loaded" => reader[r].view \notin freed

\* When the revision check of a generated caller succeeds, so that a method
\* dispatches, or reset and drop destroy, through the cache, the interface has
\* not been freed (UNLOAD_DESIGN.md: "a reload never leaves them dereferencing a
\* superseded interface").
Checked(k) == client[k].phase = "ready" /\ client[k].revision = revision
CheckedInterfaceAlive == \A k \in Client : Checked(k) => InterfaceAlive(client[k].interface)

\* What revalidate() does guarantee, whatever is published and however addresses
\* are reused: unless the revision it read last is newer than the view it
\* resolved in, the interface has not been freed, and the instance is not one of
\* another interface that is still there.
ResolvedInterfaceAlive ==
  \A k \in Client :
    Checked(k) /\ client[k].revision <= client[k].resolved_in =>
      /\ InterfaceAlive(client[k].interface)
      /\ client[k].instance # Null /\ InterfaceAlive(client[k].instance) =>
           client[k].instance = client[k].interface

-----------------------------------------------------------------------------
\* What the properties rest on.

\* The revision is the number of the view it was published with, one behind
\* until publish() bumps it; until then publish()'s own guard keeps the view it
\* replaced.  Only replaced views are freed.
ViewsTracked ==
  /\ slot.generation <= IF writer = "mutated" THEN published + 1 ELSE published
  /\ revision = IF writer = "swapped" THEN published - 1 ELSE published
  /\ writer = "mutated" => published < MaxPublications
  /\ \A d \in deferred : d.view < published /\ (d.view = revision => Writer \in d.pins)
  /\ \A n \in freed : n < revision

\* A view that a reader has loaded waits for the reader's guard.
ReadersPinned ==
  \A r \in Reader : reader[r].phase = "loaded" =>
    /\ reader[r].view <= published /\ reader[r].view \notin freed
    /\ \A d \in deferred : d.view = reader[r].view => r \in d.pins

\* Interfaces are numbered by publications, and no two that are alive share an
\* address.
Made == IF writer = "mutated" THEN published + 1 ELSE published
AddressesApart ==
  /\ slot.interface <= Made
  /\ \A n \in 0 .. published : view[n].interface <= published
  /\ \A i, j \in Interface :
       InterfaceAlive(i) /\ InterfaceAlive(j) /\ address[i] = address[j] => i = j

\* A caller has the interface of the view it resolved in, or none, and an
\* instance of an interface with the same address.
CallersTracked ==
  \A k \in Client :
    /\ client[k].resolved_in <= published
    /\ client[k].interface \in {view[client[k].resolved_in].interface, Null}
    /\ client[k].phase \in {"created", "ready"} => client[k].interface # Null
    /\ client[k].instance <= Made
    /\ client[k].instance # Null => SameInterface(client[k].instance, client[k].interface)

ReaderInv == TypeOK /\ ViewsTracked /\ ReadersPinned
CallerInv == ReaderInv /\ AddressesApart /\ CallersTracked
=============================================================================
