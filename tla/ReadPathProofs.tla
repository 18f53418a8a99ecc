--------------------------- MODULE ReadPathProofs ---------------------------
(***************************************************************************)
(* The safety of the lock-free read path, for any number of readers,       *)
(* callers and publications, under every interleaving and every reuse of   *)
(* the addresses of freed interfaces.                                      *)
(***************************************************************************)
EXTENDS ReadPath, TLAPS

-----------------------------------------------------------------------------
\* A deferred view keeps its number and every other guard when p is dropped.
LEMMA UnpinnedPins ==
  ASSUME TypeOK, NEW p, NEW e \in Unpinned(p)
  PROVE  \E d \in deferred : e.view = d.view /\ e.pins = d.pins \ {p}
<1>1. PICK d \in deferred : e = [d EXCEPT !.pins = @ \ {p}]
  BY DEF Unpinned
<1>2. e.view = d.view /\ e.pins = d.pins \ {p}
  BY <1>1 DEF TypeOK
<1>3. QED
  BY <1>1, <1>2

\* An unpin keeps the type of what is deferred.
LEMMA UnpinnedType ==
  ASSUME TypeOK, NEW p
  PROVE  Unpinned(p) \subseteq [view : View, pins : SUBSET (Reader \cup {Writer})]
  BY DEF TypeOK, Unpinned

\* What Mutate does to the slot.
LEMMA MutateFacts ==
  ASSUME ReaderInv, Mutate
  PROVE  /\ slot' \in SlotView /\ slot'.generation <= published + 1
         /\ published + 1 \in Interface
         /\ address' \in [Interface -> Interface \cup {Null}]
<1> USE DEF View, Interface, Null, SlotView
<1>1. /\ MaxPublications \in Nat /\ published \in Nat /\ published < MaxPublications
      /\ slot \in SlotView /\ slot.generation <= published
  BY ReadPathAssumption DEF ReaderInv, TypeOK, ViewsTracked, Mutate
<1>2. address' \in [Interface -> Interface \cup {Null}]
  <2>1. CASE UNCHANGED address
    BY <2>1 DEF ReaderInv, TypeOK
  <2>2. CASE Place(published + 1)
    <3>1. PICK a \in {published + 1} \cup {address[j] : j \in {x \in 1 .. (published + 1) - 1 : address[x] # Null}} :
            address' = [address EXCEPT ![published + 1] = a]
      BY <2>2 DEF Place
    <3>2. a = published + 1 \/ \E j \in Interface : a = address[j]
      BY <1>1, <3>1
    <3>3. a \in Interface \cup {Null}
      <4>1. \A j \in Interface : address[j] \in Interface \cup {Null}
        BY DEF ReaderInv, TypeOK
      <4>2. published + 1 \in Interface
        BY <1>1
      <4>3. QED
        BY <3>2, <4>1, <4>2
    <3>4. QED
      BY <3>1, <3>3 DEF ReaderInv, TypeOK
  <2>3. QED
    BY <2>1, <2>2 DEF Mutate
<1>3. slot' \in SlotView /\ slot'.generation <= published + 1
  BY <1>1 DEF Mutate
<1>4. QED
  BY <1>1, <1>2, <1>3

-----------------------------------------------------------------------------
\* The steps of publish() keep what readers rely on.
LEMMA WriterKeepsReaders ==
  ASSUME ReaderInv, Mutate \/ Swap \/ BumpRevision
  PROVE  ReaderInv'
<1> USE ReadPathAssumption DEF View, Interface, Null
<1>1. CASE Mutate
  <2>1. TypeOK'
    BY <1>1, MutateFacts DEF ReaderInv, TypeOK, Mutate
  <2>2. ViewsTracked' /\ ReadersPinned'
    BY <1>1, MutateFacts DEF ReaderInv, TypeOK, ViewsTracked, ReadersPinned, Mutate
  <2>3. QED
    BY <2>1, <2>2 DEF ReaderInv
<1>2. CASE Swap
  <2>1. published \in Nat /\ published < MaxPublications /\ revision = published
    BY <1>2 DEF ReaderInv, TypeOK, ViewsTracked, Swap
  <2>2. PinsAtSwap \subseteq Reader \cup {Writer} /\ Writer \in PinsAtSwap
    BY DEF PinsAtSwap, Pinned
  <2>3. TypeOK'
    BY <1>2, <2>1, <2>2 DEF ReaderInv, TypeOK, Swap
  <2>4. \A d \in deferred' : d \in deferred \/ (d.view = published /\ d.pins = PinsAtSwap)
    BY <1>2 DEF Swap
  <2>5. ViewsTracked'
    BY <1>2, <2>1, <2>2, <2>4 DEF ReaderInv, TypeOK, ViewsTracked, Swap
  <2>6. ReadersPinned'
    <3> SUFFICES ASSUME NEW r \in Reader, reader[r].phase = "loaded"
                 PROVE  /\ reader[r].view <= published + 1 /\ reader[r].view \notin freed
                        /\ \A d \in deferred' : d.view = reader[r].view => r \in d.pins
      BY <1>2 DEF ReadersPinned, Swap
    <3>1. r \in PinsAtSwap
      BY DEF PinsAtSwap, Pinned
    <3>2. reader[r].view \in Nat
      BY DEF ReaderInv, TypeOK
    <3>3. QED
      BY <2>1, <2>4, <3>1, <3>2 DEF ReaderInv, ReadersPinned
  <2>7. QED
    BY <2>3, <2>5, <2>6 DEF ReaderInv
<1>3. CASE BumpRevision
  <2>1. published \in Nat /\ revision \in Nat /\ revision = published - 1
    BY <1>3 DEF ReaderInv, TypeOK, ViewsTracked, BumpRevision
  <2>2. TypeOK'
    BY <1>3, <2>1, UnpinnedType DEF ReaderInv, TypeOK, BumpRevision
  <2>3. \A e \in deferred' : \E d \in deferred : e.view = d.view /\ e.pins = d.pins \ {Writer}
    BY <1>3, UnpinnedPins DEF ReaderInv, BumpRevision
  <2>4. ViewsTracked'
    <3>1. \A e \in deferred' : e.view < published
      BY <2>3 DEF ReaderInv, ViewsTracked
    <3>2. \A n \in freed : n < revision /\ n \in Nat
      BY DEF ReaderInv, ViewsTracked, TypeOK
    <3>3. QED
      BY <1>3, <2>1, <3>1, <3>2 DEF ReaderInv, TypeOK, ViewsTracked, BumpRevision
  <2>5. ReadersPinned'
    <3> SUFFICES ASSUME NEW r \in Reader, reader[r].phase = "loaded"
                 PROVE  \A d \in deferred' : d.view = reader[r].view => r \in d.pins
      BY <1>3 DEF ReaderInv, ReadersPinned, BumpRevision
    <3>1. QED
      BY <2>3 DEF ReaderInv, ReadersPinned
  <2>6. QED
    BY <2>2, <2>4, <2>5 DEF ReaderInv
<1>4. QED
  BY <1>1, <1>2, <1>3

\* So do the steps of the epoch and of the readers.
LEMMA EpochKeepsReaders ==
  ASSUME ReaderInv,
         \/ \E d \in deferred : Destroy(d)
         \/ \E r \in Reader : Pin(r) \/ LoadView(r) \/ Unpin(r)
  PROVE  ReaderInv'
<1> USE ReadPathAssumption DEF View, Interface, Null
<1>1. ASSUME NEW d \in deferred, Destroy(d)
      PROVE  ReaderInv'
  <2>1. d.pins = {} /\ d.view \in View /\ d.view < published /\ d.view # revision
    BY <1>1 DEF ReaderInv, TypeOK, ViewsTracked, Destroy
  <2>2. d.view < revision
    BY <2>1 DEF ReaderInv, TypeOK, ViewsTracked
  <2>3. TypeOK'
    BY <1>1, <2>1 DEF ReaderInv, TypeOK, Destroy
  <2>4. ViewsTracked'
    BY <1>1, <2>2 DEF ReaderInv, ViewsTracked, Destroy
  <2>5. ReadersPinned'
    BY <1>1, <2>1 DEF ReaderInv, ReadersPinned, Destroy
  <2>6. QED
    BY <2>3, <2>4, <2>5 DEF ReaderInv
<1>2. ASSUME NEW r \in Reader, Pin(r)
      PROVE  ReaderInv'
  <2>1. TypeOK' /\ ViewsTracked'
    BY <1>2 DEF ReaderInv, TypeOK, ViewsTracked, Pin
  <2>2. \A q \in Reader : reader'[q].phase = "loaded" => reader'[q] = reader[q]
    BY <1>2 DEF ReaderInv, TypeOK, Pin
  <2>3. ReadersPinned'
    BY <1>2, <2>2 DEF ReaderInv, ReadersPinned, Pin
  <2>4. QED
    BY <2>1, <2>3 DEF ReaderInv
<1>3. ASSUME NEW r \in Reader, LoadView(r)
      PROVE  ReaderInv'
  <2>1. TypeOK' /\ ViewsTracked'
    BY <1>3 DEF ReaderInv, TypeOK, ViewsTracked, LoadView
  <2>2. \A q \in Reader : \/ reader'[q] = reader[q]
                          \/ reader'[q].view = published
    BY <1>3 DEF ReaderInv, TypeOK, LoadView
  <2>3. published \in Nat /\ revision \in Nat /\ published \notin freed /\ \A d \in deferred : d.view # published
    BY DEF ReaderInv, TypeOK, ViewsTracked
  <2>4. ReadersPinned'
    BY <1>3, <2>2, <2>3 DEF ReaderInv, ReadersPinned, LoadView
  <2>5. QED
    BY <2>1, <2>4 DEF ReaderInv
<1>4. ASSUME NEW r \in Reader, Unpin(r)
      PROVE  ReaderInv'
  <2>1. TypeOK'
    BY <1>4, UnpinnedType DEF ReaderInv, TypeOK, Unpin
  <2>2. \A e \in deferred' : \E d \in deferred : e.view = d.view /\ e.pins = d.pins \ {r}
    BY <1>4, UnpinnedPins DEF ReaderInv, Unpin
  <2>3. r # Writer
    OBVIOUS
  <2>4. ViewsTracked'
    <3>1. \A e \in deferred' : e.view < published /\ (e.view = revision => Writer \in e.pins)
      BY <2>2, <2>3 DEF ReaderInv, ViewsTracked
    <3>2. QED
      BY <1>4, <3>1 DEF ReaderInv, ViewsTracked, Unpin
  <2>5. \A q \in Reader : reader'[q].phase = "loaded" => q # r /\ reader'[q] = reader[q]
    BY <1>4 DEF ReaderInv, TypeOK, Unpin
  <2>6. ReadersPinned'
    <3> SUFFICES ASSUME NEW q \in Reader, reader'[q].phase = "loaded"
                 PROVE  /\ reader[q].view <= published /\ reader[q].view \notin freed
                        /\ \A d \in deferred' : d.view = reader[q].view => q \in d.pins
      BY <1>4, <2>5 DEF ReadersPinned, Unpin
    <3>1. QED
      BY <2>2, <2>5 DEF ReaderInv, ReadersPinned
  <2>7. QED
    BY <2>1, <2>4, <2>6 DEF ReaderInv
<1>5. QED
  BY <1>1, <1>2, <1>3, <1>4

\* A caller's steps change the caller only.
LEMMA CallersKeepReaders ==
  ASSUME ReaderInv, NEW k \in Client,
         \/ NewCaller(k) \/ CreateInstance(k) \/ CaptureRevision(k)
         \/ Revalidate(k) \/ Dispatch(k) \/ Reset(k) \/ Drop(k)
  PROVE  /\ ReaderInv'
         /\ UNCHANGED clientOnly
         /\ \A j \in Client : j # k => client'[j] = client[j]
<1> USE ReadPathAssumption DEF View, Interface, Null
<1>1. UNCHANGED clientOnly
  BY DEF NewCaller, CreateInstance, CaptureRevision, Revalidate, Dispatch, Reset, Drop, vars, clientOnly
<1>2. \A j \in Client : j # k => client'[j] = client[j]
  BY DEF NewCaller, CreateInstance, CaptureRevision, Revalidate, Dispatch, Reset, Drop, vars, ReaderInv, TypeOK
<1>3. \A g : Resolved(g) \in Interface \cup {Null}
  BY DEF Resolved, ReaderInv, TypeOK, SlotView
<1>4. TypeOK'
  <2> DEFINE Caller == [phase : {"none", "resolved", "created", "ready", "gone"}, generation : View,
                        interface : Interface \cup {Null}, instance : Interface \cup {Null},
                        revision : View, resolved_in : View]
  <2> SUFFICES client' \in [Client -> Caller]
    BY <1>1 DEF ReaderInv, TypeOK, clientOnly
  <2>1. client \in [Client -> Caller] /\ revision \in View /\ published \in View
    BY DEF ReaderInv, TypeOK
  <2>2. NoClient \in Caller
    BY DEF NoClient
  <2>3. CASE NewCaller(k)
    <3>1. view[published].interface \in Interface \cup {Null} /\ view[published].generation \in View
      BY DEF ReaderInv, TypeOK, SlotView
    <3>2. QED
      BY <2>1, <2>2, <2>3, <3>1 DEF NewCaller
  <2>4. CASE CreateInstance(k)
    <3>1. slot.interface \in Interface \cup {Null}
      BY DEF ReaderInv, TypeOK, SlotView
    <3>2. QED
      BY <2>1, <2>4, <3>1 DEF CreateInstance
  <2>5. CASE CaptureRevision(k)
    <3> DEFINE p == IF client[k].interface = Null THEN "gone" ELSE "ready"
    <3>1. client' = [client EXCEPT ![k] = [client[k] EXCEPT !.phase = p, !.revision = revision]]
      BY <2>1, <2>5 DEF CaptureRevision
    <3>2. p \in {"gone", "ready"}
      OBVIOUS
    <3> HIDE DEF p
    <3>3. [client[k] EXCEPT !.phase = p, !.revision = revision] \in Caller
      BY <2>1, <3>2
    <3>4. QED
      BY <2>1, <3>1, <3>3
  <2>6. CASE Revalidate(k)
    <3>1. PICK i \in Interface \cup {Null} : i = Resolved(client[k].generation)
      BY <1>3
    <3>2. PICK c : c = client[k]
      OBVIOUS
    <3>3. c \in Caller
      BY <2>1, <3>2
    <3>4. /\ [c EXCEPT !.phase = "created", !.interface = i, !.resolved_in = published] \in Caller
          /\ [c EXCEPT !.phase = "resolved", !.interface = i, !.instance = Null, !.resolved_in = published] \in Caller
      BY <2>1, <3>1, <3>3
    <3>5. Refresh(k, i) \in Caller
      BY <3>2, <3>4 DEF Refresh
    <3>6. QED
      BY <2>1, <2>6, <3>1, <3>5 DEF Revalidate
  <2>7. CASE Dispatch(k)
    BY <2>1, <2>7 DEF Dispatch, vars
  <2>8. CASE Reset(k)
    <3> DEFINE i == Resolved(client[k].generation)
    <3>1. \/ client' = [client EXCEPT ![k] = [client[k] EXCEPT !.phase = "resolved", !.instance = Null]]
          \/ client' = [client EXCEPT ![k] = [client[k] EXCEPT !.phase = "resolved", !.instance = Null,
                                                  !.resolved_in = published, !.interface = i]]
      BY <2>1, <2>8 DEF Reset
    <3>2. i \in Interface \cup {Null}
      BY <1>3
    <3> HIDE DEF i
    <3>3. /\ [client[k] EXCEPT !.phase = "resolved", !.instance = Null] \in Caller
          /\ [client[k] EXCEPT !.phase = "resolved", !.instance = Null, !.resolved_in = published,
                               !.interface = i] \in Caller
      BY <2>1, <3>2
    <3>4. QED
      BY <2>1, <3>1, <3>3
  <2>9. CASE Drop(k)
    BY <2>1, <2>2, <2>9 DEF Drop
  <2>10. QED
    BY <2>3, <2>4, <2>5, <2>6, <2>7, <2>8, <2>9
<1>5. ViewsTracked' /\ ReadersPinned'
  BY <1>1 DEF ReaderInv, ViewsTracked, ReadersPinned, clientOnly
<1>6. QED
  BY <1>1, <1>2, <1>4, <1>5 DEF ReaderInv

\* ReaderInv is an invariant of every behaviour of the read path.
THEOREM ReaderInvariant == Spec => []ReaderInv
<1>1. Init => ReaderInv
  BY ReadPathAssumption
  DEF Init, ReaderInv, TypeOK, ViewsTracked, ReadersPinned, SlotView, View, Interface, Null, NoClient
<1>2. ReaderInv /\ [Next]_vars => ReaderInv'
  <2> SUFFICES ASSUME ReaderInv, [Next]_vars
               PROVE  ReaderInv'
    OBVIOUS
  <2>1. CASE UNCHANGED vars
    BY <2>1 DEF vars, ReaderInv, TypeOK, ViewsTracked, ReadersPinned
  <2>2. CASE Next
    BY <2>2, WriterKeepsReaders, EpochKeepsReaders, CallersKeepReaders DEF Next
  <2>3. QED
    BY <2>1, <2>2
<1>3. QED
  BY <1>1, <1>2, PTL DEF Spec

\* The read path is well typed; with it the bound on generations and revisions.
THEOREM ReadPathTypeCorrect == Spec => []TypeOK
  BY ReaderInvariant, PTL DEF ReaderInv

\* No reader ever uses a destroyed view, whatever is published meanwhile
\* (publish, resolve_guest_contract).
THEOREM LoadedViewsAlive == Spec => []LoadedViewAlive
<1>1. ReaderInv => LoadedViewAlive
  BY DEF ReaderInv, ReadersPinned, LoadedViewAlive
<1>2. QED
  BY <1>1, ReaderInvariant, PTL

-----------------------------------------------------------------------------
\* Types that the callers' proofs use.
LEMMA CallerFacts ==
  ASSUME CallerInv
  PROVE  /\ published \in Nat /\ revision \in Nat /\ published \in View /\ MaxPublications \in Nat
         /\ published <= MaxPublications
         /\ slot \in SlotView /\ view \in [View -> SlotView]
         /\ address \in [Interface -> Interface \cup {Null}]
         /\ slot.interface \in Nat /\ \A n \in View : view[n].interface \in Nat
         /\ client \in [Client -> [phase : {"none", "resolved", "created", "ready", "gone"}, generation : View,
                            interface : Interface \cup {Null}, instance : Interface \cup {Null},
                            revision : View, resolved_in : View]]
<1>1. /\ published \in View /\ revision \in View /\ MaxPublications \in Nat
      /\ slot \in SlotView /\ view \in [View -> SlotView]
      /\ address \in [Interface -> Interface \cup {Null}]
      /\ client \in [Client -> [phase : {"none", "resolved", "created", "ready", "gone"}, generation : View,
                            interface : Interface \cup {Null}, instance : Interface \cup {Null},
                            revision : View, resolved_in : View]]
  BY ReadPathAssumption DEF CallerInv, ReaderInv, TypeOK
<1>2. \A s \in SlotView : s.interface \in Nat
  BY <1>1 DEF SlotView, Interface, Null
<1>3. slot.interface \in Nat /\ \A n \in View : view[n].interface \in Nat
  BY <1>1, <1>2
<1>4. published \in Nat /\ revision \in Nat /\ published <= MaxPublications
  BY <1>1 DEF View
<1>5. QED
  BY <1>1, <1>3, <1>4

\* The steps of publish() keep the addresses of live interfaces apart.
LEMMA WriterKeepsApart ==
  ASSUME CallerInv, Mutate \/ Swap \/ BumpRevision
  PROVE  AddressesApart'
<1> USE DEF Null
<1>0. /\ ReaderInv /\ AddressesApart /\ ViewsTracked
  BY DEF CallerInv, ReaderInv
<1>1. CASE Mutate
  <2>1. /\ published + 1 \in Interface /\ Made = published /\ Made' = published + 1
        /\ UNCHANGED <<view, published, freed>> /\ slot.interface <= published
    BY <1>0, <1>1, MutateFacts, CallerFacts DEF Mutate, Made, AddressesApart
  <2>2. CASE slot'.interface \in {slot.interface, Null} /\ UNCHANGED address
    <3>1. \A i \in Interface : InterfaceAlive(i)' => InterfaceAlive(i)
      BY <2>1, <2>2 DEF InterfaceAlive, Interface
    <3>2. slot'.interface <= published + 1
      BY <2>1, <2>2, CallerFacts
    <3>3. QED
      BY <1>0, <2>1, <2>2, <3>1, <3>2 DEF AddressesApart
  <2>3. CASE slot'.interface = published + 1 /\ Place(published + 1)
    <3>1. PICK a : /\ \A j \in 1 .. published : address[j] = a => ~InterfaceAlive(j)
                   /\ address' = [address EXCEPT ![published + 1] = a]
      <4>1. (published + 1) - 1 = published
        BY CallerFacts
      <4>2. QED
        BY <2>3, <4>1 DEF Place
    <3>2. ASSUME NEW i \in Interface, InterfaceAlive(i)', i # published + 1
          PROVE  i \in 1 .. published /\ InterfaceAlive(i) /\ address'[i] = address[i]
      <4>1. PICK n \in 0 .. published : n \notin freed /\ view[n].interface = i
        BY <2>1, <2>3, <3>2 DEF InterfaceAlive
      <4>2. i <= published /\ InterfaceAlive(i)
        BY <1>0, <4>1 DEF AddressesApart, InterfaceAlive
      <4>3. QED
        BY <3>1, <3>2, <4>2, CallerFacts DEF Interface
    <3>3. address'[published + 1] = a
      BY <2>1, <3>1, CallerFacts
    <3>4. \A i, j \in Interface :
            InterfaceAlive(i)' /\ InterfaceAlive(j)' /\ address'[i] = address'[j] => i = j
      BY <1>0, <3>1, <3>2, <3>3 DEF AddressesApart
    <3>5. QED
      BY <1>0, <2>1, <2>3, <3>4, CallerFacts DEF AddressesApart
  <2>4. \/ slot'.interface \in {slot.interface, Null} /\ UNCHANGED address
        \/ slot'.interface = published + 1 /\ Place(published + 1)
    <3>1. slot \in SlotView
      BY CallerFacts
    <3>2. QED
      BY <1>1, <3>1 DEF Mutate, SlotView
  <2>5. QED
    BY <2>2, <2>3, <2>4
<1>2. CASE Swap
  <2>1. /\ published + 1 \in View /\ Made = published + 1 /\ Made' = published + 1
        /\ UNCHANGED <<slot, address, freed>> /\ published' = published + 1
        /\ view' = [view EXCEPT ![published + 1] = slot]
    BY <1>0, <1>2, CallerFacts DEF Swap, Made, ViewsTracked, View
  <2>2. /\ view'[published + 1] = slot
        /\ \A n \in 0 .. published : view'[n] = view[n]
    BY <2>1, CallerFacts DEF View
  <2>3. \A n \in 0 .. published + 1 : n \in 0 .. published \/ n = published + 1
    BY CallerFacts
  <2>4. \A i \in Interface : InterfaceAlive(i)' => InterfaceAlive(i)
    BY <2>1, <2>2, <2>3 DEF InterfaceAlive
  <2>5. \A n \in 0 .. published + 1 : view'[n].interface <= published + 1
    <3> SUFFICES ASSUME NEW n \in 0 .. published + 1
                 PROVE  view'[n].interface <= published + 1
      OBVIOUS
    <3>1. CASE n = published + 1
      BY <1>0, <2>1, <2>2, <3>1 DEF AddressesApart
    <3>2. CASE n \in 0 .. published
      <4>1. view[n].interface <= published /\ view[n].interface \in Nat
        BY <1>0, <3>2, CallerFacts DEF AddressesApart, View
      <4>2. QED
        BY <2>2, <3>2, <4>1, CallerFacts
    <3>3. QED
      BY <2>3, <3>1, <3>2
  <2>6. QED
    BY <1>0, <2>1, <2>4, <2>5 DEF AddressesApart
<1>3. CASE BumpRevision
  BY <1>0, <1>3 DEF BumpRevision, AddressesApart, InterfaceAlive, Made
<1>4. QED
  BY <1>1, <1>2, <1>3

\* They change nothing a caller has.
LEMMA WriterKeepsCallers ==
  ASSUME CallerInv, Mutate \/ Swap \/ BumpRevision
  PROVE  CallersTracked'
<1> USE DEF Null
<1> SUFFICES ASSUME NEW k \in Client
             PROVE  (/\ client[k].resolved_in <= published
                     /\ client[k].interface \in {view[client[k].resolved_in].interface, Null}
                     /\ client[k].phase \in {"created", "ready"} => client[k].interface # Null
                     /\ client[k].instance <= Made
                     /\ client[k].instance # Null => SameInterface(client[k].instance, client[k].interface))'
  BY DEF CallersTracked
<1> DEFINE n == client[k].resolved_in
           i == client[k].interface
           m == client[k].instance
<1>0. ReaderInv /\ AddressesApart /\ ViewsTracked
  BY DEF CallerInv, ReaderInv
<1>1. /\ n <= published /\ i \in {view[n].interface, Null}
      /\ client[k].phase \in {"created", "ready"} => i # Null
      /\ m <= Made /\ (m # Null => SameInterface(m, i))
  BY DEF CallerInv, CallersTracked
<1>2. n \in View /\ n \in 0 .. published /\ i \in Interface \cup {Null} /\ m \in Interface \cup {Null}
  BY <1>1, CallerFacts DEF View
<1>3. client' = client
  BY DEF Mutate, Swap, BumpRevision
<1>4. i <= published
  BY <1>0, <1>1, <1>2, CallerFacts DEF AddressesApart
<1> HIDE DEF n, i, m
<1>5. CASE Mutate
  <2>1. /\ Made = published /\ Made' = published + 1 /\ UNCHANGED <<view, published>>
        /\ published + 1 \in Interface
    BY <1>0, <1>5, MutateFacts, CallerFacts DEF Mutate, Made
  <2>2. \A j \in Interface : j <= published => address'[j] = address[j]
    <3>1. CASE UNCHANGED address
      BY <3>1
    <3>2. CASE Place(published + 1)
      <4>1. PICK a : address' = [address EXCEPT ![published + 1] = a]
        BY <3>2 DEF Place
      <4>2. QED
        BY <4>1, CallerFacts DEF Interface
    <3>3. QED
      BY <1>5, <3>1, <3>2 DEF Mutate
  <2>3. m # Null => SameInterface(m, i)'
    BY <1>1, <1>2, <1>3, <1>4, <2>1, <2>2 DEF SameInterface, n, i, m
  <2>4. m <= published + 1
    BY <1>1, <1>2, <2>1, CallerFacts DEF Interface
  <2>5. QED
    BY <1>1, <1>3, <2>1, <2>3, <2>4 DEF n, i, m
<1>6. CASE Swap
  <2>1. /\ Made = Made' /\ UNCHANGED address /\ published' = published + 1
        /\ view' = [view EXCEPT ![published + 1] = slot]
    BY <1>6, CallerFacts DEF Swap, Made
  <2>2. view'[n] = view[n] /\ n <= published + 1
    BY <1>1, <1>2, <2>1, CallerFacts DEF View
  <2>3. m # Null => SameInterface(m, i)'
    BY <1>1, <1>3, <2>1 DEF SameInterface, i, m
  <2>4. QED
    BY <1>1, <1>3, <2>1, <2>2, <2>3 DEF n, i, m
<1>7. CASE BumpRevision
  <2>1. Made = Made' /\ UNCHANGED <<address, view, published>>
    BY <1>7 DEF BumpRevision, Made
  <2>2. m # Null => SameInterface(m, i)'
    BY <1>1, <1>3, <2>1 DEF SameInterface, i, m
  <2>3. QED
    BY <1>1, <1>3, <2>1, <2>2 DEF n, i, m
<1>8. QED
  BY <1>5, <1>6, <1>7

\* A caller's own steps keep what is known of it.
LEMMA CallersKeepCallers ==
  ASSUME CallerInv, NEW k \in Client,
         \/ NewCaller(k) \/ CreateInstance(k) \/ CaptureRevision(k)
         \/ Revalidate(k) \/ Dispatch(k) \/ Reset(k) \/ Drop(k)
  PROVE  AddressesApart' /\ CallersTracked'
<1> USE DEF Null
<1> DEFINE v == view[published].interface
           Good(c) == /\ c.resolved_in <= published
                      /\ c.interface \in {view[c.resolved_in].interface, Null}
                      /\ c.phase \in {"created", "ready"} => c.interface # Null
                      /\ c.instance <= Made
                      /\ c.instance # Null => SameInterface(c.instance, c.interface)
<1>0. /\ ReaderInv /\ AddressesApart /\ \A j \in Client : Good(client[j])
  BY DEF CallerInv, CallersTracked
<1>1. /\ UNCHANGED clientOnly /\ ReaderInv'
      /\ \A j \in Client : j # k => client'[j] = client[j]
  BY <1>0, CallersKeepReaders
<1>2. client \in [Client -> [phase : {"none", "resolved", "created", "ready", "gone"}, generation : View,
                            interface : Interface \cup {Null}, instance : Interface \cup {Null},
                            revision : View, resolved_in : View]]
  BY CallerFacts
<1>3. \A g : Resolved(g) \in {v, Null}
  BY DEF Resolved
<1>4. 0 <= Made /\ published <= published /\ 0 <= published
  BY CallerFacts DEF Made
<1>5. Good(client'[k])
  <2>1. CASE NewCaller(k)
    <3>1. client'[k] = [NoClient EXCEPT !.phase = "resolved", !.generation = view[published].generation,
                                        !.interface = v, !.resolved_in = published]
      BY <1>2, <2>1 DEF NewCaller
    <3>2. client'[k].phase = "resolved" /\ client'[k].interface = v /\ client'[k].instance = Null
          /\ client'[k].resolved_in = published
      BY <3>1 DEF NoClient
    <3>3. QED
      BY <1>4, <3>2
  <2>2. CASE CreateInstance(k)
    <3>1. PICK i \in {Null, slot.interface} :
            /\ i # Null => SameInterface(i, client[k].interface)
            /\ client' = [client EXCEPT ![k].phase = "created", ![k].instance = i]
      BY <2>2 DEF CreateInstance
    <3>2. i <= Made
      BY <1>0, <1>4, <3>1 DEF AddressesApart
    <3>3. /\ client'[k].phase = "created" /\ client'[k].instance = i
          /\ client'[k].interface = client[k].interface
          /\ client'[k].resolved_in = client[k].resolved_in
      BY <1>2, <3>1
    <3>4. client[k].interface # Null
      BY <2>2 DEF CreateInstance
    <3>5. QED
      BY <1>0, <3>1, <3>2, <3>3, <3>4
  <2>3. CASE CaptureRevision(k)
    <3>1. /\ client'[k].phase = IF client[k].interface = Null THEN "gone" ELSE "ready"
          /\ client'[k].instance = client[k].instance
          /\ client'[k].interface = client[k].interface
          /\ client'[k].resolved_in = client[k].resolved_in
      BY <1>2, <2>3 DEF CaptureRevision
    <3>2. QED
      BY <1>0, <3>1
  <2>4. CASE Revalidate(k)
    <3> DEFINE i == Resolved(client[k].generation)
    <3>1. client'[k] = Refresh(k, i)
      BY <1>2, <2>4 DEF Revalidate
    <3>2. i \in {v, Null}
      BY <1>3
    <3> HIDE DEF i
    <3>3. CASE SameInterface(i, client[k].interface)
      <4>1. /\ client'[k].phase = "created" /\ client'[k].interface = i
            /\ client'[k].instance = client[k].instance /\ client'[k].resolved_in = published
        BY <1>2, <3>1, <3>3 DEF Refresh
      <4>2. client[k].instance # Null => SameInterface(client[k].instance, i)
        BY <1>0, <3>3 DEF SameInterface
      <4>3. i # Null
        BY <3>3 DEF SameInterface
      <4>4. QED
        BY <1>0, <1>4, <3>2, <4>1, <4>2, <4>3
    <3>4. CASE ~SameInterface(i, client[k].interface)
      <4>1. /\ client'[k].phase = "resolved" /\ client'[k].interface = i
            /\ client'[k].instance = Null /\ client'[k].resolved_in = published
        BY <1>2, <3>1, <3>4 DEF Refresh
      <4>2. QED
        BY <1>4, <3>2, <4>1
    <3>5. QED
      BY <3>3, <3>4
  <2>5. CASE Dispatch(k)
    BY <1>0, <2>5 DEF Dispatch, vars
  <2>6. CASE Reset(k)
    <3> DEFINE i == Resolved(client[k].generation)
    <3>1. /\ client'[k].phase = "resolved" /\ client'[k].instance = Null
          /\ \/ client'[k].interface = client[k].interface /\ client'[k].resolved_in = client[k].resolved_in
             \/ client'[k].interface = i /\ client'[k].resolved_in = published
      BY <1>2, <2>6 DEF Reset
    <3>2. i \in {v, Null}
      BY <1>3
    <3> HIDE DEF i
    <3>3. QED
      BY <1>0, <1>4, <3>1, <3>2
  <2>7. CASE Drop(k)
    <3>1. client'[k] = NoClient
      BY <1>2, <2>7 DEF Drop
    <3>2. QED
      BY <1>4, <3>1 DEF NoClient
  <2>8. QED
    BY <2>1, <2>2, <2>3, <2>4, <2>5, <2>6, <2>7
<1>6. \A j \in Client : Good(client'[j])
  BY <1>0, <1>1, <1>5
<1>7. AddressesApart'
  BY <1>0, <1>1 DEF AddressesApart, InterfaceAlive, Made, clientOnly
<1>8. CallersTracked'
  BY <1>1, <1>6 DEF CallersTracked, SameInterface, Made, clientOnly
<1>9. QED
  BY <1>7, <1>8

\* Destruction only takes interfaces away; the readers do not concern callers.
LEMMA OthersKeepCallers ==
  ASSUME CallerInv,
         \/ \E d \in deferred : Destroy(d)
         \/ \E r \in Reader : Pin(r) \/ LoadView(r) \/ Unpin(r)
  PROVE  AddressesApart' /\ CallersTracked'
<1>1. UNCHANGED <<slot, address, view, published, revision, writer, client>> /\ freed \subseteq freed'
  BY DEF Destroy, Pin, LoadView, Unpin
<1>2. \A i : InterfaceAlive(i)' => InterfaceAlive(i)
  BY <1>1 DEF InterfaceAlive
<1>3. AddressesApart'
  BY <1>1, <1>2 DEF CallerInv, AddressesApart, Made
<1>4. CallersTracked'
  BY <1>1 DEF CallerInv, CallersTracked, SameInterface, Made
<1>5. QED
  BY <1>3, <1>4

\* CallerInv is an invariant of every behaviour: no two live interfaces share
\* an address, and a caller has the interface of the view it resolved in.
THEOREM CallerInvariant == Spec => []CallerInv
<1>1. Init => AddressesApart /\ CallersTracked
  <2> SUFFICES ASSUME Init
               PROVE  AddressesApart /\ CallersTracked
    OBVIOUS
  <2>1. /\ published = 0 /\ writer = "idle" /\ slot.interface = 0
        /\ \A n \in 0 .. 0 : view[n].interface = 0
        /\ \A i \in Interface : ~InterfaceAlive(i)
    BY ReadPathAssumption DEF Init, InterfaceAlive, View, Interface, Null
  <2>2. \A k \in Client : client[k] = NoClient
    BY DEF Init
  <2>3. QED
    BY <2>1, <2>2 DEF AddressesApart, CallersTracked, Made, NoClient, Null
<1>2. AddressesApart /\ CallersTracked /\ ReaderInv /\ [Next]_vars => (AddressesApart /\ CallersTracked)'
  <2> SUFFICES ASSUME CallerInv, [Next]_vars
               PROVE  (AddressesApart /\ CallersTracked)'
    BY DEF CallerInv
  <2>1. CASE UNCHANGED vars
    BY <2>1 DEF vars, CallerInv, AddressesApart, CallersTracked, InterfaceAlive, Made, SameInterface
  <2>2. CASE Next
    BY <2>2, WriterKeepsApart, WriterKeepsCallers, OthersKeepCallers, CallersKeepCallers DEF Next
  <2>3. QED
    BY <2>1, <2>2
<1>3. QED
  BY <1>1, <1>2, ReaderInvariant, PTL DEF Spec, CallerInv

\* A generated caller whose revision check succeeds dispatches through a live
\* interface, and never with an instance of another live interface, unless the
\* revision it read last is newer than the view it resolved in (the method
\* prologue, revalidate, reset and drop of generated callers).
THEOREM ResolvedInterfacesAlive == Spec => []ResolvedInterfaceAlive
<1>1. CallerInv => ResolvedInterfaceAlive
  <2> SUFFICES ASSUME CallerInv, NEW k \in Client, Checked(k), client[k].revision <= client[k].resolved_in
               PROVE  /\ InterfaceAlive(client[k].interface)
                      /\ client[k].instance # Null /\ InterfaceAlive(client[k].instance) =>
                           client[k].instance = client[k].interface
    BY DEF ResolvedInterfaceAlive
  <2> DEFINE n == client[k].resolved_in
  <2>1. /\ n \in 0 .. published /\ revision <= n
        /\ client[k].interface = view[n].interface /\ client[k].interface # Null
        /\ client[k].interface \in Interface \cup {Null} /\ client[k].instance \in Interface \cup {Null}
        /\ client[k].instance # Null => SameInterface(client[k].instance, client[k].interface)
    BY CallerFacts DEF CallerInv, CallersTracked, Checked, View
  <2>2. n \notin freed
    BY <2>1, CallerFacts DEF CallerInv, ReaderInv, ViewsTracked
  <2>3. InterfaceAlive(client[k].interface)
    BY <2>1, <2>2 DEF InterfaceAlive
  <2>4. QED
    BY <2>1, <2>3 DEF CallerInv, AddressesApart, SameInterface
<1>2. QED
  BY <1>1, CallerInvariant, PTL
=============================================================================
