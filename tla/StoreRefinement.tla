-------------------------- MODULE StoreRefinement ---------------------------
(***************************************************************************)
(* The registry implements the directory.  A seat is a slot; it holds an   *)
(* offer when the published view indexes it, so the pending slots of a     *)
(* reload are still empty seats.  A ticket is the held handle, good when   *)
(* it resolves; the handle of a pending registration is no ticket.         *)
(***************************************************************************)
EXTENDS RuntimeStore

Indexed(s) == \E c \in GuestContractId : s \in published.index[c]

OfferAt(s) ==
  IF published.tenant[s] = Vacant \/ ~Indexed(s) THEN Vacant
  ELSE [bundle |-> published.tenant[s].bundle_id,
        contract |-> ContractIdOf[published.tenant[s].plugin],
        version |-> published.tenant[s].image]

HeldTicket ==
  IF held = NoHandle THEN NoHandle
  ELSE IF held.pending THEN NoHandle
  ELSE [seat |-> held.index, bundle |-> held.bundle_id, contract |-> held.contract_id,
        good |-> Resolve(held) = "ok"]

D == INSTANCE Directory WITH
       Seat <- Slot, Bundle <- BundleId, Contract <- GuestContractId, Version <- Image,
       NoOffer <- Vacant, NoTicket <- NoHandle,
       offer <- [s \in Slot |-> OfferAt(s)], ticket <- HeldTicket

\* "No offer" and "no ticket" are told from offers, tickets and handles.
ASSUME RefinementAssumption ==
  Vacant \notin D!Offer /\ NoHandle \notin D!Ticket \cup Handle

\* Whatever loads, unloads, reloads (completed, aborted or failed half-way) and
\* lookups do to slots, generations, index and view, a reader of the registry
\* sees a directory: bundles change all at once, and a handle resolves to its
\* own provider until that is gone and never again (runtime_store.rs).
ImplementsDirectory == D!Spec
=============================================================================
