----------------------------- MODULE InitStack -----------------------------
(***************************************************************************)
(* Whose registration is this?  register_guest_contract names no bundle:   *)
(* the runtime takes the bundle whose init runs on the calling thread, the *)
(* top of that thread's init stack, and stages the contract in the latest  *)
(* transaction the thread has open for that bundle (runtime.rs; the        *)
(* transactions are prepared_bundles of runtime_store.rs).  A load and an  *)
(* internal-plugin registration each open such a window.                   *)
(*                                                                         *)
(* A window is open from the begin of its transaction to its end; init     *)
(* code may load bundles and register internal plugins, so windows nest.   *)
(* A load that fails before init runs ends its own transaction and is left *)
(* out.  Reload opens a window without a transaction; its registrations    *)
(* are RuntimeStore's.                                                     *)
(***************************************************************************)
EXTENDS Integers, FiniteSets, Sequences, SequencesExt

CONSTANTS
  Thread,
  Bundle,
  Contract,      \* the contracts every bundle's manifest provides
  NestsItself,   \* discipline lifted: a bundle's init may load its own bundle
  MaxDepth,      \* bound: windows open in a thread
  MaxWindows,    \* bound: windows in a behaviour
  None

Window == 1 .. MaxWindows

ASSUME InitStackAssumption ==
  /\ NestsItself \in BOOLEAN
  /\ MaxDepth \in Nat /\ MaxWindows \in Nat
  /\ None \notin Bundle

VARIABLES
  init_bundle_stack,  \* Runtime.init_bundle_stack
  active_init_count,  \* Runtime.active_init_count
  prepared_bundles,   \* RuntimeStore.prepared_bundles
  bundle_data,        \* bundles that have an entry in the registry
  contracts,          \* registered contracts, with the window that provided them
  windows,            \* per thread, the open windows, innermost last
  opened              \* number of windows so far

vars == <<init_bundle_stack, active_init_count, prepared_bundles, bundle_data,
          contracts, windows, opened>>

Provided == [contract : Contract, window : Window]
Entry == [bundle : Bundle, contracts : SUBSET Provided]
OpenedWindow == [bundle : Bundle, window : Window, kind : {"load", "internal"}]

TypeOK ==
  /\ init_bundle_stack \in [Thread -> Seq(Bundle)]
  /\ prepared_bundles \in [Thread -> Seq(Entry)]
  /\ windows \in [Thread -> Seq(OpenedWindow)]
  /\ \A t \in Thread : Len(windows[t]) <= MaxDepth
  /\ active_init_count \in 0 .. MaxWindows
  /\ bundle_data \subseteq Bundle
  /\ contracts \in [Bundle -> SUBSET Provided]
  /\ opened \in 0 .. MaxWindows

-----------------------------------------------------------------------------
\* push_init_bundle_id.
PushInitBundleId(t, b) ==
  /\ init_bundle_stack' = [init_bundle_stack EXCEPT ![t] = Append(@, b)]
  /\ active_init_count' = active_init_count + 1

\* pop_init_bundle_id: the top, whichever bundle's it is; nothing on an empty
\* stack.
PopInitBundleId(t) ==
  IF init_bundle_stack[t] = <<>>
  THEN UNCHANGED <<init_bundle_stack, active_init_count>>
  ELSE /\ init_bundle_stack' = [init_bundle_stack EXCEPT ![t] = Front(@)]
       /\ active_init_count' = active_init_count - 1

\* current_init_bundle_id; None for 0.
CurrentInitBundleId(t) ==
  IF active_init_count = 0 \/ init_bundle_stack[t] = <<>> THEN None ELSE Last(init_bundle_stack[t])

\* The latest transaction thread t has open for b, 0 if it has none.
Prepared(t, b) == SelectLastInSeq(prepared_bundles[t], LAMBDA e : e.bundle = b)

\* begin_prepared_bundle_transaction, and the push before init runs.
OpenWindow(t, b, kind) ==
  /\ Len(windows[t]) < MaxDepth /\ opened < MaxWindows
  /\ b \notin bundle_data
  /\ prepared_bundles' = [prepared_bundles EXCEPT ![t] = Append(@, [bundle |-> b, contracts |-> {}])]
  /\ PushInitBundleId(t, b)
  /\ opened' = opened + 1
  /\ windows' = [windows EXCEPT ![t] = Append(@, [bundle |-> b, window |-> opened', kind |-> kind])]
  /\ UNCHANGED <<bundle_data, contracts>>

Opens(t, b) == b \in {w.bundle : w \in Range(windows[t])} => NestsItself

\* load_manifest_with_source up to the call of polyplug_init.
LoadBundle(t, b) == Opens(t, b) /\ OpenWindow(t, b, "load")

\* begin_internal_plugin.
BeginInternalPlugin(t, b) == Opens(t, b) /\ OpenWindow(t, b, "internal")

\* host_register_guest_contract, called by the code of the innermost window:
\* staged if the thread has a transaction for the current bundle, else put
\* into the registry, which gives the bundle a default entry and refuses a
\* second provider of the contract.  Outside init it is refused.  No code
\* registers a provider twice.
HostRegisterGuestContract(t, c) ==
  LET b == CurrentInitBundleId(t)
      n == Prepared(t, b)
      p == [contract |-> c, window |-> Last(windows[t]).window]
  IN  /\ windows[t] # <<>> /\ b # None
      /\ IF n # 0
         THEN /\ p \notin prepared_bundles[t][n].contracts
              /\ prepared_bundles' = [prepared_bundles EXCEPT ![t][n].contracts = @ \cup {p}]
              /\ UNCHANGED <<bundle_data, contracts>>
         ELSE /\ c \notin {q.contract : q \in contracts[b]}
              /\ contracts' = [contracts EXCEPT ![b] = @ \cup {p}]
              /\ bundle_data' = bundle_data \cup {b}
              /\ UNCHANGED prepared_bundles
      /\ UNCHANGED <<init_bundle_stack, active_init_count, windows, opened>>

-----------------------------------------------------------------------------
\* Faulty variant: a bundle that has an entry is registered over.
MayPublishOver(b, staged) ==
  {p.contract : p \in staged} = Contract
\* The checks of commit_prepared_bundle_transaction: exactly the providers of
\* the manifest, none twice, and the bundle is not registered yet.
MayPublish(b, staged) ==
  /\ {p.contract : p \in staged} = Contract
  /\ \A p, q \in staged : p.contract = q.contract => p = q
  /\ b \notin bundle_data

\* take_prepared_bundle.
TakePrepared(entries, b) ==
  LET n == SelectLastInSeq(entries, LAMBDA e : e.bundle = b)
  IN  IF n = 0 THEN entries ELSE RemoveAt(entries, n)

\* commit_prepared_bundle_transaction publishes the transaction in one step.
Publish(t, b) ==
  LET n == Prepared(t, b)
  IN  /\ n # 0 /\ MayPublish(b, prepared_bundles[t][n].contracts)
      /\ bundle_data' = bundle_data \cup {b}
      /\ contracts' = [contracts EXCEPT ![b] = @ \cup prepared_bundles[t][n].contracts]
      /\ prepared_bundles' = [prepared_bundles EXCEPT ![t] = TakePrepared(@, b)]

CloseWindow(t) == windows' = [windows EXCEPT ![t] = Front(@)]

Innermost(t, kind) == windows[t] # <<>> /\ Last(windows[t]).kind = kind

\* polyplug_init returns and load_manifest_with_source commits.
LoadCommits(t) ==
  /\ Innermost(t, "load")
  /\ Publish(t, Last(windows[t]).bundle)
  /\ PopInitBundleId(t) /\ CloseWindow(t)
  /\ UNCHANGED opened

\* The init fails: load_manifest_with_source discards the transaction.
LoadFails(t) ==
  /\ Innermost(t, "load")
  /\ prepared_bundles' = [prepared_bundles EXCEPT ![t] = TakePrepared(@, Last(windows[t]).bundle)]
  /\ PopInitBundleId(t) /\ CloseWindow(t)
  /\ UNCHANGED <<bundle_data, contracts, opened>>

\* The commit refuses: it has taken the transaction, and
\* load_manifest_with_source then discards one.
LoadCommitFails(t) ==
  LET b == Last(windows[t]).bundle
      n == Prepared(t, b)
  IN  /\ Innermost(t, "load")
      /\ n = 0 \/ ~MayPublish(b, prepared_bundles[t][n].contracts)
      /\ prepared_bundles' = [prepared_bundles EXCEPT ![t] = TakePrepared(TakePrepared(@, b), b)]
      /\ PopInitBundleId(t) /\ CloseWindow(t)
      /\ UNCHANGED <<bundle_data, contracts, opened>>

\* commit_internal_plugin.  Transactions of a thread end innermost first: the
\* call pops the top of the stack whichever transaction it names.
CommitInternalPlugin(t) ==
  LET b == Last(windows[t]).bundle
      n == Prepared(t, b)
  IN  /\ Innermost(t, "internal")
      /\ \/ Publish(t, b)
         \/ /\ n = 0 \/ ~MayPublish(b, prepared_bundles[t][n].contracts)
            /\ prepared_bundles' = [prepared_bundles EXCEPT ![t] = TakePrepared(@, b)]
            /\ UNCHANGED <<bundle_data, contracts>>
      /\ PopInitBundleId(t) /\ CloseWindow(t)
      /\ UNCHANGED opened

\* Faulty variant: the transaction goes, its id stays on the stack.
AbortKeepsId(t) ==
  /\ Innermost(t, "internal")
  /\ prepared_bundles' = [prepared_bundles EXCEPT ![t] = TakePrepared(@, Last(windows[t]).bundle)]
  /\ CloseWindow(t)
  /\ UNCHANGED <<init_bundle_stack, active_init_count, bundle_data, contracts, opened>>
\* abort_internal_plugin: pops only if it finds the transaction.
AbortInternalPlugin(t) ==
  LET b == Last(windows[t]).bundle
  IN  /\ Innermost(t, "internal")
      /\ prepared_bundles' = [prepared_bundles EXCEPT ![t] = TakePrepared(@, b)]
      /\ IF Prepared(t, b) # 0
         THEN PopInitBundleId(t)
         ELSE UNCHANGED <<init_bundle_stack, active_init_count>>
      /\ CloseWindow(t)
      /\ UNCHANGED <<bundle_data, contracts, opened>>

\* unload_bundle, by any thread.
UnloadBundle(b) ==
  /\ b \in bundle_data
  /\ bundle_data' = bundle_data \ {b}
  /\ contracts' = [contracts EXCEPT ![b] = {}]
  /\ UNCHANGED <<init_bundle_stack, active_init_count, prepared_bundles, windows, opened>>

-----------------------------------------------------------------------------
Init ==
  /\ init_bundle_stack = [t \in Thread |-> <<>>]
  /\ active_init_count = 0
  /\ prepared_bundles = [t \in Thread |-> <<>>]
  /\ bundle_data = {}
  /\ contracts = [b \in Bundle |-> {}]
  /\ windows = [t \in Thread |-> <<>>]
  /\ opened = 0

Enter(t) ==
  \/ \E b \in Bundle : LoadBundle(t, b) \/ BeginInternalPlugin(t, b)
Leave(t) ==
  \/ LoadCommits(t) \/ LoadFails(t) \/ LoadCommitFails(t)
  \/ CommitInternalPlugin(t) \/ AbortInternalPlugin(t)
Register(t) == \E c \in Contract : HostRegisterGuestContract(t, c)
Unload == \E b \in Bundle : UnloadBundle(b)

Next == (\E t \in Thread : Enter(t) \/ Register(t) \/ Leave(t)) \/ Unload

Spec == Init /\ [][Next]_vars

-----------------------------------------------------------------------------
\* The bundle the runtime takes a caller for is the one whose init code is
\* running on that thread, and none in every other thread, so registrations,
\* lookups and get_dependencies are judged for the code that makes them ("the
\* inner bundle pops back to the outer bundle", Runtime.init_bundle_stack).
CallerExact ==
  \A t \in Thread :
    CurrentInitBundleId(t) = IF windows[t] = <<>> THEN None ELSE Last(windows[t]).bundle

\* A bundle in the registry provides what one window registered, whole: what
\* a nested, failed or competing load of any bundle registered is not in it,
\* and a load that fails leaves nothing ("If any stage fails, the transaction
\* publishes nothing", ARCHITECTURE.md).
WholeTransactions ==
  \A b \in Bundle :
    \/ b \notin bundle_data /\ contracts[b] = {}
    \/ b \in bundle_data /\ \E w \in Window : contracts[b] = [contract : Contract, window : {w}]

-----------------------------------------------------------------------------
\* Where no init loads its own bundle, a thread's windows, its init stack and its
\* transactions are one stack of distinct bundles: each window is on top of its
\* own transaction, and what is staged there the window registered.
WindowsMatched ==
  \A t \in Thread :
    /\ Len(init_bundle_stack[t]) = Len(windows[t])
    /\ Len(prepared_bundles[t]) = Len(windows[t])
    /\ \A n \in 1 .. Len(windows[t]) :
         /\ init_bundle_stack[t][n] = windows[t][n].bundle
         /\ prepared_bundles[t][n].bundle = windows[t][n].bundle
         /\ \A p \in prepared_bundles[t][n].contracts : p.window = windows[t][n].window
    /\ \A m, n \in 1 .. Len(windows[t]) : windows[t][m].bundle = windows[t][n].bundle => m = n

\* active_init_count is the number of ids on the stacks of all threads, which
\* windows have put there.
PushedIds == UNION {{<<t, n>> : n \in 1 .. Len(init_bundle_stack[t])} : t \in Thread}
CountExact ==
  /\ IsFiniteSet(PushedIds) /\ active_init_count = Cardinality(PushedIds)
  /\ active_init_count <= opened

\* The inductive invariant of the init stack.
InitStackInv == TypeOK /\ WindowsMatched /\ CountExact /\ WholeTransactions
=============================================================================
