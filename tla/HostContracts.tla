--------------------------- MODULE HostContracts ---------------------------
(***************************************************************************)
(* Host contracts (runtime.rs): services of the host that guests ask for   *)
(* with get_host_contract.  A singleton contract's instance is made once,  *)
(* under the write lock of singleton_instances, and cached; the provider's *)
(* create_instance is foreign code that may fail and may call back into    *)
(* the runtime.                                                            *)
(*                                                                         *)
(* A thread's calls are a stack: a get inside a create_instance is on top  *)
(* of the get that runs it.  The windows of InitStack are on the same      *)
(* stack: init code asks for host contracts, and a create_instance may     *)
(* load bundles.  A get whose version is not satisfied changes nothing and *)
(* is left out.                                                            *)
(***************************************************************************)
EXTENDS InitStack

CONSTANTS
  HostContractId,
  HostInterface,      \* interfaces the host may register
  ContractIdOf,       \* [HostInterface -> HostContractId]
  Singleton,          \* the interfaces with singleton = true
  MaxInstances        \* bound: instances made

Instance == 1 .. MaxInstances

ASSUME HostContractsAssumption ==
  /\ ContractIdOf \in [HostInterface -> HostContractId]
  /\ Singleton \subseteq HostInterface
  /\ MaxInstances \in Nat
  /\ None \notin HostInterface \cup Instance \cup Thread

VARIABLES
  host_contracts,       \* Runtime.host_contracts
  singleton_instances,  \* Runtime.singleton_instances
  writer,               \* who holds the write lock of singleton_instances
  calls,                \* per thread, the gets in progress
  made,                 \* the interface that made each instance
  answered              \* the non-null answers so far

hostVars == <<host_contracts, singleton_instances, writer, calls, made, answered>>

\* A get, and the number of windows that were open when it was called.
Frame == [interface : HostInterface, phase : {"found", "missed", "creating"}, depth : 0 .. MaxDepth]

HostTypeOK ==
  /\ TypeOK
  /\ host_contracts \in [HostContractId -> HostInterface \cup {None}]
  /\ singleton_instances \in [HostContractId -> Instance \cup {None}]
  /\ writer \in Thread \cup {None}
  /\ calls \in [Thread -> Seq(Frame)]
  /\ \A t \in Thread : Len(calls[t]) <= MaxDepth
  /\ made \in Seq(HostInterface) /\ Len(made) <= MaxInstances
  /\ answered \subseteq [interface : HostInterface, instance : Instance]

-----------------------------------------------------------------------------
Idle(t) == calls[t] = <<>>
Top(t) == calls[t][Len(calls[t])]
\* The innermost call of t is a get, in the given phase.
InPhase(t, phase) == ~Idle(t) /\ Top(t).depth = Len(windows[t]) /\ Top(t).phase = phase
ContractOf(t) == ContractIdOf[Top(t).interface]

\* The innermost call of t is a window, or there is none.
InWindow(t) == ~Idle(t) => Top(t).depth < Len(windows[t])

\* t runs code of the host or of a bundle: no get, or its create_instance.
ForeignCode(t) == ~InWindow(t) => InPhase(t, "creating")

Shallow(t) == Len(windows[t]) + Len(calls[t]) < MaxDepth

Push(t, i) == calls' = [calls EXCEPT ![t] = Append(@, [interface |-> i, phase |-> "found", depth |-> Len(windows[t])])]
Pop(t) == calls' = [calls EXCEPT ![t] = SubSeq(@, 1, Len(@) - 1)]
Goto(t, phase) == calls' = [calls EXCEPT ![t][Len(calls[t])].phase = phase]

Answer(t, n) ==
  /\ answered' = answered \cup {[interface |-> Top(t).interface, instance |-> n]}
  /\ Pop(t)

\* register_host_contract: refuses a duplicate.
RegisterHostContract(t, i) ==
  /\ ForeignCode(t)
  /\ host_contracts[ContractIdOf[i]] = None
  /\ host_contracts' = [host_contracts EXCEPT ![ContractIdOf[i]] = i]
  /\ UNCHANGED <<singleton_instances, writer, calls, made, answered>>

\* unregister_host_contract.
UnregisterHostContract(t, c) ==
  /\ ForeignCode(t)
  /\ host_contracts[c] # None
  /\ host_contracts' = [host_contracts EXCEPT ![c] = None]
  /\ UNCHANGED <<singleton_instances, writer, calls, made, answered>>

\* The create_instance of a singleton asks for no singleton: its own thread
\* holds the lock that call would wait for.
CallbackMayGet(t, i) == i \in Singleton => writer # t

\* host_get_host_contract: the interface is copied out of the read guard.
GetHostContract(t, c) ==
  LET i == host_contracts[c]
  IN  /\ ForeignCode(t) /\ Shallow(t)
      /\ i # None /\ CallbackMayGet(t, i)
      /\ Push(t, i)
      /\ UNCHANGED <<host_contracts, singleton_instances, writer, made, answered>>

\* Singleton: check the cache under the read lock.
CheckCache(t) ==
  /\ InPhase(t, "found") /\ Top(t).interface \in Singleton
  /\ writer = None
  /\ IF singleton_instances[ContractOf(t)] # None
     THEN Answer(t, singleton_instances[ContractOf(t)])
     ELSE Goto(t, "missed") /\ UNCHANGED answered
  /\ UNCHANGED <<host_contracts, singleton_instances, writer, made>>

\* Faulty variant: the cache is not checked again.
LockWithoutCheck(t) ==
  /\ InPhase(t, "missed") /\ writer = None
  /\ Goto(t, "creating") /\ writer' = t
  /\ UNCHANGED <<host_contracts, singleton_instances, made, answered>>
\* Singleton: lock, check the cache again, else run create_instance.
LockAndCheck(t) ==
  /\ InPhase(t, "missed") /\ writer = None
  /\ IF singleton_instances[ContractOf(t)] # None
     THEN Answer(t, singleton_instances[ContractOf(t)]) /\ UNCHANGED writer
     ELSE Goto(t, "creating") /\ writer' = t /\ UNCHANGED answered
  /\ UNCHANGED <<host_contracts, singleton_instances, made>>

\* Not a singleton: run create_instance, without a lock.
CreateForCaller(t) ==
  /\ InPhase(t, "found") /\ Top(t).interface \notin Singleton
  /\ Goto(t, "creating")
  /\ UNCHANGED <<host_contracts, singleton_instances, writer, made, answered>>

\* create_instance returns an instance; a singleton's is cached and its lock
\* released.
Created(t) ==
  LET n == Len(made) + 1
  IN  /\ InPhase(t, "creating") /\ n <= MaxInstances
      /\ made' = Append(made, Top(t).interface)
      /\ Answer(t, n)
      /\ IF Top(t).interface \in Singleton
         THEN /\ singleton_instances' = [singleton_instances EXCEPT ![ContractOf(t)] = n]
              /\ writer' = None
         ELSE UNCHANGED <<singleton_instances, writer>>
      /\ UNCHANGED host_contracts

\* create_instance returns null, which is never cached.
CreateFails(t) ==
  /\ InPhase(t, "creating")
  /\ Pop(t)
  /\ writer' = IF Top(t).interface \in Singleton THEN None ELSE writer
  /\ UNCHANGED <<host_contracts, singleton_instances, made, answered>>

-----------------------------------------------------------------------------
HostInit ==
  /\ Init
  /\ host_contracts = [c \in HostContractId |-> None]
  /\ singleton_instances = [c \in HostContractId |-> None]
  /\ writer = None
  /\ calls = [t \in Thread |-> <<>>]
  /\ made = <<>>
  /\ answered = {}

Call(t) ==
  \/ \E c \in HostContractId : GetHostContract(t, c) \/ UnregisterHostContract(t, c)
  \/ \E i \in HostInterface : RegisterHostContract(t, i)
Proceed(t) ==
  \/ CheckCache(t) \/ LockAndCheck(t) \/ CreateForCaller(t) \/ Created(t) \/ CreateFails(t)

\* Init code runs, and returns, only when the gets it made have returned.
WindowStep(t) ==
  \/ ForeignCode(t) /\ Shallow(t) /\ Enter(t)
  \/ ForeignCode(t) /\ Register(t)
  \/ InWindow(t) /\ Leave(t)

HostNext ==
  \/ (\E t \in Thread : Call(t) \/ Proceed(t)) /\ UNCHANGED vars
  \/ ((\E t \in Thread : WindowStep(t)) \/ Unload) /\ UNCHANGED hostVars

HostSpec == HostInit /\ [][HostNext]_<<vars, hostVars>>

-----------------------------------------------------------------------------
\* All callers of a singleton contract are handed the same instance: "creates
\* the instance once ... and hands the same HostContractInstance to every
\* plugin caller" (HOST_CONTRACTS.md, host_get_host_contract).
SingletonOnce ==
  \A a, b \in answered :
    /\ {a.interface, b.interface} \subseteq Singleton
    /\ ContractIdOf[a.interface] = ContractIdOf[b.interface]
    => a.instance = b.instance

-----------------------------------------------------------------------------
\* Frame n of thread t runs the create_instance of a singleton.
Creating(t, n) == calls[t][n].phase = "creating" /\ calls[t][n].interface \in Singleton

\* The lock is held by the thread, and for the frame, that runs the
\* create_instance of a singleton, which is not cached: no get makes a second.
WriterCreates ==
  /\ \A t \in Thread : \A n \in 1 .. Len(calls[t]) :
       /\ calls[t][n].phase = "missed" => calls[t][n].interface \in Singleton
       /\ Creating(t, n) =>
            /\ writer = t /\ singleton_instances[ContractIdOf[calls[t][n].interface]] = None
            /\ \A m \in 1 .. Len(calls[t]) : Creating(t, m) => m = n
  /\ writer # None => \E n \in 1 .. Len(calls[writer]) : Creating(writer, n)

\* What a caller of a singleton was handed is what is cached.
AnswersCached ==
  \A a \in answered : a.interface \in Singleton =>
    singleton_instances[ContractIdOf[a.interface]] = a.instance

\* The inductive invariant of the host contracts.
HostInv == HostTypeOK /\ CountExact /\ WriterCreates /\ AnswersCached
=============================================================================
