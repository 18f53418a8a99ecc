----------------------------- MODULE VmDispatch -----------------------------
(***************************************************************************)
(* Calls into the contracts of the Lua, JavaScript and Python loaders:     *)
(* create, destroy and dispatch, with the locks each loader takes and the  *)
(* guards by which Lua and JavaScript refuse a nested call.                *)
(*                                                                         *)
(* The contracts of one bundle share its VM; all Python bundles share one  *)
(* interpreter.  A thread's calls are a stack: guest code that runs on top *)
(* of it may call other contracts, itself or from the factory it runs.  A  *)
(* call that is refused at once (ReentrantCall, a null instance, the null  *)
(* handle in destroy) changes nothing and is left out, as are the argument *)
(* block, the arena and the logger.                                        *)
(***************************************************************************)
EXTENDS Integers, Sequences

CONSTANTS
  Contract,
  Lua, Js, Python,    \* the VMs of each loader
  VmOf,               \* Contract -> its VM
  Calls,              \* the calls guest code makes, in a function or a factory
  Thread,
  MaxDepth,           \* bound: calls nested in one thread
  MaxObjects,         \* bound: implementation objects built
  None

Vm == Lua \cup Js \cup Python
Op == {"create", "destroy", "dispatch"}
DefaultImpl == 0     \* the object of the null handle
NullId == 0

ASSUME VmDispatchAssumption ==
  /\ VmOf \in [Contract -> Vm]
  /\ Lua \cap Js = {} /\ Lua \cap Python = {} /\ Js \cap Python = {}
  /\ Calls \subseteq [from : Contract, in : Op, op : Op, to : Contract]
  /\ MaxDepth \in Nat /\ MaxObjects \in Nat
  /\ None \notin Thread

VARIABLES
  stack,                \* per thread, its calls, outermost first
  in_dispatch_threads,  \* the threads inside a dispatch, per guard
  holder,               \* who holds each lock
  next_id,              \* per contract
  instances,            \* per contract, [id -> object]
  objects,              \* number of objects built by factories
  handles               \* the instance handles handed out

vars == <<stack, in_dispatch_threads, holder, next_id, instances, objects, handles>>

IsLua(c) == VmOf[c] \in Lua
IsJs(c) == VmOf[c] \in Js
IsPython(c) == VmOf[c] \in Python

\* A VM's own lock (for Python the GIL), the mutex of a contract's instances
\* and, in Lua, its dispatch_lock.
VmLock(c) == <<"vm", VmOf[c]>>
Registry(c) == <<"instances", c>>
DispatchLock(c) == <<"dispatch", c>>
Lock == ({"vm"} \X Vm) \cup ({"instances", "dispatch"} \X Contract)

\* Faulty variant: JavaScript contracts have a guard each.
OwnGuard(c) == <<"contract", c>>
\* in_dispatch_threads is one per contract in Lua, one per bundle in JavaScript.
Guard(c) == IF IsJs(c) THEN <<"vm", VmOf[c]>> ELSE <<"contract", c>>
Guards == ({"vm"} \X Vm) \cup ({"contract"} \X Contract)

Phase == {"entered", "lookup", "resolved", "queued", "running", "returned", "built", "calling"}
Frame == [op : Op, contract : Contract, id : Nat, object : Nat, phase : Phase]
Handle == [contract : Contract, id : Nat \ {NullId}, object : Nat, live : BOOLEAN]

TypeOK ==
  /\ stack \in [Thread -> Seq(Frame)] /\ \A t \in Thread : Len(stack[t]) <= MaxDepth
  /\ in_dispatch_threads \in [Guards -> SUBSET Thread]
  /\ holder \in [Lock -> Thread \cup {None}]
  /\ next_id \in [Contract -> Nat \ {NullId}]
  /\ DOMAIN instances = Contract /\ \A c \in Contract : \A i \in DOMAIN instances[c] : instances[c][i] \in Nat
  /\ objects \in 0 .. MaxObjects
  /\ handles \subseteq Handle

-----------------------------------------------------------------------------
Idle(t) == stack[t] = <<>>
Top(t) == stack[t][Len(stack[t])]
At(t, op, phase) == ~Idle(t) /\ Top(t).op = op /\ Top(t).phase = phase

\* The lock a call needs for its next step, <<>> when it needs none.
NextLock(f) ==
  LET c == f.contract
  IN  CASE f.phase = "running" -> <<>>
        [] f.phase = "calling" -> IF IsPython(c) THEN VmLock(c) ELSE <<>>
        [] f.phase = "built" -> Registry(c)
        [] f.phase \in {"lookup", "queued", "returned"} -> VmLock(c)
        [] f.phase = "resolved" -> IF IsLua(c) THEN DispatchLock(c) ELSE VmLock(c)
        [] f.phase = "entered" /\ (IsPython(c) \/ f.op = "create") -> VmLock(c)
        [] f.phase = "entered" /\ f.op = "dispatch" /\ ~IsPython(c) /\ f.id = NullId ->
             IF IsLua(c) THEN VmLock(c) ELSE <<>>
        [] OTHER -> Registry(c)

Needed(t) == NextLock(Top(t))
Ready(t) == Needed(t) # <<>> => holder[Needed(t)] = None
Goto(t, phase) == stack' = [stack EXCEPT ![t][Len(stack[t])].phase = phase]
Take(t) == holder' = [holder EXCEPT ![Needed(t)] = t]
Release(L) == holder' = [l \in Lock |-> IF l \in L THEN None ELSE holder[l]]

\* The call on top returns; what called it goes on, in Python with the GIL only.
Return(t) ==
  LET below == SubSeq(stack[t], 1, Len(stack[t]) - 1)
      n == Len(below)
  IN  stack' = [stack EXCEPT ![t] =
        IF n = 0 \/ IsPython(below[n].contract) THEN below ELSE [below EXCEPT ![n].phase = "running"]]

\* Faulty variant: only a dispatch that ran drops its mark.
DropGuardLate(t) ==
  in_dispatch_threads' = [in_dispatch_threads EXCEPT ![Guard(Top(t).contract)] =
    IF Top(t).phase = "running" THEN @ \ {t} ELSE @]
\* LuaDispatchGuard and JsDispatchGuard: dropped on every way out of a dispatch.
DropGuard(t) ==
  in_dispatch_threads' = [in_dispatch_threads EXCEPT ![Guard(Top(t).contract)] = @ \ {t}]

-----------------------------------------------------------------------------
MayCall(f, op, c) == [from |-> f.contract, in |-> f.op, op |-> op, to |-> c] \in Calls

\* The host calls, or the guest code on top of t's stack.  ctypes gives up the
\* GIL around a foreign call; Lua and QuickJS keep their VM locked.
Caller(t, op, c) ==
  /\ Len(stack[t]) < MaxDepth
  /\ \/ Idle(t) /\ UNCHANGED holder
     \/ /\ ~Idle(t) /\ Top(t).phase = "running" /\ MayCall(Top(t), op, c)
        /\ IF IsPython(Top(t).contract) THEN Release({VmLock(Top(t).contract)}) ELSE UNCHANGED holder

Push(t, op, c, id) ==
  LET frame == [op |-> op, contract |-> c, id |-> id, object |-> DefaultImpl, phase |-> "entered"]
      below == IF Idle(t) THEN <<>> ELSE [stack[t] EXCEPT ![Len(stack[t])].phase = "calling"]
  IN  stack' = [stack EXCEPT ![t] = Append(below, frame)]

\* Lua and JavaScript refuse a thread that is inside a dispatch under the same
\* guard; Python refuses nobody.
Refused(t, c) == ~IsPython(c) /\ t \in in_dispatch_threads[Guard(c)]

\* lua_create_instance, js_create_instance, python_create_instance: refused like
\* a dispatch, but it leaves no mark.
CreateInstance(t, c) ==
  /\ Caller(t, "create", c) /\ ~Refused(t, c)
  /\ Push(t, "create", c, NullId)
  /\ UNCHANGED <<in_dispatch_threads, next_id, instances, objects, handles>>

\* lua_destroy_instance, js_destroy_instance, python_destroy_instance: the
\* caller gives up a handle it has.
DestroyInstance(t, h) ==
  /\ h \in handles /\ h.live
  /\ Caller(t, "destroy", h.contract)
  /\ Push(t, "destroy", h.contract, h.id)
  /\ handles' = (handles \ {h}) \cup {[h EXCEPT !.live = FALSE]}
  /\ UNCHANGED <<in_dispatch_threads, next_id, instances, objects>>

\* The null handle, or any handle handed out for the contract, a stale one too.
Ids(c) == {NullId} \cup {h.id : h \in {x \in handles : x.contract = c}}

\* lua_dispatch, js_dispatch, python_vm_dispatch: the guard is checked and
\* marked in one critical section.
Dispatch(t, c, id) ==
  /\ Caller(t, "dispatch", c) /\ ~Refused(t, c) /\ id \in Ids(c)
  /\ Push(t, "dispatch", c, id)
  /\ in_dispatch_threads' = [in_dispatch_threads EXCEPT ![Guard(c)] = IF IsPython(c) THEN @ ELSE @ \cup {t}]
  /\ UNCHANGED <<next_id, instances, objects, handles>>

-----------------------------------------------------------------------------
\* The object a dispatch resolves its handle to; 0 for the default_impl.
Known(f) == f.id = NullId \/ f.id \in DOMAIN instances[f.contract]
Resolve(f) == IF f.id = NullId THEN DefaultImpl ELSE instances[f.contract][f.id]

\* No function has this fn_id, whatever the handle, or the instance is gone:
\* FunctionNotAvailable.  Or Lua cannot read it out of the VM: Generic.
DispatchFails(t) ==
  /\ At(t, "dispatch", "entered") \/ (At(t, "dispatch", "lookup") /\ Ready(t))
  /\ holder' = [holder EXCEPT ![Registry(Top(t).contract)] = IF @ = t THEN None ELSE @]
  /\ DropGuard(t) /\ Return(t)
  /\ UNCHANGED <<next_id, instances, objects, handles>>

\* Lua holds the instances mutex while it waits for the VM ...
LuaLookup(t) ==
  /\ At(t, "dispatch", "entered") /\ IsLua(Top(t).contract) /\ Ready(t)
  /\ Top(t).id # NullId /\ Known(Top(t))
  /\ Take(t) /\ Goto(t, "lookup")
  /\ UNCHANGED <<in_dispatch_threads, next_id, instances, objects, handles>>

\* ... to read the object out of the VM's registry; JavaScript clones it out of
\* the map.
Resolvable(t) ==
  /\ \/ At(t, "dispatch", "entered") /\ ~IsPython(Top(t).contract) /\ Known(Top(t))
        /\ (IsJs(Top(t).contract) \/ Top(t).id = NullId)
     \/ At(t, "dispatch", "lookup")
  /\ Ready(t)
Resolved(t) ==
  stack' = [stack EXCEPT ![t][Len(stack[t])] = [@ EXCEPT !.phase = "resolved", !.object = Resolve(Top(t))]]

\* Faulty variant: the map stays locked while the function runs.
ResolveHoldsMap(t) ==
  /\ Resolvable(t) /\ Resolved(t)
  /\ holder' = [holder EXCEPT ![Registry(Top(t).contract)] = t]
  /\ UNCHANGED <<in_dispatch_threads, next_id, instances, objects, handles>>
\* Either way t has no lock on the map when the function runs.
ResolveInstance(t) ==
  /\ Resolvable(t) /\ Resolved(t)
  /\ holder' = [holder EXCEPT ![Registry(Top(t).contract)] = IF @ = t THEN None ELSE @]
  /\ UNCHANGED <<in_dispatch_threads, next_id, instances, objects, handles>>

\* Lua takes its dispatch_lock before it enters the VM.
LuaQueue(t) ==
  /\ At(t, "dispatch", "resolved") /\ IsLua(Top(t).contract) /\ Ready(t)
  /\ Take(t) /\ Goto(t, "queued")
  /\ UNCHANGED <<in_dispatch_threads, next_id, instances, objects, handles>>

\* The guest function runs in the VM.
Run(t) ==
  /\ \/ At(t, "dispatch", "queued")
     \/ At(t, "dispatch", "resolved") /\ IsJs(Top(t).contract)
  /\ Ready(t) /\ Take(t) /\ Goto(t, "running")
  /\ UNCHANGED <<in_dispatch_threads, next_id, instances, objects, handles>>

\* Python resolves the handle under the GIL, with which it runs the function.
PythonRun(t) ==
  /\ At(t, "dispatch", "entered") /\ IsPython(Top(t).contract) /\ Ready(t) /\ Known(Top(t))
  /\ stack' = [stack EXCEPT ![t][Len(stack[t])] = [@ EXCEPT !.phase = "running", !.object = Resolve(Top(t))]]
  /\ Take(t)
  /\ UNCHANGED <<in_dispatch_threads, next_id, instances, objects, handles>>

\* The function returns or raises.
DispatchReturns(t) ==
  /\ At(t, "dispatch", "running")
  /\ Release({VmLock(Top(t).contract), DispatchLock(Top(t).contract)})
  /\ DropGuard(t) /\ Return(t)
  /\ UNCHANGED <<next_id, instances, objects, handles>>

\* A Python caller gets the GIL back.
Resume(t) ==
  /\ ~Idle(t) /\ Top(t).phase = "calling" /\ Ready(t)
  /\ Take(t) /\ Goto(t, "running")
  /\ UNCHANGED <<in_dispatch_threads, next_id, instances, objects, handles>>

-----------------------------------------------------------------------------
\* The factory runs in the VM.
RunFactory(t) ==
  /\ At(t, "create", "entered") /\ Ready(t)
  /\ Take(t) /\ Goto(t, "running")
  /\ UNCHANGED <<in_dispatch_threads, next_id, instances, objects, handles>>

\* It fails, or Lua cannot keep what it returned: the caller gets a null instance.
FactoryFails(t) ==
  /\ At(t, "create", "running") \/ (At(t, "create", "returned") /\ Ready(t))
  /\ Release({VmLock(Top(t).contract)}) /\ Return(t)
  /\ UNCHANGED <<in_dispatch_threads, next_id, instances, objects, handles>>

\* Faulty variant: the lowest free id instead of the next one.
LowestFree(c) == CHOOSE i \in (1 .. MaxObjects + 1) \ DOMAIN instances[c] :
  \A j \in 1 .. i - 1 : j \in DOMAIN instances[c]
\* next_id.fetch_add.
MintId(c) == next_id[c]

\* Mint an id, insert the object and hand the handle out.
Insert(c, object) ==
  /\ next_id' = [next_id EXCEPT ![c] = @ + 1]
  /\ instances' = [instances EXCEPT ![c] =
       [i \in DOMAIN @ \cup {MintId(c)} |-> IF i = MintId(c) THEN object ELSE @[i]]]
  /\ handles' = handles \cup {[contract |-> c, id |-> MintId(c), object |-> object, live |-> TRUE]}

\* It returns an object, which Python inserts under the GIL; Lua and JavaScript
\* have left the VM when they do, and Lua goes back into it first ...
FactoryReturns(t) ==
  LET c == Top(t).contract
  IN  /\ At(t, "create", "running") /\ objects < MaxObjects
      /\ objects' = objects + 1
      /\ Release({VmLock(c)})
      /\ IF IsPython(c) THEN Insert(c, objects') /\ Return(t)
         ELSE /\ stack' = [stack EXCEPT ![t][Len(stack[t])] =
                             [@ EXCEPT !.phase = IF IsLua(c) THEN "returned" ELSE "built", !.object = objects']]
              /\ UNCHANGED <<next_id, instances, handles>>
      /\ UNCHANGED in_dispatch_threads

\* ... to keep the object in the VM's registry.
KeepObject(t) ==
  /\ At(t, "create", "returned") /\ Ready(t)
  /\ Goto(t, "built")
  /\ UNCHANGED <<in_dispatch_threads, holder, next_id, instances, objects, handles>>

InsertInstance(t) ==
  /\ At(t, "create", "built") /\ Ready(t)
  /\ Insert(Top(t).contract, Top(t).object)
  /\ Return(t)
  /\ UNCHANGED <<in_dispatch_threads, holder, objects>>

\* Removes the id; Python does under the GIL.
RemoveInstance(t) ==
  /\ At(t, "destroy", "entered") /\ Ready(t)
  /\ instances' = [instances EXCEPT ![Top(t).contract] = [i \in DOMAIN @ \ {Top(t).id} |-> @[i]]]
  /\ Return(t)
  /\ UNCHANGED <<in_dispatch_threads, holder, next_id, objects, handles>>

-----------------------------------------------------------------------------
Init ==
  /\ stack = [t \in Thread |-> <<>>]
  /\ in_dispatch_threads = [g \in Guards |-> {}]
  /\ holder = [l \in Lock |-> None]
  /\ next_id = [c \in Contract |-> 1]
  /\ instances = [c \in Contract |-> <<>>]
  /\ objects = 0 /\ handles = {}

Begin(t) ==
  \/ \E c \in Contract : CreateInstance(t, c) \/ \E id \in Ids(c) : Dispatch(t, c, id)
  \/ \E h \in handles : DestroyInstance(t, h)
Proceed(t) ==
  \/ DispatchFails(t) \/ LuaLookup(t) \/ ResolveInstance(t) \/ LuaQueue(t) \/ Run(t)
  \/ PythonRun(t) \/ DispatchReturns(t) \/ Resume(t)
  \/ RunFactory(t) \/ FactoryFails(t) \/ FactoryReturns(t) \/ KeepObject(t) \/ InsertInstance(t)
  \/ RemoveInstance(t)

Next == \E t \in Thread : Begin(t) \/ Proceed(t)

Spec == Init /\ [][Next]_vars

-----------------------------------------------------------------------------
\* A thread asks for the lock of a VM it is running in only past the guards: from
\* a factory, which leaves no mark, or in Lua, whose guards are one per contract,
\* from a function of another contract.  (The comment of in_dispatch_threads and
\* TRUST_MODEL.md have every "cross-call that would re-enter a VM already executing
\* a dispatch on the same thread" refused.)
ReentryUnguarded ==
  \A t \in Thread, v \in Vm : ~Idle(t) /\ Needed(t) = <<"vm", v>> /\ holder[Needed(t)] = t =>
    /\ v \notin Python
    /\ \A n \in 1 .. Len(stack[t]) - 1 : VmOf[stack[t][n].contract] = v =>
         \/ stack[t][n].op = "create"
         \/ v \in Lua /\ stack[t][n].contract # Top(t).contract

\* t has gone back into a Lua or JavaScript VM it is in, other than to destroy an
\* instance in JavaScript, which needs no lock that a waiting thread has.
Reenters(t) ==
  /\ ~Idle(t)
  /\ IsLua(Top(t).contract) \/ (IsJs(Top(t).contract) /\ Top(t).op # "destroy")
  /\ \E n \in 1 .. Len(stack[t]) - 1 : VmOf[stack[t][n].contract] = VmOf[Top(t).contract]

\* No threads wait for each other in a cycle, through VMs, instances mutexes and
\* dispatch locks, unless one of them has gone back into a VM it is in
\* ("cross-thread callers queue", dispatch_lock; "a nested dispatch can never
\* deadlock on the registry mutex", js_dispatch_impl).
NoLockCycle ==
  \A S \in SUBSET Thread :
    S # {} /\ (\A t \in S : ~Idle(t) /\ Needed(t) # <<>> /\ holder[Needed(t)] \in S) =>
      \E t \in S : Reenters(t)

\* A handle resolves to the object its own create built, never to another's; a
\* stale one to nothing ("Two live instances of the same contract never share
\* state", LuaLoaderData).
HandleRoutes ==
  \A h \in handles :
    /\ h.id \in DOMAIN instances[h.contract] => instances[h.contract][h.id] = h.object
    /\ h.live => h.id \in DOMAIN instances[h.contract]

\* A thread is marked under a guard exactly while it is in a dispatch under it:
\* a mark left behind would refuse the thread for good (LuaDispatchGuard,
\* JsDispatchGuard).
GuardExact ==
  \A t \in Thread, g \in Guards :
    t \in in_dispatch_threads[g] <=>
      \E n \in DOMAIN stack[t] :
        LET f == stack[t][n] IN f.op = "dispatch" /\ ~IsPython(f.contract) /\ Guard(f.contract) = g

-----------------------------------------------------------------------------
(***************************************************************************)
(* What the properties rest on.                                            *)
(***************************************************************************)

\* Which phases a call goes through, by its operation and its loader.
WellFormed(f) ==
  /\ f.phase \in {"lookup", "queued"} => IsLua(f.contract) /\ f.op = "dispatch"
  /\ f.phase = "resolved" => ~IsPython(f.contract) /\ f.op = "dispatch"
  /\ f.phase = "returned" => IsLua(f.contract) /\ f.op = "create"
  /\ f.phase = "built" => ~IsPython(f.contract) /\ f.op = "create"
  /\ f.op = "destroy" => f.phase = "entered"

\* All calls of a thread but the innermost wait for it.
StackShape ==
  \A t \in Thread : \A n \in 1 .. Len(stack[t]) :
    /\ WellFormed(stack[t][n])
    /\ n < Len(stack[t]) => stack[t][n].phase = "calling"
    /\ n = Len(stack[t]) /\ stack[t][n].phase = "calling" => IsPython(stack[t][n].contract)

\* A dispatch marks its thread under a guard, and a call is refused under it: no
\* call of the thread is inside one that marks its guard.
Guarded(f, g) == f.op # "destroy" /\ ~IsPython(f.contract) /\ Guard(f.contract) = g
Marks(f, g) == f.op = "dispatch" /\ Guarded(f, g)
MarkedOnce ==
  \A t \in Thread : \A m, n \in 1 .. Len(stack[t]) : \A g \in Guards :
    m < n => ~(Marks(stack[t][m], g) /\ Guarded(stack[t][n], g))

\* The locks a call has in its phase.
Holds(f, l) ==
  \/ l = VmLock(f.contract) /\ (f.phase = "running" \/ (f.phase = "calling" /\ ~IsPython(f.contract)))
  \/ /\ l = DispatchLock(f.contract) /\ IsLua(f.contract)
     /\ f.op = "dispatch" /\ f.phase \in {"queued", "running", "calling"}
  \/ l = Registry(f.contract) /\ f.phase = "lookup"

\* A thread has no other locks than its calls have.
LocksAccounted ==
  \A t \in Thread, l \in Lock : holder[l] = t => \E n \in 1 .. Len(stack[t]) : Holds(stack[t][n], l)

\* The instance a Lua dispatch looks up stays in the map until it is resolved.
LookupsHeld ==
  \A t \in Thread : \A n \in 1 .. Len(stack[t]) : stack[t][n].phase = "lookup" =>
    holder[Registry(stack[t][n].contract)] = t /\ Known(stack[t][n])

\* Ids are not used twice, and a handle that is being destroyed is given up.
HandlesTracked ==
  /\ \A h \in handles : h.id < next_id[h.contract]
  /\ \A c \in Contract : DOMAIN instances[c] \subseteq 1 .. next_id[c] - 1
  /\ \A h, k \in handles : h.contract = k.contract /\ h.id = k.id => h = k
  /\ \A t \in Thread : \A n \in 1 .. Len(stack[t]) : stack[t][n].op = "destroy" =>
       \E h \in handles : h.contract = stack[t][n].contract /\ h.id = stack[t][n].id /\ ~h.live

DispatchInv ==
  /\ TypeOK /\ StackShape /\ MarkedOnce /\ LocksAccounted /\ LookupsHeld /\ HandlesTracked
  /\ GuardExact /\ HandleRoutes

\* The discipline of guest code, for an order of the VMs: it calls into its own
\* VM or a later one.
CallsOrdered(rank) ==
  /\ \A u, v \in Lua \cup Js : rank[u] = rank[v] => u = v
  /\ \A k \in Calls : rank[VmOf[k.from]] <= rank[VmOf[k.to]]

\* The calls of a thread go up in that order.
StackOrdered(rank) ==
  \A t \in Thread : \A m, n \in 1 .. Len(stack[t]) :
    m < n => rank[VmOf[stack[t][m].contract]] <= rank[VmOf[stack[t][n].contract]]
=============================================================================
