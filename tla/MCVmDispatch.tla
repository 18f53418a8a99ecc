---------------------------- MODULE MCVmDispatch ----------------------------
(* Instances of VmDispatch: two contracts in one Lua bundle, two in one      *)
(* JavaScript bundle, and a Python contract.                                 *)
EXTENDS VmDispatch, TLC

CONSTANTS la, lb, ja, jb, py, luaVm, jsVm, interpreter, t1, t2

Vms == la :> luaVm @@ lb :> luaVm @@ ja :> jsVm @@ jb :> jsVm @@ py :> interpreter
Function(from, op, to) == [from |-> from, in |-> "dispatch", op |-> op, to |-> to]
Factory(from, op, to) == [from |-> from, in |-> "create", op |-> op, to |-> to]

Threads == Permutations(Thread)

\* Guest code calls other VMs, Lua before JavaScript, and back into its own, where
\* the guard refuses it and where it does not: functions of one Lua bundle call
\* another contract of it and destroy their own instances, and factories call
\* their own bundle.
Ordered ==
  { Function(la, "dispatch", la), Function(la, "create", la), Function(la, "dispatch", ja),
    Function(la, "dispatch", lb), Function(la, "destroy", la), Factory(la, "dispatch", ja),
    Function(lb, "create", py), Function(lb, "destroy", py), Function(lb, "dispatch", ja),
    Function(ja, "dispatch", jb), Function(ja, "create", ja), Function(ja, "destroy", ja),
    Function(ja, "dispatch", py), Factory(jb, "dispatch", jb),
    Function(py, "dispatch", jb), Function(py, "dispatch", py) }

\* They keep to the order Lua, then JavaScript and Python.
Ranks == luaVm :> 0 @@ jsVm :> 1 @@ interpreter :> 1
ASSUME OrderedAssumption == CallsOrdered(Ranks)
=============================================================================
