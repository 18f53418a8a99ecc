SPECIFICATION Spec
CONSTANTS
  la = la
  lb = lb
  ja = ja
  jb = jb
  py = py
  luaVm = luaVm
  jsVm = jsVm
  interpreter = interpreter
  t1 = t1
  t2 = t2
  None = None
  Contract = {la, lb, ja, jb, py}
  Lua = {luaVm}
  Js = {jsVm}
  Python = {interpreter}
  VmOf <- Vms
  Calls <- Ordered
  Thread = {t1, t2}
  MaxDepth = 3
  MaxObjects = 2
SYMMETRY Threads
INVARIANTS ReentryUnguarded NoLockCycle HandleRoutes GuardExact
CHECK_DEADLOCK FALSE
