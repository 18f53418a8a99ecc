SPECIFICATION Spec
CONSTANTS
  b1 = b1
  b2 = b2
  t1 = t1
  t2 = t2
  u1 = u1
  u2 = u2
  None = None
  InternalBundle = {b1}
  LoaderBundle = {b2}
  Thread = {t1, t2}
  User = {u1, u2}
  Disciplined = TRUE
  MaxPlugins = 3
SYMMETRY Symmetric
CHECK_DEADLOCK FALSE
INVARIANTS BackingAlive ResidentOnOwner BackingAccounted BackingFiled CountExact NoLockCycle
