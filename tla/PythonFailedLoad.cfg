SPECIFICATION Spec
CONSTANTS
  r1 = r1
  r2 = r2
  b1 = b1
  b2 = b2
  m1 = m1
  m2 = m2
  None = None
  Runtime = {r1}
  Bundle = {b1, b2}
  Name = {m1, m2}
  MaxLoads = 2
CHECK_DEADLOCK FALSE
INVARIANTS OwnModules
