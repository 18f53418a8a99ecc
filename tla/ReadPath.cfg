SPECIFICATION Spec
CONSTANTS
  r1 = r1
  r2 = r2
  k1 = k1
  k2 = k2
  Reader = {r1, r2}
  Client = {k1, k2}
  Writer = Writer
  MaxPublications = 3
SYMMETRY Threads
INVARIANTS LoadedViewAlive ResolvedInterfaceAlive
