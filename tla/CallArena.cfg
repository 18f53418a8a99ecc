SPECIFICATION Spec
CONSTANTS
  UsizeMax = 63
  Header = 3
  BlockMin = 8
  BlockAlign = 1
  Sizes = {0, 1, 2, 5, 62}
  Aligns = {1, 3, 4}
  PowersOfTwo = {1, 2, 4, 8}
  Buffers <- MCBuffers
  Sites = {9, 22, 34, 46}
  MaxAllocs = 3
  NoArena = NoArena
INVARIANTS ResultsApart BlocksOwned RetentionBounded
PROPERTIES FreshBlockServes
