SPECIFICATION SerialSpec
CONSTANTS
  b1 = b1
  b2 = b2
  c1 = c1
  c2 = c2
  p1 = p1
  p2 = p2
  p3 = p3
  px = px
  BundleId = {b1}
  GuestContractId = {c1, c2}
  Plugin = {p1, p2, p3}
  ContractIdOf <- MCContractIdOf
  CanonicalName <- MCCanonicalName
  DependencySets <- MCDependencySets
  MaxSlots = 3
  GenerationModulus = 2
  Images = 2
  Vacant = Vacant
  NoHandle = NoHandle
SYMMETRY Symmetry
INVARIANTS HandleExact OneImagePerBundle StoreInv
PROPERTIES ReloadKeepsContracts AbortKeepsProviders ImplementsDirectory
