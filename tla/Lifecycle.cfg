SPECIFICATION LifecycleSpec
CONSTANTS
  b1 = b1
  b2 = b2
  c1 = c1
  p1 = p1
  t1 = t1
  t2 = t2
  r1 = r1
  r2 = r2
  BundleId = {b1, b2}
  Caller = {t1, t2}
  Reader = {r1}
  Manages <- OwnBundle
  DependencySets <- SomeDependencies
  MaxSlots = 2
  MaxLibraries = 3
  Images = 4
  GuestContractId = {c1}
  Plugin = {p1}
  ContractIdOf <- MCContractIdOf
  CanonicalName <- MCCanonicalName
  GenerationModulus = 1
  Vacant = Vacant
  NoHandle = NoHandle
SYMMETRY Readers
INVARIANTS ColdCallMapped PublishedMapped UnloadedReclaimed LoadedBacked LibraryAccounted
