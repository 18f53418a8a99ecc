SPECIFICATION HostSpec
CONSTANTS
  h1 = h1
  i1 = i1
  i2 = i2
  None = None
  Thread = {t1, t2}
  Bundle = {b1, b2}
  Contract = {c1, c2}
  NestsItself = FALSE
  MaxDepth = 2
  MaxWindows = 3
  HostContractId = {h1}
  HostInterface = {i1, i2}
  ContractIdOf <- Contracts
  Singleton = {i1}
  MaxInstances = 2
SYMMETRY Symmetry
INVARIANTS CallerExact WholeTransactions SingletonOnce
