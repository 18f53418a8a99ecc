SPECIFICATION StartupSpec
CONSTANTS
  Bundles = 3
  MaxCalls = 2
  MaxForeign = 1
  Directories <- MCDirectories
CHECK_DEADLOCK FALSE
INVARIANTS DependentsReloaded CascadeComplete NoOrphan AffinityFirst ProvidersFirst StrictHonoured
PROPERTIES CallReturns
