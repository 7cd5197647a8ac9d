SPECIFICATION Spec
CONSTANTS
  max = 3
  CacheSize = 3
  MaxPage = 2
  Setups <- SmallSetup
INVARIANTS FreeReturns
CHECK_DEADLOCK FALSE
