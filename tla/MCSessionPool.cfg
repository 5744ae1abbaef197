SPECIFICATION PoolSpec
CONSTANTS
  Key = {swapper, enhancer, detector}
  Limits <- MCLimits
  MaxSessions = 4
  Nil = Nil
INVARIANTS
  ListIsMap
PROPERTY
  IsLruCache
CHECK_DEADLOCK FALSE
