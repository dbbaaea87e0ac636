SPECIFICATION Spec
CONSTANTS
  NULL = NULL
  PoolSize = 4
  Consumer = recv
  Returners = {recv}
  MaxGet = 3
  MaxReturn = 2
CHECK_DEADLOCK FALSE
INVARIANT NeverThrows
PROPERTY ImplementsPool
