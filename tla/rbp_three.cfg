SPECIFICATION FairSpec
CONSTANTS
  NULL = NULL
  PoolSize = 3
  Consumer = recv
  Returners = {recv, app1, app2}
  MaxGet = 2
  MaxReturn = 2
CHECK_DEADLOCK FALSE
INVARIANTS TypeOK OneOwner NoOverwrite QuiescentConsistent CursorOrder
PROPERTY SomeCallFinishes
