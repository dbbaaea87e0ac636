SPECIFICATION FairSpec
CONSTANTS
  NULL = NULL
  Nodes = {n1}
  SRQSize = 2
  MaxSGEs = 2
  PoolSize = 4
  BufferSize = 2
  MaxFC = 1
CHECK_DEADLOCK FALSE
INVARIANTS PendingExact WRConserved NeverInsane OneOwner
PROPERTIES ImplementsStream RefilledEventually DeliveredEventually
