SPECIFICATION FairSpec
CONSTANTS
  None = None
  Nodes = {n1, n2}
  SQSize = 2
  SCQSize = 4
  MaxWant = 2
  MaxFaults = 1
CHECK_DEADLOCK FALSE
INVARIANTS PendingCovers PendingExact Totals ResourcesSuffice HandlerKnows
PROPERTY QueueDrains
