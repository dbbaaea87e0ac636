SPECIFICATION Spec
CONSTANTS
  ORBSize = 7
  MaxRecv = 3
  SQSize = 4
  MaxFC = 1
CHECK_DEADLOCK FALSE
INVARIANTS ChunksTile FCOnce StopsWhenFull
