SPECIFICATION Spec
CONSTANTS
  NULL = NULL
  JobThread = j
  Exchange = x
  Main = m
  Workers = {w}
  Nodes = {n1}
  Size = 3
  MaxJobs = 2
  Threads <- AllThreads
  Jobs <- AllJobs
CHECK_DEADLOCK FALSE
INVARIANTS PublishedWritten
