SPECIFICATION FairSpec
CONSTANTS
  A = a
  B = b
  NULL = NULL
  MaxJobs = 1
  MaxPackets <- TwoAndOne
  MaxFaults = 1
CHECK_DEADLOCK FALSE
INVARIANTS Agreement
PROPERTIES ConnectsOnce Opens Settles
