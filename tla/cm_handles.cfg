SPECIFICATION Spec
CONSTANTS
  NULL = NULL
  Threads = {t1, t2}
  Half = 9
  Idents = {i1, i2}
  Forces = {TRUE, FALSE}
  MaxJobs = 1
SYMMETRY Symmetry
CHECK_DEADLOCK FALSE
INVARIANTS OneCreator StateAgrees HandlesTrackedUntilClosed
