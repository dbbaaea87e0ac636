SPECIFICATION FairSpec
CONSTANTS
  A = a
  NULL = NULL
  Addresses = {a, b}
  Ids = {0, 1, 2}
  IdsOf <- MCIdsOf
  Configured = {b}
  MaxEntries <- MCMaxEntries
  MaxRestarts = 1
CHECK_DEADLOCK FALSE
INVARIANTS NeverForgotten OneEntry NoNullEntry
PROPERTIES FoundEventually
