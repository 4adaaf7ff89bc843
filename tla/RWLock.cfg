SPECIFICATION FairSpec
CONSTANTS
  Thread = {t1, t2, t3}
  NoThread = NoThread
  MaxCalls = 2
INVARIANTS
  ReadersExcludeWriters
  LockInv
PROPERTIES
  CallsComplete
CHECK_DEADLOCK FALSE
