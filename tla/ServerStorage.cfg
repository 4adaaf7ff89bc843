SPECIFICATION Spec
CONSTANTS
  Thread = {admin, t2}
  Admin = admin
  NoThread = NoThread
  MaxCalls = 2
  Customer = {c1, c2}
  Number = {0, 1}
  Torn = 99
INVARIANTS
  TypeOK
  UnlockedReadsTornOnlyByGrowth
PROPERTIES
  ImplementsAtomicStorage
CHECK_DEADLOCK FALSE
