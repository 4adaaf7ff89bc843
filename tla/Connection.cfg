SPECIFICATION FairSpec
CONSTANTS
  Kinds = {"orders", "read", "reads", "primary"}
  Machines <- MCMachines
  NumRequests = 2
INVARIANTS
  TypeOK
  ServedAsMeant
  SpinsOnlyUnidentified
  AnswerIsForRequest
  ForeignNeverServed
PROPERTIES
  ImplementsWholeMessages
  CallsReturn
CHECK_DEADLOCK FALSE
