SPECIFICATION FairSpec
CONSTANTS
  NumCustomers = 2
  Orders = {0, 2}
  Types = {1, 2, 3, 4}
  NoMin = 2
  MaxTime = 3
INVARIANTS
  StatsOfAllOperations
  StatsWithinRun
  NoMeanOnlyUnconnected
PROPERTIES
  ClientEnds
CHECK_DEADLOCK FALSE
