SPECIFICATION Spec
CONSTANTS
  Server = {s1, s2}
  PeerList <- MCPeerList
  Customer = {c1}
  IdOf <- MCOwnIds
  ConnId <- MCConn6
  NoOne = NoOne
  TornIdx = 99
  NumOrders = 2
  MaxSessions <- MCTwoRuns
  Mortal = {}
  Flaky = {}
  MaxCrashes <- MCNoCrash
INVARIANTS
  TakeoverAlignsCommittedIndex
CHECK_DEADLOCK FALSE
