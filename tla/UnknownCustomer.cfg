SPECIFICATION ReadsSpec
CONSTANTS
  Server = {s1, s2}
  PeerList <- MCPeerList
  Customer = {c1, c2}
  IdOf <- MCOwnIds
  ConnId <- MCConn6
  NoOne = NoOne
  TornIdx = 99
  NumOrders = 1
  MaxSessions <- MCOneRun
  Mortal = {}
  Flaky = {}
  MaxCrashes <- MCNoCrash
  Reader = {r1}
  ReadList <- MCReadList
  MaxReads = 1
INVARIANTS
  UnknownCustomerIsMinusOne
CHECK_DEADLOCK FALSE
