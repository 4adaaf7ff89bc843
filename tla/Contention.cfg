SPECIFICATION Spec
CONSTANTS
  Server = {s1, s2}
  PeerList <- MCPeerList
  Customer = {c1, c2}
  IdOf <- MCOwnIds
  ConnId <- MCConn6
  NoOne = NoOne
  TornIdx = 99
  NumOrders = 2
  MaxSessions <- MCOneRun
  Mortal = {}
  Flaky = {}
  MaxCrashes <- MCNoCrash
SYMMETRY MCSymmetry2
INVARIANTS
  RecordFollowsAcks
  AtMostOneSettledPrimary
  CopiesBoundedByStubs
PROPERTIES
  ImplementsOrderService
CHECK_DEADLOCK FALSE
