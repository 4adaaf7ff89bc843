SPECIFICATION Spec
CONSTANTS
  Server = {s1, s2, s3}
  PeerList <- MCPeerList
  Customer = {c1, c2}
  IdOf <- MCOwnIds
  ConnId <- MCConn6
  NoOne = NoOne
  TornIdx = 99
  NumOrders = 1
  MaxSessions <- MCOneRun
  Mortal = {}
  Flaky = {s1}
  MaxCrashes <- MCOneCrash
SYMMETRY MCSymmetryCustomers
INVARIANTS
  AckedDurable
  PrimaryConnected
  BackupsFollowPrimary
CHECK_DEADLOCK FALSE
