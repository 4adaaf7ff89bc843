SPECIFICATION FairSpec
CONSTANTS
  Server = {s1, s2}
  PeerList <- MCPeerList
  Customer = {c1, c2}
  IdOf <- MCOneId
  ConnId <- MCConn6
  NoOne = NoOne
  TornIdx = 99
  NumOrders = 1
  MaxSessions <- MCOneRun
  Mortal = {c1}
  Flaky = {s1}
  MaxCrashes <- MCCrashEach
INVARIANTS
  TypeOK
  RejoinedPeerNotCaughtUp
  FactoryInv
PROPERTIES
  OrderAnswered
CHECK_DEADLOCK FALSE
