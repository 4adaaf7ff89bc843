SPECIFICATION ReadsSpec
CONSTANTS
  Server = {s1, s2}
  PeerList <- MCPeerList
  Customer = {c1, c2}
  IdOf <- MCOwnIds
  ConnId <- MCConn6
  NoOne = NoOne
  TornIdx = 99
  NumOrders = 1
  MaxSessions <- MCOneComesBack
  Mortal = {c1}
  Flaky = {s1}
  MaxCrashes <- MCOneCrash
  Reader = {r1}
  ReadList <- MCReadList
  MaxReads = 1
INVARIANTS
  ReadsRegular
  AckedNeverUnknown
PROPERTIES
  OnlyTheDeadOverwriteNewer
CHECK_DEADLOCK FALSE
