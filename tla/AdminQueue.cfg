SPECIFICATION FairSpec
CONSTANTS
  Engineer = {e1, e2, e3}
  Admin = Admin
  Nobody = Nobody
  MaxOrders = 2
  MaxSpurious = 2
INVARIANTS
  HandshakeInv
  NoLostWakeup
PROPERTIES
  ImplementsOrderQueue
  RequestAnswered
CHECK_DEADLOCK FALSE
