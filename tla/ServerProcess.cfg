SPECIFICATION Spec
CONSTANTS
  Fd = {f1, f2, f3, f4, f5}
  NoFd = NoFd
  Listener = Listener
  Engineer = {e1, e2}
  MaxStubs = 4
  MaxArgc = 11
SYMMETRY MCSymmetry
INVARIANTS
  ArgumentsRead
  DescriptorsOwned
  DescriptorsAccounted
  ValidStubIsOpen
CHECK_DEADLOCK FALSE
