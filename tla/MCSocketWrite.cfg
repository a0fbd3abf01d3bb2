CONSTANTS
  m1 = m1
  m2 = m2
  m3 = m3
  None = None
  Thread = {a, b}
  Package <- Packages3
  Size = 2
  Capacity = 3
  MaxClose = 2
  FirstType = "connecting"
  MayFail = TRUE
SYMMETRY Symmetry
SPECIFICATION Safety
INVARIANTS
  TypeOK
  WholePackages
  InOrder
  Accounted
  SendingTrue
  GracefulClose
CHECK_DEADLOCK FALSE
