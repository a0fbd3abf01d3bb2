CONSTANTS
  m1 = m1
  m2 = m2
  m3 = m3
  None = None
  Thread = {a, b}
  Package <- Packages2
  Size = 2
  Capacity = 3
  MaxClose = 1
  FirstType = "connected"
  MayFail = FALSE
SPECIFICATION Spec
PROPERTIES
  HalfCloseEnds
CHECK_DEADLOCK FALSE
