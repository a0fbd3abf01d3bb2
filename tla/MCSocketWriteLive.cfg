CONSTANTS
  m1 = m1
  m2 = m2
  m3 = m3
  None = None
  Thread = {a, b}
  Package <- Packages2
  Size = 2
  Capacity = 3
  MaxClose = 2
  FirstType = "connected"
  MayFail = TRUE
SPECIFICATION Spec
PROPERTIES
  AllFlushed
  ShutdownCloses
CHECK_DEADLOCK FALSE
