CONSTANTS
  a = a
  b = b
  x = x
  y = y
  z = z
  None = None
  Thread = {a, b}
  Creator = {a}
  Closer = {a}
  Ctx <- Ctx3
  Mask = 3
  Harbor = 4
  FirstSize = 2
  Name = {1, 2}
SYMMETRY Symmetry
SPECIFICATION Spec
INVARIANTS
  TypeOK
  FoundByHandle
  RefExact
  NamesFound
PROPERTIES
  AllRetired
CHECK_DEADLOCK FALSE
