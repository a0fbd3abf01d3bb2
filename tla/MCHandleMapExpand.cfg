SPECIFICATION Spec
CONSTANTS
  t1 = t1
  t2 = t2
  t3 = t3
  u1 = u1
  u2 = u2
  u3 = u3
  None = None
  Thread <- Threads3
  Object <- Objects3
  INIT_SLOTS = 2
  IdMod = 8
  MaxRefs = 2
INVARIANT HeldIsMapped
SYMMETRY Symmetry
