SPECIFICATION Spec
CONSTANTS
  t1 = t1
  t2 = t2
  Timer <- Timers2
  TIME_NEAR = 2
  TIME_LEVEL = 4
  LEVELS = 2
  MaxDelay = 15
  MaxLag = 2
INVARIANTS TypeOK PlacedRight
PROPERTIES OnTime SameTickInOrder AllFire
