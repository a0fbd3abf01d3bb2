CONSTANTS
  q1 = q1
  q2 = q2
  q3 = q3
  q4 = q4
  None = None
  Queue <- Queues
  CreationOrder <- Order
  MaxMail = 2
SPECIFICATION Spec
INVARIANTS
  TypeOK
  NoUseAfterFree
  FlagTruth
PROPERTIES
  GlobalIsFifo
  AllReleased
CHECK_DEADLOCK FALSE
