CONSTANTS
  None = None
  Message = {m1, m2}
  DEFAULT_QUEUE_SIZE = 2
  MQ_OVERLOAD = 1
  MaxLength = 6
SPECIFICATION Spec
INVARIANTS
  RingOK
PROPERTIES
  FifoSpec
  ReportsGrow
