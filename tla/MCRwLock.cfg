SPECIFICATION Spec
CONSTANTS
  t1 = t1
  t2 = t2
  t3 = t3
  t4 = t4
  Thread <- Threads4
INVARIANTS Exclusive Balanced
PROPERTY WriterGetsIn
