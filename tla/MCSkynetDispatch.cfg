CONSTANTS
  s1 = s1
  s2 = s2
  s3 = s3
  None = None
  Service <- Services3
  CreationOrder <- Order3
  Worker = {w1, w2, w3}
  Pusher = {timer, socket}
  Message = {m1, m2, m3}
SPECIFICATION Spec
INVARIANTS
  TypeOK
  Exclusive
  LinkedOnce
  FlagTruth
  NoLostWakeup
PROPERTIES
  MailboxSpec
