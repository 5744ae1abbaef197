SPECIFICATION Spec
CONSTANTS
  None = None
  Worker = {w1, w2}
  Id <- MCId
  MaxQueueSize = 2
  BatchSize = 2
  MaxStarts = 2
  MaxId = 2
INVARIANTS
  TypeOK
  InOrder
  ExactlyOnce
  NothingOverdue
PROPERTIES
  StopReturns
  StreamSpec
CHECK_DEADLOCK FALSE
