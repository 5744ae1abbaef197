SPECIFICATION Spec
CONSTANTS
  None = None
  Worker = {w1, w2}
  Id <- MCId
  MaxQueueSize = 2
  BatchSize = 2
  Targets = 3
  Unreadable <- MCUnreadable
  OutputOf <- MCOutputOf
  WriteMayFail = TRUE
INVARIANTS
  FramesAreTargets
  OkMeansEveryImage
PROPERTIES
  ReadableBatchReturns
  IsPipelineClient
CHECK_DEADLOCK FALSE
