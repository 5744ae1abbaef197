SPECIFICATION Spec
CONSTANTS
  None = None
  Worker = {w1, w2}
  Id <- MCId
  MaxQueueSize = 2
  BatchSize = 2
  Total = 4
  Readable <- MCReadable
  MaxFrames = 3
  CkptEvery = 2
  StartFrames = {0, 1, 4}
  WriteMayFail = TRUE
  Muxing = TRUE
INVARIANTS
  OkMeansComplete
  FilesMatchResult
PROPERTIES
  FreshRunReturns
  IsPipelineClient
CHECK_DEADLOCK FALSE
