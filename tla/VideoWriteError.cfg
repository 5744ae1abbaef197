SPECIFICATION Spec
CONSTANTS
  None = None
  Worker = {w1}
  Id <- MCId
  MaxQueueSize = 1
  BatchSize = 4
  Total = 4
  Readable <- MCReadable
  MaxFrames = 0
  CkptEvery = 100
  StartFrames = {0}
  WriteMayFail = TRUE
  Muxing = FALSE
PROPERTY WriterErrorIsReported
CHECK_DEADLOCK FALSE
