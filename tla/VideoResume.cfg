SPECIFICATION Spec
CONSTANTS
  None = None
  Worker = {w1, w2}
  Id <- MCId
  MaxQueueSize = 1
  BatchSize = 4
  Total = 2
  Readable <- MCReadable
  MaxFrames = 0
  CkptEvery = 2
  StartFrames = {1}
  WriteMayFail = FALSE
  Muxing = FALSE
PROPERTY ResumedRunReturns
CHECK_DEADLOCK FALSE
