SPECIFICATION Spec
CONSTANTS
  None = None
  Frames = 4
  Keyframes = {0}
  QueueSize = 1
  MaxSkip = 2
  Files <- MCFiles
  Picture = {0, 1, 2, 3}
  WriteQueueSize = 1
  Sinks <- MCSinks
  SeekTargets = {2, 3}
  NeedsMuxing = {TRUE, FALSE}
  PipelineRoom = 2
INVARIANTS
  ReadsAreConsecutive
  EmptyMeansEnd
  OneUserOfContext
  FileIsWhatWasGiven
  OkMeansWhole
PROPERTIES
  StoppingReturns
  ReadableRunEnds
CHECK_DEADLOCK FALSE
