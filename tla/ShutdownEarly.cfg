SPECIFICATION Spec
CONSTANTS
  Timeout = 2
  WaitLimit = 4
  MaxSignals = 2
INVARIANT CompletedMeansStopped
CHECK_DEADLOCK FALSE
