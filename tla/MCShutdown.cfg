SPECIFICATION Spec
CONSTANTS
  Timeout = 2
  WaitLimit = 4
  MaxSignals = 2
INVARIANTS
  CallbackOutlived
  ZeroMeansUncancelled
PROPERTIES
  UninstallReturns
  CancelEndsProcess
  SignalIsHeard
CHECK_DEADLOCK FALSE
