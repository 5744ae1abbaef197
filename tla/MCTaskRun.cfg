SPECIFICATION Spec
CONSTANTS
  Video <- MCVideo
  Total = 2
  CkptEvery = 1
  plain = plain
  tuned = tuned
  moved = moved
  Config = {plain, tuned, moved}
  HashOf <- MCHashOf
  MaxRuns = 3
  None = None
  Torn = Torn
INVARIANTS
  LoadedIsGenuine
  FreshOkIsComplete
  OkLeavesNoCheckpoint
CHECK_DEADLOCK FALSE
