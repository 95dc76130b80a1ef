SPECIFICATION Spec
CONSTANTS
  Worker = {w1, w2}
  Request = {"r1", "r2", "r3", "r4"}
  Table = {"node", "disk"}
  Body <- MixedBody
  Retries <- MixedRetries
  StagingEnabled = TRUE
  JsonlEnabled = FALSE
  MaxFaults = 1
  None = None
CHECK_DEADLOCK FALSE
INVARIANT FailsSoftly
