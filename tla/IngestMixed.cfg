SPECIFICATION FairSpec
CONSTANTS
  Worker = {w1, w2}
  Request = {"r1", "r2", "r3", "r4"}
  Table = {"node", "disk"}
  Body <- MixedBody
  Retries <- MixedRetries
  StagingEnabled = TRUE
  JsonlEnabled = TRUE
  MaxFaults = 2
  None = None
CHECK_DEADLOCK FALSE
INVARIANT TypeOK
INVARIANT AcceptedIsKept
INVARIANT ArchivedFirst
INVARIANT FlagIsTrue
INVARIANT RefusedStagesNothing
PROPERTY Settled
