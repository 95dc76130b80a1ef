SPECIFICATION FairSpec
CONSTANTS
  Session = {1, 2, 3}
  Batch = {1, 2}
  BatchOf <- TwinBatchOf
  Records <- TwinRecords
  Key = {"k1", "k2", "k3"}
  None = None
  PageSize = 2
  StagingName = {n1}
  NoName = NoName
  MaxFaults = 1
CHECK_DEADLOCK FALSE
INVARIANT TypeOK
INVARIANT UpsertsFit
INVARIANT NoStagingLeft
INVARIANT TwinsDoNotDeadlock
PROPERTY LoadsAreAtomic
PROPERTY AllLoaded
