SPECIFICATION Spec
CONSTANTS
  Item = {cpu, mem}
  ValueType = {0}
  TypeOf <- SameType
  Interval = 2
  Span = 0
  Overlap = 1
  Manual = 2
  Delay = 1
  Chunk = 1
  Retries = 1
  Horizon = 5
  MaxValues = 2
SYMMETRY Alike
CHECK_DEADLOCK FALSE
INVARIANT NoGapBetweenRuns
