SPECIFICATION Spec
CONSTANTS
  Payload <- MixedPayload
  MaxRequests = 2
  Common = {"node_fqdn"}
  Metric <- MCMetric
  PrefixClass <- MCPrefixClass
  Named <- MCNamed
  TableOf <- MCTableOf
  MetricMap <- MCMetricMap
  None = None
  Junk = Junk
CHECK_DEADLOCK FALSE
INVARIANT TypeOK
INVARIANT EveryRecordStaged
INVARIANT SameColumns
