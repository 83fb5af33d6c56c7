SPECIFICATION Spec
CONSTANTS
  NewNodeThreshold = 1
  NodeReadyMaxWait = 0
  NodeConditionTTL = 0
  CRTTL = 0
  Pools = {"plain"}
  MaxNodes = 1
  MaxTime = 1
  MaxBoots = 2
  MaxChanges = 0
  MaxVerdicts = 2
  MaxFaults = 0
PROPERTIES
  RemovesOnlyStale
\* A cluster in which nothing happens any more may stop.
CHECK_DEADLOCK FALSE
