SPECIFICATION Spec
CONSTANTS
  NewNodeThreshold = 1
  NodeReadyMaxWait = 0
  NodeConditionTTL = 0
  CRTTL = 0
  Pools = {"plain", "uninitialized"}
  MaxNodes = 2
  MaxTime = 1
  MaxBoots = 2
  MaxChanges = 1
  MaxVerdicts = 0
  MaxFaults = 1
INVARIANTS
  TypeOK
  SeenMeansChecked
  OneCheckUnlessLapsed
\* A cluster in which nothing happens any more may stop.
CHECK_DEADLOCK FALSE
