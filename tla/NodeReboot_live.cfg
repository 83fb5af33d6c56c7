SPECIFICATION FairSpec
CONSTANTS
  NewNodeThreshold = 1
  NodeReadyMaxWait = 0
  NodeConditionTTL = 0
  CRTTL = 0
  Pools = {"plain"}
  MaxNodes = 1
  MaxTime = 1
  MaxBoots = 2
  MaxChanges = 1
  MaxVerdicts = 1
  MaxFaults = 1
INVARIANTS
  NothingForgotten
PROPERTIES
  RebootsAreSeen
  StaleConditionsGo
\* A cluster in which nothing happens any more may stop.
CHECK_DEADLOCK FALSE
