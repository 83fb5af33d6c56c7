SPECIFICATION Spec
CONSTANTS
  MaxCRs = 1
  MaxFaults = 1
  ReportedStatus = {"Healthy", "Unhealthy"}
  UsersDelete = TRUE
  EnableNodeCondition = TRUE
INVARIANTS
  TypeOK
  TrueNeedsEvidence
  NodeConditionMatchesVerdict
  NothingForgotten
PROPERTIES
  VerdictFinal
  NotFinishedEarly
\* Once MaxCRs CRs have come and gone nothing is left to do.
CHECK_DEADLOCK FALSE
