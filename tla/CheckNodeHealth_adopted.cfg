SPECIFICATION Spec
CONSTANTS
  MaxCRs = 2
  MaxFaults = 0
  ReportedStatus = {"Healthy"}
  UsersDelete = TRUE
  EnableNodeCondition = FALSE
PROPERTIES
  RunsItsOwnCheck
\* Once MaxCRs CRs have come and gone nothing is left to do.
CHECK_DEADLOCK FALSE
