SPECIFICATION FairSpec
CONSTANTS
  MaxCRs = 1
  MaxFaults = 1
  ReportedStatus = {"Healthy"}
  UsersDelete = FALSE
  EnableNodeCondition = FALSE
PROPERTIES
  ChecksComeToRest
\* Once MaxCRs CRs have come and gone nothing is left to do.
CHECK_DEADLOCK FALSE
