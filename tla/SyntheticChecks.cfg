SPECIFICATION FairSpec
CONSTANTS
  Processes = {p1, p2}
  p1 = p1
  p2 = p2
  Ids = {1, 2, 3}
  Configs <- MC_Configs
  MaxFaults = 1
INVARIANTS
  OneRunPerFault
  ObjectsBounded
PROPERTIES
  LeftoversGo
  ChecksGoOn
  PodsAdmitted
  ClaimsAdmitted
  ConfigMapsAdmitted
