SPECIFICATION FairSpec
CONSTANTS
  Pods = {a, b, c}
  a = a
  b = b
  c = c
  Nameless = {c}
  OnNode = {a}
  Configurations = {{"CoreDNS"}, {"CoreDNSPerPod"}, {"LocalDNS", "AzurePolicy"}, {"MetricsServer"}, {"PodNetwork"}}
  MaxChanges = 2
  MaxFaults = 1
INVARIANTS
  TypeOK
  RecordedOnce
  ResultsHaveCause
  StillWorldTruth
  NodeCheckTruth
PROPERTIES
  ChecksRepeat
  NotMute
  NodeCheckEnds
\* Where only the node checker is configured, all is done when it is.
CHECK_DEADLOCK FALSE
