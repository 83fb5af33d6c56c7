SPECIFICATION Spec
CONSTANTS
  Threshold = 2
  Window = 3
  Cooldown = 2
  MaxTime = 7
  MaxResults = 5
INVARIANTS
  TypeOK
  BoundedHarm
  OpenWithCause
\* The clock and the results come to their bounds; Restart goes on.
