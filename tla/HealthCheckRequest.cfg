SPECIFICATION FairSpec
CONSTANTS
  Uids = {1, 2, 3, 4}
  MaxRequests = 2
  MaxExpiries = 1
  MaxFaults = 1
INVARIANTS
  TypeOK
  SignalShowsOwnVerdict
  NothingForgotten
PROPERTIES
  RequestsAnswered
  OrphansGo
\* Once MaxRequests requests have come and gone nothing is left to do.
CHECK_DEADLOCK FALSE
