SPECIFICATION FairSpec
CONSTANTS
  Suggestions = {s1}
  Requests = {c1, c2}
  Staff = {w1, w2}
  Admins = {w2}
  Nobody = nobody
  MaxFaults = 1
INVARIANTS
  TypeOK
  AcceptedHasWork
  RejectedStopsWork
  WorkedOnOnce
PROPERTIES
  InstallationCloses
CHECK_DEADLOCK FALSE
