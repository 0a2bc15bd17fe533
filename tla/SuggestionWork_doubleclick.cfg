SPECIFICATION Spec
CONSTANTS
  Suggestions = {s1}
  Requests = {c1, c2}
  Staff = {w1}
  Admins = {}
  Nobody = nobody
  MaxFaults = 0
INVARIANT DoubleClickOneTask
CHECK_DEADLOCK FALSE
