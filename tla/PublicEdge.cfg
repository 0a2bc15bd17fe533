SPECIFICATION Spec
CONSTANTS
  Attempts = {a1, a2}
  Keys = {k1}
  Max = 2
  Window = 2
  Visits = {v1, v2}
  FreshFor = 1
  StaleFor = 2
INVARIANT AsksOnlyWhenStale
PROPERTIES ForeverNeedsALoss Reopens EveryVisitAnswered
