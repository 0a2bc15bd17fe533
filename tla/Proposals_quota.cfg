SPECIFICATION Spec
CONSTANTS
  Requests = {r1, r2}
  Sections <- MCSections
  Titles <- MCTitles
  Results <- MCResults
  TypeSetups <- MCTypeSetups
  Plans <- MCPlans
  Quota <- MCQuota
  Base = "base"
  MaxStored = 2
SYMMETRY Symmetry
INVARIANTS
  TypeOK
  AllFiled
  ReachedIsTrue
  SetupNeverWaits
PROPERTIES
  QuotaNeedsARace
  OneOpenPerTitle
  NotAgainSoon
CHECK_DEADLOCK FALSE
