CONSTANTS
  Accounts = {a1}
  Admins = {m1}
  Loop = loop
  MaxJobs = 2
  MaxTries = 2
  RetryBatch = 3
  MaxFaults = 1
SPECIFICATION Spec
INVARIANTS
  TypeOK
  DoneHasAccess
  AutomationNeverOverlaps
  CredentialsCurrent
  RetryBudget
  NoOrphanJob
  SiteTaskOnce
PROPERTIES
  PublishedStays
