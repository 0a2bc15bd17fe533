CONSTANTS
  Accounts = {a1}
  Admins = {m1}
  Loop = loop
  MaxJobs = 2
  MaxTries = 2
  RetryBatch = 2
  MaxFaults = 0
SPECIFICATION FairSpec
PROPERTIES
  EveryWaitingJobRetried
  EveryPlannedJobRuns
