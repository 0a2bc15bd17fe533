CONSTANTS
  Accounts = {a1, a2}
  Admins = {}
  Loop = loop
  MaxJobs = 2
  MaxTries = 2
  RetryBatch = 1
  MaxFaults = 0
SPECIFICATION FairSpec
PROPERTY
  EveryWaitingJobRetried
