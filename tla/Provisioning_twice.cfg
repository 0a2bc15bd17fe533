CONSTANTS
  Accounts = {a1}
  Admins = {m1, m2}
  Loop = loop
  MaxJobs = 2
  MaxTries = 2
  RetryBatch = 2
  MaxFaults = 0
SPECIFICATION Spec
INVARIANT
  NeverProvisionedTwice
