SPECIFICATION Spec
CONSTANTS
  Accounts = {a1, a2}
  Invites = {i1}
  Logins = {}
  Managers = {}
  Emails = {e1, e2}
  MaxFaults = 1
PROPERTY BackfillEnsures
CHECK_DEADLOCK FALSE
