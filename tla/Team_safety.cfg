SPECIFICATION Spec
CONSTANTS
  Accounts = {a1, a2}
  Invites = {i1}
  Logins = {q1}
  Managers = {m1}
  Emails = {e1, e2}
  MaxFaults = 1
INVARIANTS
  TypeOK
  OneOwner
  OwnerlessExplained
  SessionsAreMembers
  AnsweredIsWhole
PROPERTIES
  BackfillRepairs
  ImplementsRoster
CHECK_DEADLOCK FALSE
