SPECIFICATION FairSpec
CONSTANTS
  Clients = {c1, c2}
  Emails = {e1}
  Subs = {g1}
  GoogleEmail <- OneGoogle
  Tokens = {t1}
  MaxUsers = 3
  MaxCrashes = 1
  None = None
  e1 = e1
  e2 = e2
  g1 = g1
INVARIANTS TypeOK AccountsBounded OneAccountPerIdentity ResetEndsSessions ResetsBounded VerificationsKept
PROPERTY EndsLinked
CHECK_DEADLOCK FALSE
