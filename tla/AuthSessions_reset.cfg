SPECIFICATION FairSpec
CONSTANTS
  Users = {u1}
  Passwords = {p1, p2}
  RefreshTokens = {t1, t2}
  ResetTokens = {k1}
  Workers = {w1, w2}
  MaxFailures = 2
  MaxUnlocks = 1
  Kinds <- ResetKinds
  None = None
PROPERTY StaleSessionsEnd
INVARIANTS PasswordCurrent GuessesBounded ResetsBounded
CHECK_DEADLOCK FALSE
