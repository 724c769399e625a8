SPECIFICATION Spec
CONSTANTS
  Users = {u1, u2}
  Passwords = {p1}
  RefreshTokens = {t1, t2, t3}
  ResetTokens = {k1}
  Workers = {w1, w2}
  MaxFailures = 2
  MaxUnlocks = 1
  Kinds <- SessionKinds
  None = None
SYMMETRY Symmetry
INVARIANTS TypeOK RotationLinked EndedStaysEnded
PROPERTIES OnlyOwnSessionsRevoked KeepsServer
CHECK_DEADLOCK FALSE
