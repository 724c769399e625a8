SPECIFICATION Spec
CONSTANTS
  Users = {u1,u2}
  Emails = {e1,e2}
  Subs = {g1}
  GoogleEmail <- OneAddress
  GoogleVerified = {g1}
  VerifyTokens = {k1,k2}
  Workers = {w1}
  Kinds <- AddressKinds
  None = None
  e1 = e1
  e2 = e2
  g1 = g1
  g2 = g2
SYMMETRY Symmetry
INVARIANT VerifiedIsProved
CHECK_DEADLOCK FALSE
