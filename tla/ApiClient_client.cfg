SPECIFICATION FirstSpec
CONSTANTS
  Tabs = {b1, b2}
  Calls = {c1, c2}
  TabOf <- OneTab
  Tokens = {t1, t2}
  None = None
  b1 = b1
  b2 = b2
  c1 = c1
  c2 = c2
INVARIANTS TypeOK KeepsSignedIn LogoutEnds
PROPERTIES CallsSettle KeepsServer
CHECK_DEADLOCK FALSE
