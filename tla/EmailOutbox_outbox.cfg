SPECIFICATION FairSpec
CONSTANTS
  Mails = {m1,m2}
  Workers = {c1,c2}
  MaxSends = 3
  None = None
INVARIANTS TaskFindsRow MarksBounded
PROPERTY KeepsPromise
CHECK_DEADLOCK FALSE
