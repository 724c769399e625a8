SPECIFICATION FairSpec
CONSTANTS
  Workers = {w1, w2}
  Window = 3
  Limit = 2
  Second = 2
INVARIANTS SlidingBounded RetryKept
PROPERTY RefusedThenServed
CHECK_DEADLOCK FALSE
