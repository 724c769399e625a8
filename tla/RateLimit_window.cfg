SPECIFICATION Spec
CONSTANTS
  Workers = {w1, w2}
  Window = 3
  Limit = 1
  Second = 2
  MaxDelay = 2
  Horizon = 8
  Tries = 3
SYMMETRY Symmetry
INVARIANTS TypeOK WindowBounded SlidingBounded RetryLandsLater
CHECK_DEADLOCK FALSE
