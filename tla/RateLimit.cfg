CONSTANTS
  Addresses = {a1, a2}
  Workers = {w1, w2}
  Limit = 2
  Window = 2
  MaxNow = 3
  MaxAttempts = 3
  MaxRestarts = 1
SPECIFICATION Spec
SYMMETRY Alike
INVARIANTS TypeOK SlidingBound RefusedOnlyAfterLimit
\* The clock ends, and with it the attempts.
CHECK_DEADLOCK FALSE
