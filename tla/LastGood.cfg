SPECIFICATION Spec
CONSTANTS
  Machine = {ci, laptop}
  PushAttempts = 2
  MaxRuns = 3
  ci = ci
  laptop = laptop
SYMMETRY Symmetry
INVARIANT LastGoodHealthy
CHECK_DEADLOCK FALSE
