SPECIFICATION Spec
CONSTANTS
  Key = {k1, k2}
  MaxBuilds = 4
  MaxFaults = 1
INVARIANTS
  RestoredWhole
CHECK_DEADLOCK FALSE
