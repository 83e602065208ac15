SPECIFICATION Spec
CONSTANTS
  Broken = {}
  Importing = 3
  Elsewhere = {}
  MaxVersion = 2
  MaxFaults = 0
  MaxRestarts = 0
INVARIANTS
  ServedIsSaved
CHECK_DEADLOCK FALSE
