SPECIFICATION FairSpec
CONSTANTS
  MaxCount = 2
  MaxChanges = 1
  MaxWorkers = 2
  MaxKills = 0
INVARIANTS
  PreferenceReached
CHECK_DEADLOCK FALSE
