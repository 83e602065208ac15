SPECIFICATION MCSpec
CONSTANTS
  File = {a, b}
  Shared = {a}
  MaxVersion = 2
  MaxConfigs = 3
  MaxRestarts = 2
  Slots = 2
  MaxCount = 2
  MaxBuild = 2
  MaxRequests = 3
  MaxKills = 1
  MaxChanges = 2
  MaxWorkers = 2
  Page = {home, item}
  List = {home}
  MaxMoves = 2
  MaxEntries = 2
  Query = {typed, choosing}
  Partial = {choosing}
  MaxPlace = 2
  MaxIndex = 2
  MaxEvents = 3
  Recording = {talk, film}
  Video = {film}
  Quiet = quiet
  MaxVisits = 1
  MaxGestures = 3
  MaxFaults = 1
INVARIANTS
  TypesOK ActiveComplete OfflineTruthful
  PreferenceReachedAfterActivation ShownIsCurrentUnlessStayed
  SearchAnswered PlayerTruthful
PROPERTIES
  OfflineStays Settles NeverGoesBack CatchesUp PlaybackKept
\* Every part stops at its bounds.
CHECK_DEADLOCK FALSE
