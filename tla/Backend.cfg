SPECIFICATION MCSpec
CONSTANTS
  Process = {1, 2, 3}
  Nobody = 0
  MaxCrashes = 1
  Key = {k1, k2}
  MaxBuilds = 4
  MaxBuildFaults = 2
  Broken = {2}
  Importing = 3
  Elsewhere = {4}
  MaxVersion = 4
  MaxFaults = 1
  MaxRestarts = 1
  Get = {g1, g2}
  Url = {"a1", "a2", "b1"}
  Origin = {"a.example", "b.example"}
  Retries = 1
  MaxRedirects = 2
  Document = {"aggr.toml", "a1", "a2", "b1"}
  Root = "aggr.toml"
  Local = "local"
  MaxDepth = 2
  MaxDocuments = 3
  MaxEdges = 4
  MaxFailures = 1
  Inputs = 5
  Worker = {w1, w2, w3}
INVARIANTS
  TypesOK NamedHeld TreeKept RestoredWholeUnlessTorn OutputStays
  ServedIsSavedUnlessOvertaken HeadersStayHome Recovered ExpandsReachable
  SameAsSequential
PROPERTIES
  GetsEnd
\* Every part stops when its work, or its bounds, are done.
CHECK_DEADLOCK FALSE
