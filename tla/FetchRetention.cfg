SPECIFICATION Spec
CONSTANTS
  blog = blog
  hn = hn
  a1 = a1
  a2 = a2
  p1 = p1
  p2 = p2
  None = None
  Source = {blog, hn}
  Article = {a1, a2}
  Linked = {a1}
  Policy = {p1, p2}
  Feed <- OneShared
  Retirable = {a1, a2}
  Limit = 1
  Events = {"error", "delete", "configure"}
INVARIANTS FailedLeavesNoTrace SuppressionExplained
PROPERTIES NoChurn DeletedStaysDeleted ImplementsLedger
