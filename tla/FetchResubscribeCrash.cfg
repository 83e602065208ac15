SPECIFICATION Spec
CONSTANTS
  blog = blog
  hn = hn
  a1 = a1
  a2 = a2
  p1 = p1
  p2 = p2
  None = None
  Source = {blog}
  Article = {a1, a2}
  Linked = {a1, a2}
  Policy = {p1}
  Feed <- BothFeeds
  Retirable = {}
  Limit = 1
  Events = {"crash", "configure"}
INVARIANTS SuppressionExplained
