SPECIFICATION Spec
CONSTANTS
  blog = blog
  hn = hn
  a1 = a1
  a2 = a2
  p1 = p1
  p2 = p2
  None = None
  Source = {blog, hn}
  Article = {a1}
  Linked = {a1}
  Policy = {p1}
  Feed <- BothFeeds
  Retirable = {}
  Limit = 2
  Events = {"delete"}
PROPERTIES DeletedNeverReturns
