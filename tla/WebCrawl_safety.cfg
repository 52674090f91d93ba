SPECIFICATION Spec
CONSTANTS
  home = home
  list = list
  form = form
  away = away
  skip = skip
  None = None
  Urls <- MCUrls
  Start = home
  Origin <- MCOrigin
  Patterned <- MCPatterned
  Anchors <- MCAnchors
  Redirects <- MCRedirects
  Login = home
  AuthTypes = {"none", "form"}
  MaxDepth = 2
  PageLimits = {2, 4}
  Batch = 3
INVARIANTS
  ShortestDepth
  Exhaustive
  PagesPersisted
PROPERTY
  CrawlEnds
CHECK_DEADLOCK FALSE
