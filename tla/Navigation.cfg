CONSTANTS
  p = p
  m = m
  c = c
  None = None
  Projects = {p}
  Makers = {m}
  Threads = {}
  Conversations = {c}
  PublicViews = {"about"}
  AdminPages = {}
  Roles = {"none", "maker", "admin"}
  Hits <- MCHits
  MaxHistory = 3
SPECIFICATION Spec
INVARIANT
  DialogHasAddress
PROPERTIES
  ScreenFollowsAddress
  HistoryKept
