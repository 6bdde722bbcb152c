CONSTANTS
  Workspaces = {w1}
  Images = {i1, i2}
  Requests = {h1}
  Recoveries = {c1}
  Nobody = Nobody
  NoWorkspace = NoWorkspace
  NoImage = NoImage
  Torn = Torn
  Upsets = {"drop", "restart", "crash", "stall", "failclosed"}
  MaxUpsets = 1
SPECIFICATION LiveSpec
PROPERTIES RequestsEnd ReconciliationsEnd TransitionsEnd Reappears
CHECK_DEADLOCK FALSE
