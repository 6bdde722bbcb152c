CONSTANTS
  Workspaces = {w1}
  Images = {i1}
  Requests = {h1, h2}
  Recoveries = {c1}
  Nobody = Nobody
  NoWorkspace = NoWorkspace
  NoImage = NoImage
  Torn = Torn
  Upsets = {}
  MaxUpsets = 0
SPECIFICATION Spec
INVARIANTS DeletionIsClean
SYMMETRY Symmetry
CHECK_DEADLOCK FALSE
