CONSTANTS
  Workspaces = {w1}
  Images = {i1, i2}
  Requests = {h1}
  Recoveries = {}
  Nobody = Nobody
  NoWorkspace = NoWorkspace
  NoImage = NoImage
  Torn = Torn
  Upsets = {"fault"}
  MaxUpsets = 1
SPECIFICATION Spec
INVARIANTS InterruptedChangeCanBeRetried
SYMMETRY Symmetry
CHECK_DEADLOCK FALSE
