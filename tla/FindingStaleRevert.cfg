CONSTANTS
  Workspaces = {w1}
  Images = {i1, i2}
  Requests = {h1, h2}
  Recoveries = {}
  Nobody = Nobody
  NoWorkspace = NoWorkspace
  NoImage = NoImage
  Torn = Torn
  Upsets = {"fault", "withdrawn"}
  MaxUpsets = 2
SPECIFICATION Spec
PROPERTIES RevertedImageIsInstalled
SYMMETRY Symmetry
CHECK_DEADLOCK FALSE
