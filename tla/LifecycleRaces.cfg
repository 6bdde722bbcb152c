CONSTANTS
  Workspaces = {w1}
  Images = {i1, i2}
  Requests = {h1, h2}
  Recoveries = {c1}
  Nobody = Nobody
  NoWorkspace = NoWorkspace
  NoImage = NoImage
  Torn = Torn
  Upsets = {"fault", "timeout", "withdrawn", "moved", "drop", "crash", "revoke", "restart"}
  MaxUpsets = 2
SPECIFICATION RacesSpec
INVARIANTS TypeOK IntentMatchesState TransitionsOwned RequestsLeaveNothing RequestsTellTruth
PROPERTIES RecoveryTellsTruth
SYMMETRY Symmetry
CHECK_DEADLOCK FALSE
