CONSTANTS
  w1 = w1
  w2 = w2
  c1 = c1
  c2 = c2
  n1 = n1
  n2 = n2
  Workspaces = {w1, w2}
  Networks = {n1, n2}
  Connections = {c1, c2}
  AtFirst <- Instance
  maxConcurrentPerWorkspace = 1
  MaxCommands = 6
  MaxUpsets = 1
  NoWorkspace = NoWorkspace
  NoNetwork = NoNetwork
SPECIFICATION Spec
INVARIANTS KeysStayHome
PROPERTIES RunningIsServed
CHECK_DEADLOCK FALSE
