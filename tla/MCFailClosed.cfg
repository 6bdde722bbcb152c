CONSTANTS
  Workspaces = {w1, w2}
  Checks = {c1}
  Admins = {a1}
  Projects = {1, 2}
  Limits = {1, 2}
  DefaultLimit = 1
  AtFirst <- NewOrEarlier
  MaxRequests = 2
  MaxUpsets = 1
  NoQuota = NoQuota
SPECIFICATION Spec
INVARIANTS TypeOK RunningIsContained LimitsSettle
PROPERTIES FailsClosed ShownStopped
CHECK_DEADLOCK FALSE
