CONSTANTS
  Workspaces = {w1, w2}
  Workers = {k1, k2}
  Requests = {t1, t2}
  Capacities <- OneOrTwo
  NoWorker = NoWorker
  NoWorkspace = NoWorkspace
  NoRequest = NoRequest
SPECIFICATION Spec
INVARIANTS TypeOK NoOvercommit AssignmentsResolve
PROPERTIES PauseStopsPlacement StickyAssignment AtomicSpec
SYMMETRY Symmetry
