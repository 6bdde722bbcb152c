CONSTANTS
  u1 = u1  u2 = u2  u3 = u3  u4 = u4
  s1 = s1  s2 = s2  s3 = s3
  i1 = i1  i2 = i2
  w1 = w1  w2 = w2
  r1 = r1  r2 = r2
  f1 = f1  f2 = f2
  Logins = {u1}
  Addresses = {a1, a2}
  Trusted = {}
  Policy <- ThrottlePolicy
  Users = {u1, u2, u3, u4}
  Sessions = {s1, s2, s3}
  Identities = {i1, i2}
  Requests = {r1, r2}
  Handles = {h1}
  InitialUsers <- UsersAtFirst
  InitialBound <- BoundAtFirst
  InitialLogins <- OpenAtFirst
  AutoProvision = TRUE
  SessionTtl = 3
  HandleTtl = 2
  Workloads <- ManyWorkloads
  NoUser = NoUser
  NoSession = NoSession
  Workspaces = {w1, w2}
  Owner <- OwnerOf
  RunningAtFirst = {w1}
  Connections = {c1, c2}
  Codes = {k1, k2}
  Posts = {p1, p2}
  Flushes = {f1, f2}
  Sweeps = {x1}
  CodeTtl = 1
  PersistInterval = 2
  IdleAfter = 3
  SampleGap = 2
  Bucket = 3
  UnitTicks = 4
  NoCode = NoCode
SPECIFICATION Spec
INVARIANTS
  TypeOK
  AccountsStayUsable
  GuessesAreBounded
  ConnectionsAreRightful
  CodesGrantOnce
  AccessIsRecorded
PROPERTIES
  IdleStopSparesUse
CHECK_DEADLOCK FALSE
SYMMETRY Symmetry
