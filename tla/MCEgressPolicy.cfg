CONSTANTS
  Bits = 3
  DefaultDeny <- MCDefaultDeny
  HostAddresses <- MCHostAddresses
  GroupAddresses <- MCGroupAddresses
  Ports = {1, 2}
  RelayPort = 2
  NoPort = NoPort
  MaxEntries = 2
  AnyService = AnyService
  Admins = {a1, a2}
  RuleChoices <- MCRuleChoices
  Protected <- MCProtected
  Unresolved = {}
  LocalProtected <- MCLocalProtected
  InitialRules <- MCInitialRules
  Starts = {0}
  MaxRevision = 2
  MaxUpsets = 1
  NoPolicy = NoPolicy
  NoTable = NoTable
SPECIFICATION Spec
INVARIANTS TypeOK AllowsStayCovered ConfirmedPolicyHolds BroadcastsConverge VerifiedTableKeepsPromise
SYMMETRY Symmetry
CHECK_DEADLOCK FALSE
