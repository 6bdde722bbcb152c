CONSTANTS
  MaxKeys = 2
  MaxUpsets = 2
  MaxChanges = 2
  MaxEvents = 3
SPECIFICATION FairSpec
INVARIANTS TypeOK LiveKeysAreOwned NoUsableKeyIsRevoked
PROPERTIES ClearsSpareTheActiveKey TransientKeysEnd
CHECK_DEADLOCK FALSE
