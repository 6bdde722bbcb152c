CONSTANTS
  MaxKeys = 1
  MaxUpsets = 0
  MaxChanges = 1
  MaxEvents = 2
SPECIFICATION Spec
INVARIANT RevokedKeysAreGone
CHECK_DEADLOCK FALSE
