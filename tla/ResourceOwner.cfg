CONSTANTS
  MaxOwners = 5
  MaxResources = 3
SPECIFICATION Spec
INVARIANTS TreeConsistent NothingOutlivesTransaction
PROPERTY EnclosingKeepTheirs
CHECK_DEADLOCK FALSE
