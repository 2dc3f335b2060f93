CONSTANTS
  MaxOwners = 5
  MaxResources = 3
SPECIFICATION Spec
PROPERTY RollbackReleasesInner
CHECK_DEADLOCK FALSE
