CONSTANTS
  TotalSteps = 3
  ReadSteps = 2
  CommitSteps = 2
  MaxSignals = 3
SPECIFICATION Spec
INVARIANTS CancelIsNoticed CountersMatchRegions SignalledQueryStops
PROPERTIES ProtectedRegions HeldCancelIsServed
CHECK_DEADLOCK FALSE
