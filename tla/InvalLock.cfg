CONSTANTS
  Procs = {p1, p2, p3}
  MaxSections = 4
  MaxStores = 2
SPECIFICATION Spec
INVARIANTS ExclusiveUnlessInterrupted TakenHasHolder
CHECK_DEADLOCK FALSE
