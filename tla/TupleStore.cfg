CONSTANTS
  InitialCapacity = 1
  BufferSize = 4
  MaxMemory = 4
  StoreSize = 1
  PointerSize = 1
  TupleSize = 1
  MaxPuts = 9
  MaxFailures = 3
SPECIFICATION Spec
INVARIANTS ContentsKept BufferMirrorsFile
PROPERTY IsAQueue
CHECK_DEADLOCK FALSE
