CONSTANTS
  Procs = {b1, b2}
  OtherPid = other
  PIPE_MAX_PAYLOAD = 4
  MAX_PENDING_CHUNKS = 2
  PipeSize = 8
  Lengths = {1}
  MaxSent = 3
SPECIFICATION Spec
INVARIANT NothingLost
CHECK_DEADLOCK FALSE
