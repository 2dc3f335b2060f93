CONSTANTS
  Procs = {b1, b2, b3}
  OtherPid = other
  PIPE_MAX_PAYLOAD = 2
  MAX_PENDING_CHUNKS = 2
  PipeSize = 8
  Lengths = {2, 3}
  MaxSent = 3
SPECIFICATION Spec
INVARIANTS StreamKept LinesAreMessages
PROPERTY Delivered
CHECK_DEADLOCK FALSE
