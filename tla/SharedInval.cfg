CONSTANTS
  MaxBackends = 2
  MaxMessages = 4
  ThresholdStep = 2
  ListMax = 4
  TxMax = 1
  MaxMsgNum = 5
  DbOf <- OneDatabase
  RelIds = {1}
  CacheIds = {}
  Hashes = {}
SPECIFICATION Spec
INVARIANTS MinIsBehindReaders WindowBounds UnreadFits StaleIsCovered
CHECK_DEADLOCK FALSE
