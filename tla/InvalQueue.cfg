CONSTANTS
  MaxBackends = 2
  MaxMessages = 2
  TxMax <- OneLargeClient
  MaxMsgNum = 4
  RelIds = {0}
  CacheIds = {1}
  Hashes = {1}
SPECIFICATION Spec
INVARIANTS UnreadFits UnreadKept StaleIsCovered
CHECK_DEADLOCK FALSE
