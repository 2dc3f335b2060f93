CONSTANTS
  MaxBackends = 2
  MaxMessages = 2
  ThresholdStep = 1
  ListMax = 2
  TxMax = 1
  MaxMsgNum = 2
  DbOf <- OneDatabase
  RelIds = {}
  CacheIds = {127}
  Hashes = {2}
SPECIFICATION FairSpec
INVARIANT StaleIsCovered
PROPERTY FlaggedCatchesUp
CHECK_DEADLOCK FALSE
