CONSTANTS
  Calls = {c1, c2, c3}
  NoCall = NoCall
  QueueCapacity = 1
  MayFail = TRUE
SPECIFICATION FairSpec
INVARIANTS
  NothingBehindClose
  QuietWhenUnlocked
  SyncCoversEarlierWrites
  CloseCoversAcknowledged
  ClosesAgree
PROPERTIES
  EveryCallReturns
CHECK_DEADLOCK FALSE
