CONSTANTS
  a = a
  b = b
  Keys <- MCKeys
  Hash <- MCHash
  Requests <- ExpiringRequests
  Options <- OneShard
  SegmentSize = 1
  SnapshotThreshold = 1
  MaxSequence = 2
  MaxBatch = 2
  MaxTime = 1
  Faults = {"write", "sync", "roll", "snapshot", "crash"}
SPECIFICATION Spec
INVARIANTS
  TypeOK
  CrashRecoverable
  SyncedIsStable
  ReadsAreCurrent
PROPERTIES
  ImplementsDurableMap
  LatchedStoreIsSilent
  PruneOnlyCovered
