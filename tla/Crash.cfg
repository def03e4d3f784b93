CONSTANTS
  a = a
  b = b
  Keys <- MCKeys
  Hash <- MCHash
  Requests <- PlainRequests
  Options <- Resharded
  SegmentSize = 1
  SnapshotThreshold = 1
  MaxSequence = 2
  MaxBatch = 1
  MaxTime = 0
  Faults = {"crash"}
SPECIFICATION Spec
INVARIANTS
  CrashRecoverable
  ReadsAreCurrent
