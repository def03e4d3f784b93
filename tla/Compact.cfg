CONSTANTS
  a = a
  b = b
  Keys <- MCKeys
  Hash <- MCHash
  Requests <- PlainRequests
  Options <- OneShard
  SegmentSize = 3
  SnapshotThreshold = 2
  MaxSequence = 3
  MaxBatch = 1
  MaxTime = 0
  Faults = {"crash", "roll", "write"}
SPECIFICATION Spec
INVARIANTS
  InstalledSnapshotsTruthful
  CrashRecoverable
