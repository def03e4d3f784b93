CONSTANTS
  a = a
  b = b
  Keys <- MCKeys
  Hash <- MCHash
  Requests <- PlainRequests
  Options <- OneShard
  SegmentSize = 1
  SnapshotThreshold = 1
  MaxSequence = 2
  MaxBatch = 1
  MaxTime = 0
  Faults = {"power"}
SPECIFICATION Spec
INVARIANTS
  PowerLossHonest
CHECK_DEADLOCK FALSE
