CONSTANTS
  MaxSequence = 3
  SegmentSize = 2
  Faults = {"crash"}
SPECIFICATION Spec
INVARIANTS SyncForcesStable
