CONSTANTS
  MaxSequence = 3
  SegmentSize = 2
  Faults = {"damage"}
SPECIFICATION Spec
INVARIANTS InteriorDamageRefused
