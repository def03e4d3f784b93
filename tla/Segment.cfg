CONSTANTS
  MaxSequence = 5
  SegmentSize = 2
  Faults = {"fail", "crash", "power", "damage"}
SPECIFICATION Spec
INVARIANTS TypeOK AlwaysOpens GradedDamage
PROPERTIES
  SyncedSurvives
