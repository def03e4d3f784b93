CONSTANTS
  Keys = {a, b, c}
  Nil = Nil
  Sizes = {1, 3}
  Capacity = 2
  TTLs = {1}
  MaxInt = 1
  MaxTime = 1
  QueueBound = 1
  SampleSize = 1
  RepeatDivisor = 4
SPECIFICATION FairSpec
INVARIANTS
  TypeOK
  ListIntact
  ChargeExact
  FreshWriteKept
PROPERTIES
  ImplementsRecencyOrder
  SweepReclaims
