CONSTANTS
  Loaders = {l1}
  Repls = {r1}
  Workers = {w1, w2}
  Nobody = Nobody
  MaxWrites = 3
  MaxLines = 2
  Faults = {"store", "output", "diagnostics", "input", "signal", "kill"}
SPECIFICATION FairSpec
INVARIANTS
  TypeOK
  OwnerOnly
  PrintedIsAcked
  EveryLineExecuted
PROPERTIES
  FailureReported
  SignalEnds
  FailureEnds
