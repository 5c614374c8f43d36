SPECIFICATION Spec
SYMMETRY Symmetry
CHECK_DEADLOCK FALSE
CONSTANTS
  None = None
  Jobs = {j1, j2, j3}
  Runners = {w1, w2}
  MaxAttempts = 2
  Series = {s1, s2}
  Dates = {d1, d2}
  Providers = 2
  MaxFaults = 2
INVARIANTS
  TypeOK
  OnePlace
  CompletionsCounted
  RetryNotStranded
  CompletedJobsStored
  BaselinesPrecede
  DeathHasCause
PROPERTIES
  ImplementsLedger
