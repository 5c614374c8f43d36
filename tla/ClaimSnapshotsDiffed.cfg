SPECIFICATION Spec
CHECK_DEADLOCK FALSE
CONSTANTS
  None = None
  Jobs = {j1}
  Runners = {w1}
  MaxAttempts = 2
  Series = {s1}
  Dates = {d1}
  Providers = 1
  MaxFaults = 1
INVARIANTS
  SnapshotsDiffed
