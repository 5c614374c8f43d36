SPECIFICATION Spec
CHECK_DEADLOCK FALSE
CONSTANTS
  None = None
  Jobs = {j1, j2}
  Runners = {w1, w2}
  MaxAttempts = 2
  Series = {s1}
  Dates = {d1}
  Providers = 2
  MaxFaults = 3
PROPERTIES
  StartedJobsEnd
