SPECIFICATION Spec
CHECK_DEADLOCK FALSE
CONSTANTS
  None = None
  Users = {alice}
  Passwords = {p1}
  Devices = {d1}
  Enrolled = {}
  SignedIn = {}
  FirstPassword = p1
  MaxRequests = 3
  MaxFaults = 0
  MaxLapses = 1
  LockoutThreshold = 2
  RateLimitMaxPerIp = 3
  CodesPerSetup = 1
  Operations = {"register", "verifyEmail"}
INVARIANTS
  TokenSingleUse
