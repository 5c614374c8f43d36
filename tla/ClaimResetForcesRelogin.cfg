SPECIFICATION Spec
CHECK_DEADLOCK FALSE
CONSTANTS
  None = None
  Users = {alice}
  Passwords = {p1, p2}
  Devices = {d1}
  Enrolled = {alice}
  SignedIn = {}
  FirstPassword = p1
  MaxRequests = 3
  MaxFaults = 0
  MaxLapses = 0
  LockoutThreshold = 2
  RateLimitMaxPerIp = 3
  CodesPerSetup = 1
  Operations = {"login", "forgotPassword", "resetPassword"}
PROPERTIES
  ResetForcesRelogin
