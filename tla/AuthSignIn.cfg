SPECIFICATION Spec
CHECK_DEADLOCK FALSE
CONSTANTS
  None = None
  Users = {alice}
  Passwords = {p1, p2}
  Devices = {d1}
  Enrolled = {alice}
  SignedIn = {}
  FirstPassword = p1
  MaxRequests = 4
  MaxFaults = 1
  MaxLapses = 1
  LockoutThreshold = 2
  RateLimitMaxPerIp = 3
  CodesPerSetup = 1
  Operations = {"login", "verifyMfaDb", "logout", "revokeAllOtherSessions"}
INVARIANTS
  LockoutEngages
  AuthenticatedDeviceKnown
PROPERTIES
  SessionsOnlyElevate
