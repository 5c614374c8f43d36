SPECIFICATION Spec
CHECK_DEADLOCK FALSE
CONSTANTS
  None = None
  Users = {alice}
  Passwords = {p1}
  Devices = {d1}
  Enrolled = {}
  SignedIn = {}
  FirstPassword = p1
  MaxRequests = 5
  MaxFaults = 1
  MaxLapses = 1
  LockoutThreshold = 2
  RateLimitMaxPerIp = 3
  CodesPerSetup = 2
  Operations = {"register", "verifyEmail", "setupPassword", "setupMfa", "verifyMfaSetup"}
INVARIANTS
  AuthInv
  ActiveIsVerified
  OneVerificationToken
  OnlyMailStrands
  AuthenticatedHasFactor
PROPERTIES
  ImplementsLifecycle
  ExpiredStaysExpired
  ExpiredRowsPurged
