SPECIFICATION Spec
CHECK_DEADLOCK FALSE
CONSTANTS
  None = None
  Users = {alice, bob}
  Passwords = {p1, p2}
  Devices = {d1}
  Enrolled = {alice, bob}
  SignedIn = {alice, bob}
  FirstPassword = p1
  MaxRequests = 3
  MaxFaults = 1
  MaxLapses = 1
  LockoutThreshold = 2
  RateLimitMaxPerIp = 3
  CodesPerSetup = 1
  Operations = {"forgotPassword", "resetPassword", "changePassword", "logout", "revokeSession"}
PROPERTIES
  PasswordWritesAuthorised
  OnlyOwnerEndsSessions
