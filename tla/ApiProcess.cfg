SPECIFICATION Spec
CHECK_DEADLOCK FALSE
CONSTANTS
  None = None
  NoRow = NoRow
  Providers = {google}
  Codes = {alice}
  RecoveryEmails = {recovery}
  RecoveryUser = keeper
  RecoveryEmail = recovery
  Ips = {ip1}
  Threshold = 2
  LockoutMs = 2
  MaxPerIp = 1
  MaxPerAccount = 2
  WindowMs = 2
  StateTtl = 1
  PreMfaTtl = 1
  AuthTtl = 1
  MaxStates = 1
  MaxSessions = 2
  MaxTime = 4
  Holders = {u1}
  Credentials = {k1}
  Ceremonies = {v1, v2}
  MaxChallenges = 2
  MaxSigned = 2
  DatabaseSessions = {s1}
  Events = {e1}
  Traffics = {{"auth"}, {"passkey", "webhook"}}
  MaxCalls = 7
  MaxCrashes = 1
INVARIANTS
  TypeOK
  GuessesSpaced
  AdmissionsSpaced
  SessionUsersKnown
  AcceptedChallengeGone
  AcceptedOncePerLife
  MemoryCookieElevated
PROPERTIES
  CounterFallsOnlyByRace
