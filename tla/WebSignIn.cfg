SPECIFICATION Spec
CHECK_DEADLOCK FALSE
CONSTANTS
  None = None
  MaxSessions = 3
  MaxSetups = 1
  MaxInFlight = 2
  CodeLength = 2
  Digits = {"d"}
  Passwords = {weak, strong}
  Acceptable = {strong}
  Long = {strong}
  Targets = {"/settings"}
  Devices = {phone, tablet}
  MaxActs = 2
INVARIANTS
  TypeOK
  PendingWhileCalling
  RevokedGoneWhenQuiet
  TypingKeepsOthers
  RedirectsSettle

  
