------------------------------ MODULE AuthTables ------------------------------
(***************************************************************************)
(* The PostgreSQL tables behind the auth gateway (user_auth_profiles,      *)
(* auth_tokens, auth_sessions, known_devices, recovery_codes) and the      *)
(* queries the repositories run on them.  One query is one atomic step:    *)
(* the handlers of the other modules interleave between their awaits.      *)
(*                                                                         *)
(* Time is abstracted to its effect on a row: a token, a session or a lock *)
(* "lapses" at an arbitrary moment after it is written, which covers every *)
(* TTL the code configures.                                                *)
(***************************************************************************)
EXTENDS Integers, FiniteSets

CONSTANTS
  Users,             \* e-mail addresses; primary_email is UNIQUE, so also user ids
  Passwords,         \* passwords that satisfy validatePasswordPolicy
  Devices,           \* (source IP, user agent) fingerprints
  None,              \* SQL NULL, and a row that is absent
  Enrolled,          \* users whose account is complete at the start
  SignedIn,          \* enrolled users with an authenticated session at the start
  FirstPassword,     \* the password of the enrolled users
  MaxRequests,       \* bound: HTTP requests served in a behaviour
  MaxFaults,         \* bound: crashes and failed calls in a behaviour
  MaxLapses,         \* bound: deadlines that pass in a behaviour
  LockoutThreshold,  \* config.security.lockoutThreshold
  RateLimitMaxPerIp, \* config.security.rateLimitMaxPerIp
  CodesPerSetup,     \* recovery codes made by one setupMfa (8 in the code)
  Operations         \* the service operations clients call

ASSUME AuthAssumption ==
  /\ SignedIn \subseteq Enrolled /\ Enrolled \subseteq Users
  /\ FirstPassword \in Passwords
  /\ None \notin Users \cup Passwords \cup Devices \cup Nat
  /\ Users \cap Nat = {}
  /\ MaxRequests \in Nat /\ MaxFaults \in Nat /\ MaxLapses \in Nat
  /\ LockoutThreshold \in Nat \ {0}
  /\ RateLimitMaxPerIp \in Nat \ {0}
  /\ CodesPerSetup \in Nat \ {0}

(* Requests are numbered in the order in which they arrive.  A request     *)
(* creates at most one token, one session and one TOTP secret, which carry *)
(* its number; secret 0 and session u are those an enrolled user u starts  *)
(* with.                                                                   *)
Requests   == 1 .. MaxRequests
Secrets    == 0 .. MaxRequests
SessionIds == Requests \cup Users

VARIABLES
  users,     \* user_auth_profiles: [Users -> UserRow \cup {None}]
  tokens,    \* auth_tokens:        [Requests -> TokenRow \cup {None}]
  sessions,  \* auth_sessions:      [SessionIds -> SessionRow \cup {None}]
  devices,   \* known_devices: number of rows per user and fingerprint
  codes      \* recovery_codes: number of unconsumed rows per user

tables == <<users, tokens, sessions, devices, codes>>

UserRow ==
  [ account_status  : {"pending_verification", "active"},
    email_verified  : BOOLEAN,
    password        : Passwords \cup {None},
    mfa_secret      : Secrets \cup {None},
    failed_attempts : Nat,
    lock            : {"none", "locked", "lapsed"} ]  \* locked_until: NULL, future, past

TokenTypes == {"email_verification", "password_setup", "password_reset"}

TokenRow ==
  [ user : Users, type : TokenTypes,
    delivered : BOOLEAN,      \* the token_value has reached the client
    consumed : BOOLEAN,       \* consumed_at IS NOT NULL
    lapsed : BOOLEAN ]        \* expires_at <= NOW()

SessionRow ==
  [ user : Users, state : {"pre_mfa", "mfa_setup", "authenticated"},
    device : Devices \cup {None},
    lapsed : BOOLEAN ]        \* expires_at or idle_timeout_at <= NOW()

(* NULL is not a row. *)
ASSUME RowAssumption == None \notin UserRow \cup TokenRow \cup SessionRow

TablesOK ==
  /\ users \in [Users -> UserRow \cup {None}]
  /\ tokens \in [Requests -> TokenRow \cup {None}]
  /\ sessions \in [SessionIds -> SessionRow \cup {None}]
  /\ devices \in [Users -> [Devices \cup {None} -> Nat]]
  /\ codes \in [Users -> Nat]

-----------------------------------------------------------------------------
(* userRepository.js *)

PendingRow ==
  [ account_status |-> "pending_verification", email_verified |-> FALSE,
    password |-> None, mfa_secret |-> None, failed_attempts |-> 0, lock |-> "none" ]

EnrolledRow ==
  [ account_status |-> "active", email_verified |-> TRUE,
    password |-> FirstPassword, mfa_secret |-> 0, failed_attempts |-> 0, lock |-> "none" ]

CreateUser(u)     == users' = [users EXCEPT ![u] = PendingRow]
MarkVerified(u)   == users' = [users EXCEPT ![u].email_verified = TRUE]
SetPassword(u, p) == users' = [users EXCEPT ![u].password = p,
                                            ![u].account_status = "active"]
UpdatePassword(u, p) == users' = [users EXCEPT ![u].password = p]
SetMfaSecret(u, m)   == users' = [users EXCEPT ![u].mfa_secret = m]
IncrementFailedAttempts(u) == users' = [users EXCEPT ![u].failed_attempts = @ + 1]
ResetFailedAttempts(u)     == users' = [users EXCEPT ![u].failed_attempts = 0,
                                                     ![u].lock = "none"]
LockAccount(u)             == users' = [users EXCEPT ![u].lock = "locked"]

(* tokenRepository.js *)

CreateToken(t, u, type, given) ==
  tokens' = [tokens EXCEPT ![t] = [ user |-> u, type |-> type, delivered |-> given,
                                    consumed |-> FALSE, lapsed |-> FALSE ]]

DeliverRenews(t) ==  \* mutant: the link counts its time from the e-mail on
  tokens' = IF tokens[t] = None THEN tokens
            ELSE [tokens EXCEPT ![t].delivered = TRUE, ![t].lapsed = FALSE]

(* sendVerificationEmail or sendPasswordResetEmail has been awaited.  The  *)
(* e-mail need not have been sent: without a Resend client `send` returns  *)
(* at once (createServer hands it config.resend, whose key is `apiKey`,    *)
(* where it reads `resendApiKey`), and an error in Resend's answer is not  *)
(* looked at.                                                              *)
DeliverToken(t) ==
  \/ UNCHANGED tokens
  \/ tokens[t] # None /\ tokens' = [tokens EXCEPT ![t].delivered = TRUE]

(* findValid and the type test every caller makes on the row it returns.   *)
(* A client can present only a token it was given.                         *)
TokenPresented(t) == tokens[t] # None /\ tokens[t].delivered
ValidTokenAnyType(t, type) ==  \* mutant: the caller forgets the type test
  tokens[t] # None /\ ~tokens[t].consumed /\ ~tokens[t].lapsed
ValidToken(t, type) ==
  tokens[t] # None /\ ~tokens[t].consumed /\ ~tokens[t].lapsed /\ tokens[t].type = type

(* An unconditional UPDATE: it does not look at consumed_at, and changes   *)
(* nothing when the cleanup job has deleted the row.                       *)
Consume(t) ==
  tokens' = IF tokens[t] = None THEN tokens ELSE [tokens EXCEPT ![t].consumed = TRUE]

(* sessionRepository.js *)

CreateSession(s, u, state, device) ==
  sessions' = [sessions EXCEPT ![s] =
                 [user |-> u, state |-> state, device |-> device, lapsed |-> FALSE]]

ValidSession(s, state) ==
  sessions[s] # None /\ ~sessions[s].lapsed /\ sessions[s].state = state

UpsertState(s, state) ==  \* mutant: the row is written even when it is gone
  sessions' = [sessions EXCEPT ![s] =
    [user |-> CHOOSE u \in Users : TRUE, state |-> state, device |-> None, lapsed |-> FALSE]]
UpdateState(s, state) ==
  sessions' = IF sessions[s] = None THEN sessions ELSE [sessions EXCEPT ![s].state = state]

DeleteSessions(S) ==
  sessions' = [s \in SessionIds |-> IF s \in S THEN None ELSE sessions[s]]

OwnedBy(u) == {s \in SessionIds : sessions[s] # None /\ sessions[s].user = u}

(* The SELECT, INSERT of checkAndRecordDevice and the INSERT of storeHashes *)
KnownDevice(u, d)  == devices[u][d] > 0
InsertDevice(u, d) == devices' = [devices EXCEPT ![u][d] = @ + 1]
InsertCode(u)      == codes' = [codes EXCEPT ![u] = @ + 1]

-----------------------------------------------------------------------------
TablesInit ==
  /\ users = [u \in Users |-> IF u \in Enrolled THEN EnrolledRow ELSE None]
  /\ tokens = [t \in Requests |-> None]
  /\ sessions = [s \in SessionIds |->
                   IF s \in SignedIn
                   THEN [user |-> s, state |-> "authenticated", device |-> None, lapsed |-> FALSE]
                   ELSE None]
  /\ devices = [u \in Users |->
                  [d \in Devices \cup {None} |-> IF u \in SignedIn /\ d = None THEN 1 ELSE 0]]
  /\ codes = [u \in Users |-> IF u \in Enrolled THEN CodesPerSetup ELSE 0]

(* The clock passes a deadline stored in a row. *)
TokenLapses(t) ==
  /\ tokens[t] # None /\ ~tokens[t].lapsed
  /\ tokens' = [tokens EXCEPT ![t].lapsed = TRUE]
  /\ UNCHANGED <<users, sessions, devices, codes>>

SessionLapses(s) ==
  /\ sessions[s] # None /\ ~sessions[s].lapsed
  /\ sessions' = [sessions EXCEPT ![s].lapsed = TRUE]
  /\ UNCHANGED <<users, tokens, devices, codes>>

LockLapses(u) ==
  /\ users[u] # None /\ users[u].lock = "locked"
  /\ users' = [users EXCEPT ![u].lock = "lapsed"]
  /\ UNCHANGED <<tokens, sessions, devices, codes>>

(* The two DELETEs of the cleanup job in server.js. *)
ExpiredSessions == {s \in SessionIds : sessions[s] # None /\ sessions[s].lapsed}
UnusedExpiredTokens ==  \* mutant: a consumed token is kept for ever
  {t \in Requests : tokens[t] # None /\ tokens[t].lapsed /\ ~tokens[t].consumed}
ExpiredTokens   == {t \in Requests : tokens[t] # None /\ tokens[t].lapsed}

DeleteExpiredSessions ==
  /\ DeleteSessions(ExpiredSessions)
  /\ UNCHANGED <<users, tokens, devices, codes>>

DeleteExpiredTokens ==
  /\ tokens' = [t \in Requests |-> IF t \in ExpiredTokens THEN None ELSE tokens[t]]
  /\ UNCHANGED <<users, sessions, devices, codes>>
=============================================================================
