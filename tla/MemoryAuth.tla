----------------------------- MODULE MemoryAuth -----------------------------
(* The half of authService.js that keeps its state in Maps: OAuth sign-in,  *)
(* the break-glass recovery login, the TOTP step and the session lookup.    *)
(* No handler awaits, so each is one action.  Time is absolute and moves    *)
(* with Tick.  A user is known by the address it signs in with, since       *)
(* usersByEmail and usersById gain an entry in the same call.               *)
EXTENDS Naturals, Sequences
CONSTANTS
  None,
  Providers,            \* the OAuth providers startOAuth supports
  Codes,                \* the accounts a provider vouches for
  RecoveryEmails,       \* the addresses tried at the recovery login
  RecoveryUser,         \* the user behind the one address that exists,
  RecoveryEmail,        \* this one
  Ips,
  Threshold, LockoutMs, \* config.security of authConfig.js
  MaxPerIp, MaxPerAccount, WindowMs,
  StateTtl, PreMfaTtl, AuthTtl,
  MaxStates, MaxSessions, MaxTime     \* bounds of the instance

ASSUME MemoryAuthAssumption ==
  /\ {Threshold, LockoutMs, MaxPerIp, MaxPerAccount, WindowMs} \subseteq Nat \ {0}
  /\ {StateTtl, PreMfaTtl, AuthTtl, MaxStates, MaxSessions} \subseteq Nat
  /\ MaxTime \in Nat \ {0}
  /\ RecoveryEmail \in RecoveryEmails
  /\ None \notin Nat
  /\ None \notin [fails : Nat, lockedUntil : Nat] \cup [count : Nat, expiresAt : Nat]

VARIABLES
  now,
  oauthStates, sessions,      \* the Maps, by the serial number of the random id
  usersById,                  \* the users that have a TOTP secret
  lockouts, rateLimits,
  issued,                     \* how many random ids were drawn
  guesses, admissions         \* history: wrong attempts since the last success,
                              \* calls the limiter let pass
memVars == <<now, oauthStates, sessions, usersById, lockouts, rateLimits,
             issued, guesses, admissions>>

Users == (Codes \X Providers) \cup {RecoveryUser}
StateIds == 1..MaxStates
SessionIds == 1..MaxSessions

(* loginRecovery locks the address, verifyMfa locks the user id.            *)
LockKeys == RecoveryEmails \cup Users
IpBuckets == {"oauth-ip", "recovery-ip"} \X Ips
Buckets == IpBuckets \cup ({"recovery-account"} \X RecoveryEmails)
MaxOf(b) == IF b \in IpBuckets THEN MaxPerIp ELSE MaxPerAccount

(* The Maps of a process that has just started; the ids are random, so none *)
(* is drawn twice, not even after a restart.                                *)
EmptyMaps ==
  [oauthStates |-> [i \in StateIds |-> None],
   sessions    |-> [i \in SessionIds |-> None],
   lockouts    |-> [k \in LockKeys |-> None],
   rateLimits  |-> [b \in Buckets |-> None],
   guesses     |-> [k \in LockKeys |-> <<>>],
   admissions  |-> [b \in Buckets |-> <<>>]]

MemoryInit ==
  /\ now = 1 /\ usersById = {} /\ issued = [states |-> 0, sessions |-> 0]
  /\ oauthStates = EmptyMaps.oauthStates /\ sessions = EmptyMaps.sessions
  /\ lockouts = EmptyMaps.lockouts /\ rateLimits = EmptyMaps.rateLimits
  /\ guesses = EmptyMaps.guesses /\ admissions = EmptyMaps.admissions

Restart ==
  /\ usersById' = {} /\ UNCHANGED <<now, issued>>
  /\ oauthStates' = EmptyMaps.oauthStates /\ sessions' = EmptyMaps.sessions
  /\ lockouts' = EmptyMaps.lockouts /\ rateLimits' = EmptyMaps.rateLimits
  /\ guesses' = EmptyMaps.guesses /\ admissions' = EmptyMaps.admissions

Tick == now < MaxTime /\ now' = now + 1
        /\ UNCHANGED <<oauthStates, sessions, usersById, lockouts, rateLimits,
                       issued, guesses, admissions>>

-----------------------------------------------------------------------------
(* hitRateLimit: the call that opens a window is its first and is let pass  *)
(* whatever the maximum; the count goes on past the maximum.                *)
WindowOpen(b) == rateLimits[b] # None /\ rateLimits[b].expiresAt > now
Counted(b) ==
  IF WindowOpen(b) THEN [rateLimits[b] EXCEPT !.count = @ + 1]
  ELSE [count |-> 1, expiresAt |-> now + WindowMs]

\* mutant: the comparison is made before the call is counted
LimitedLate(b) == WindowOpen(b) /\ rateLimits[b].count > MaxOf(b)
Limited(b) == WindowOpen(b) /\ rateLimits[b].count + 1 > MaxOf(b)

(* The buckets in hit are counted, those in passed let the call through.    *)
Throttle(hit, passed) ==
  /\ rateLimits' = [b \in Buckets |-> IF b \in hit THEN Counted(b) ELSE rateLimits[b]]
  /\ admissions' = [b \in Buckets |->
       IF b \in passed THEN Append(admissions[b], now) ELSE admissions[b]]

(* checkLockout deletes a lock that is over; failAuthAttempt starts from    *)
(* what it left and sets the count back when it locks.                      *)
Locked(k) == lockouts[k] # None /\ lockouts[k].lockedUntil > now
Fails(k) == IF lockouts[k] = None \/ lockouts[k].lockedUntil > 0 THEN 0
            ELSE lockouts[k].fails

\* mutant: one attempt too many before the lock
FailAuthAttemptLate(k) ==
  /\ lockouts' = [lockouts EXCEPT ![k] =
       IF Fails(k) + 1 > Threshold
       THEN [fails |-> 0, lockedUntil |-> now + LockoutMs]
       ELSE [fails |-> Fails(k) + 1, lockedUntil |-> 0]]
  /\ guesses' = [guesses EXCEPT ![k] = Append(@, now)]
FailAuthAttempt(k) ==
  /\ lockouts' = [lockouts EXCEPT ![k] =
       IF Fails(k) + 1 >= Threshold
       THEN [fails |-> 0, lockedUntil |-> now + LockoutMs]
       ELSE [fails |-> Fails(k) + 1, lockedUntil |-> 0]]
  /\ guesses' = [guesses EXCEPT ![k] = Append(@, now)]
ClearAuthFailures(k) ==
  /\ lockouts' = [lockouts EXCEPT ![k] = None]
  /\ guesses' = [guesses EXCEPT ![k] = <<>>]

OpenSession(u) ==
  /\ issued.sessions < MaxSessions
  /\ issued' = [issued EXCEPT !.sessions = @ + 1]
  /\ sessions' = [sessions EXCEPT ![issued.sessions + 1] =
       [user |-> u, state |-> "pre_mfa", expiresAt |-> now + PreMfaTtl]]

-----------------------------------------------------------------------------
\* mutant: the second state takes the id of the first
StartOAuthSameId(p) ==
  /\ issued.states < MaxStates /\ UNCHANGED issued
  /\ oauthStates' = [oauthStates EXCEPT ![issued.states + 1] =
       [provider |-> p, expiresAt |-> now + StateTtl]]
  /\ UNCHANGED <<now, sessions, usersById, lockouts, rateLimits, guesses, admissions>>
StartOAuth(p) ==
  /\ issued.states < MaxStates
  /\ issued' = [issued EXCEPT !.states = @ + 1]
  /\ oauthStates' = [oauthStates EXCEPT ![issued.states + 1] =
       [provider |-> p, expiresAt |-> now + StateTtl]]
  /\ UNCHANGED <<now, sessions, usersById, lockouts, rateLimits, guesses, admissions>>

(* A state that is unknown, over, or another provider's is refused before   *)
(* the limiter sees the call, and changes nothing.                          *)
ValidState(st, p) ==
  /\ oauthStates[st] # None /\ oauthStates[st].provider = p
  /\ oauthStates[st].expiresAt > now

CallbackThrottled(st, p, ip) ==
  /\ ValidState(st, p) /\ Limited(<<"oauth-ip", ip>>)
  /\ Throttle({<<"oauth-ip", ip>>}, {})
  /\ UNCHANGED <<now, oauthStates, sessions, usersById, lockouts, issued, guesses>>

CallbackAccepted(st, p, code, ip) ==
  /\ ValidState(st, p) /\ ~Limited(<<"oauth-ip", ip>>)
  /\ Throttle({<<"oauth-ip", ip>>}, {<<"oauth-ip", ip>>})
  /\ oauthStates' = [oauthStates EXCEPT ![st] = None]
  /\ usersById' = usersById \cup {<<code, p>>}
  /\ OpenSession(<<code, p>>)
  /\ UNCHANGED <<now, lockouts, guesses>>

-----------------------------------------------------------------------------
IpBucket(ip) == <<"recovery-ip", ip>>
AccountBucket(email) == <<"recovery-account", email>>
RecoveryAdmitted(email, ip) == ~Limited(IpBucket(ip)) /\ ~Limited(AccountBucket(email))
CountRecovery(email, ip) ==
  Throttle({IpBucket(ip), AccountBucket(email)}, {IpBucket(ip), AccountBucket(email)})

(* The address is limited first: a call it refuses is not counted against   *)
(* the account.                                                             *)
RecoveryThrottled(email, ip) ==
  /\ \/ Limited(IpBucket(ip)) /\ Throttle({IpBucket(ip)}, {})
     \/ /\ ~Limited(IpBucket(ip)) /\ Limited(AccountBucket(email))
        /\ Throttle({IpBucket(ip), AccountBucket(email)}, {IpBucket(ip)})
  /\ UNCHANGED <<now, oauthStates, sessions, usersById, lockouts, issued, guesses>>

RecoveryLocked(email, ip) ==
  /\ RecoveryAdmitted(email, ip) /\ Locked(email)
  /\ CountRecovery(email, ip)
  /\ UNCHANGED <<now, oauthStates, sessions, usersById, lockouts, issued, guesses>>

RecoveryWrong(email, ip) ==
  /\ RecoveryAdmitted(email, ip) /\ ~Locked(email)
  /\ CountRecovery(email, ip)
  /\ FailAuthAttempt(email)
  /\ UNCHANGED <<now, oauthStates, sessions, usersById, issued>>

\* mutant: no upsertUserByEmail
RecoveryRightNoUpsert(ip) ==
  /\ RecoveryAdmitted(RecoveryEmail, ip) /\ ~Locked(RecoveryEmail)
  /\ CountRecovery(RecoveryEmail, ip)
  /\ ClearAuthFailures(RecoveryEmail)
  /\ OpenSession(RecoveryUser)
  /\ UNCHANGED <<now, oauthStates, usersById>>
RecoveryRight(ip) ==
  /\ RecoveryAdmitted(RecoveryEmail, ip) /\ ~Locked(RecoveryEmail)
  /\ CountRecovery(RecoveryEmail, ip)
  /\ usersById' = usersById \cup {RecoveryUser}
  /\ ClearAuthFailures(RecoveryEmail)
  /\ OpenSession(RecoveryUser)
  /\ UNCHANGED <<now, oauthStates>>

-----------------------------------------------------------------------------
(* verifyMfa reads the Map itself: it does not look at expiresAt, which     *)
(* only getSession does.  A locked user, and one without a secret, is       *)
(* refused and nothing changes.                                             *)
MayTryCode(s) ==
  /\ sessions[s] # None /\ ~Locked(sessions[s].user)
  /\ sessions[s].user \in usersById

VerifyMfaWrong(s) ==
  /\ MayTryCode(s)
  /\ FailAuthAttempt(sessions[s].user)
  /\ UNCHANGED <<now, oauthStates, sessions, usersById, rateLimits, issued, admissions>>

VerifyMfaRight(s) ==
  /\ MayTryCode(s)
  /\ ClearAuthFailures(sessions[s].user)
  /\ sessions' = [sessions EXCEPT ![s].state = "authenticated",
                                  ![s].expiresAt = now + AuthTtl]
  /\ UNCHANGED <<now, oauthStates, usersById, rateLimits, issued, admissions>>

(* getSession, and ensureAuthenticated through it, drop a session they find *)
(* over; otherwise they only read.                                          *)
GetExpired(s) ==
  /\ sessions[s] # None /\ sessions[s].expiresAt <= now
  /\ sessions' = [sessions EXCEPT ![s] = None]
  /\ UNCHANGED <<now, oauthStates, usersById, lockouts, rateLimits, issued,
                 guesses, admissions>>

-----------------------------------------------------------------------------
(* The next two hold in one life of the process: a restart forgets both.    *)
(* Of any Threshold + 1 wrong attempts in a row against one key the last    *)
(* comes at least LockoutMs after the first, however the recovery login and *)
(* the TOTP step of several sessions share the key (failAuthAttempt).       *)
GuessesSpaced ==
  \A k \in LockKeys : \A i \in 1..Len(guesses[k]) :
    i + Threshold <= Len(guesses[k])
    => guesses[k][i + Threshold] >= guesses[k][i] + LockoutMs

(* The limiter counts in fixed windows, so two windows may meet: of any     *)
(* 2 * max calls in a row that a bucket lets pass the last comes at least   *)
(* WindowMs after the first (hitRateLimit).  Twice the maximum less one may *)
(* come at once, around the end of a window.                                *)
AdmissionsSpaced ==
  \A b \in Buckets : \A i \in 1..Len(admissions[b]) :
    i + 2 * MaxOf(b) - 1 <= Len(admissions[b])
    => admissions[b][i + 2 * MaxOf(b) - 1] >= admissions[b][i] + WindowMs

(* Every session belongs to a user that has a secret, so mfa_not_configured *)
(* is never answered, restarts included (usersById against sessions).       *)
SessionUsersKnown ==
  \A s \in SessionIds : sessions[s] # None => sessions[s].user \in usersById
=============================================================================
