------------------------------ MODULE AuthEffects ------------------------------
(***************************************************************************)
(* What the queries of the repositories and the awaits of the handlers do, *)
(* in the terms the proofs of AuthService_proofs are made in: each lemma   *)
(* expands one operator once, so that no later proof has to look into a    *)
(* row or into the record of a handler.                                    *)
(***************************************************************************)
EXTENDS AuthInvariant, TLAPS

UsersTable    == [Users -> UserRow \cup {None}]
TokensTable   == [Requests -> TokenRow \cup {None}]
SessionsTable == [SessionIds -> SessionRow \cup {None}]

(* Accounts only advance. *)
UsersAdvance ==
  \A u \in Users : users[u] # None =>
    /\ users'[u] # None
    /\ users[u].email_verified => users'[u].email_verified
    /\ users[u].account_status = "active" => users'[u].account_status = "active"
    /\ users[u].mfa_secret # None => users'[u].mfa_secret # None

(* The lockout columns of all users but those in S are left alone. *)
CountersKept(S) ==
  \A u \in Users : u \notin S =>
    /\ users'[u] # None => users[u] # None
    /\ users'[u] # None => /\ users'[u].failed_attempts = users[u].failed_attempts
                           /\ users'[u].lock = users[u].lock

(* All tokens but those in S are there only if they were, unchanged in     *)
(* what identifies them; all sessions but those in S, likewise.            *)
TokensKept(S) ==
  \A t \in Requests : t \notin S /\ tokens'[t] # None =>
    /\ tokens[t] # None
    /\ tokens'[t].user = tokens[t].user /\ tokens'[t].type = tokens[t].type

SessionsKept(S) ==
  \A s \in SessionIds : s \notin S /\ sessions'[s] # None =>
    /\ sessions[s] # None
    /\ sessions'[s].user = sessions[s].user /\ sessions'[s].state = sessions[s].state

-----------------------------------------------------------------------------
(* user_auth_profiles *)

(* A row is inserted. *)
LEMMA CreateUserEffect ==
  ASSUME users \in UsersTable, NEW u \in Users, users[u] = None, CreateUser(u)
  PROVE  /\ users' \in UsersTable
         /\ UsersAdvance /\ CountersKept({u})
         /\ users'[u] # None /\ users'[u].failed_attempts = 0
         /\ ActiveIsVerified => ActiveIsVerified'
<1>1. PendingRow \in UserRow
  BY DEF PendingRow, UserRow
<1>2. PendingRow # None
  BY <1>1, RowAssumption
<1>3. users' \in UsersTable /\ users'[u] = PendingRow
      /\ \A v \in Users : v # u => users'[v] = users[v]
  BY <1>1 DEF CreateUser, UsersTable
<1>4. UsersAdvance /\ CountersKept({u})
  BY <1>2, <1>3 DEF UsersAdvance, CountersKept
<1>5. users'[u].failed_attempts = 0 /\ users'[u].account_status # "active"
  BY <1>3 DEF PendingRow
<1>6. ActiveIsVerified => ActiveIsVerified'
  BY <1>3, <1>5 DEF ActiveIsVerified
<1> QED BY <1>2, <1>3, <1>4, <1>5, <1>6

(* email_verified is set. *)
LEMMA MarkVerifiedEffect ==
  ASSUME users \in UsersTable, NEW u \in Users, users[u] # None, MarkVerified(u)
  PROVE  /\ users' \in UsersTable
         /\ UsersAdvance /\ CountersKept({})
         /\ users'[u].email_verified
         /\ ActiveIsVerified => ActiveIsVerified'
<1>1. users[u] \in UserRow
  BY DEF UsersTable
<1>2. users'[u] = [users[u] EXCEPT !.email_verified = TRUE] /\ users'[u] \in UserRow
      /\ users' \in UsersTable /\ \A v \in Users : v # u => users'[v] = users[v]
  BY <1>1 DEF UserRow, MarkVerified, UsersTable
<1>3. users'[u] # None
  BY <1>2, RowAssumption
<1>4. /\ users'[u].email_verified
      /\ users'[u].account_status = users[u].account_status
      /\ users'[u].password = users[u].password
      /\ users'[u].mfa_secret = users[u].mfa_secret
      /\ users'[u].failed_attempts = users[u].failed_attempts
      /\ users'[u].lock = users[u].lock
  BY <1>1, <1>2 DEF UserRow
<1>5. UsersAdvance /\ CountersKept({})
  BY <1>2, <1>3, <1>4 DEF UsersAdvance, CountersKept
<1>6. ASSUME ActiveIsVerified, NEW v \in Users, users'[v] # None,
             users'[v].account_status = "active"
      PROVE  users'[v].email_verified /\ users'[v].password # None
  <2>1. CASE v = u  BY <1>4, <1>6, <2>1 DEF ActiveIsVerified
  <2>2. CASE v # u  BY <1>2, <1>6, <2>2 DEF ActiveIsVerified
  <2> QED BY <2>1, <2>2
<1>7. ActiveIsVerified => ActiveIsVerified'
  BY <1>6 DEF ActiveIsVerified
<1> QED BY <1>2, <1>4, <1>5, <1>7

(* password_hash and account_status are set, for a verified account. *)
LEMMA SetPasswordEffect ==
  ASSUME users \in UsersTable, NEW u \in Users, users[u] # None,
         users[u].email_verified, NEW p \in Passwords, SetPassword(u, p)
  PROVE  /\ users' \in UsersTable
         /\ UsersAdvance /\ CountersKept({})
         /\ users'[u].account_status = "active"
         /\ ActiveIsVerified => ActiveIsVerified'
<1>1. users[u] \in UserRow
  BY DEF UsersTable
<1>2. users'[u] = [users[u] EXCEPT !.password = p, !.account_status = "active"]
      /\ users'[u] \in UserRow /\ users' \in UsersTable
      /\ \A v \in Users : v # u => users'[v] = users[v]
  BY <1>1 DEF UserRow, SetPassword, UsersTable
<1>3. users'[u] # None /\ p # None
  BY <1>2, RowAssumption, AuthAssumption
<1>4. /\ users'[u].email_verified = users[u].email_verified
      /\ users'[u].account_status = "active"
      /\ users'[u].password = p
      /\ users'[u].mfa_secret = users[u].mfa_secret
      /\ users'[u].failed_attempts = users[u].failed_attempts
      /\ users'[u].lock = users[u].lock
  BY <1>1, <1>2 DEF UserRow
<1>5. UsersAdvance /\ CountersKept({})
  BY <1>2, <1>3, <1>4 DEF UsersAdvance, CountersKept
<1>6. ActiveIsVerified => ActiveIsVerified'
  BY <1>2, <1>3, <1>4 DEF ActiveIsVerified
<1> QED BY <1>2, <1>4, <1>5, <1>6
(* password_hash is replaced. *)
LEMMA UpdatePasswordEffect ==
  ASSUME users \in UsersTable, NEW u \in Users, users[u] # None,
         NEW p \in Passwords, UpdatePassword(u, p)
  PROVE  /\ users' \in UsersTable
         /\ UsersAdvance /\ CountersKept({})
         /\ ActiveIsVerified => ActiveIsVerified'
<1>1. users[u] \in UserRow
  BY DEF UsersTable
<1>2. users'[u] = [users[u] EXCEPT !.password = p]
      /\ users'[u] \in UserRow /\ users' \in UsersTable
      /\ \A v \in Users : v # u => users'[v] = users[v]
  BY <1>1, AuthAssumption DEF UserRow, UpdatePassword, UsersTable
<1>3. users'[u] # None /\ p # None
  BY <1>2, RowAssumption, AuthAssumption
<1>4. /\ users'[u].account_status = users[u].account_status
      /\ users'[u].email_verified = users[u].email_verified
      /\ users'[u].password = p
      /\ users'[u].mfa_secret = users[u].mfa_secret
      /\ users'[u].failed_attempts = users[u].failed_attempts
      /\ users'[u].lock = users[u].lock
  BY <1>1, <1>2 DEF UserRow
<1>5. UsersAdvance /\ CountersKept({})
  BY <1>2, <1>3, <1>4 DEF UsersAdvance, CountersKept
<1>6. ASSUME ActiveIsVerified, NEW v \in Users, users'[v] # None,
             users'[v].account_status = "active"
      PROVE  users'[v].email_verified /\ users'[v].password # None
  <2>1. CASE v = u  BY <1>3, <1>4, <1>6, <2>1 DEF ActiveIsVerified
  <2>2. CASE v # u  BY <1>2, <1>6, <2>2 DEF ActiveIsVerified
  <2> QED BY <2>1, <2>2
<1>7. ActiveIsVerified => ActiveIsVerified'
  BY <1>6 DEF ActiveIsVerified
<1> QED BY <1>2, <1>4, <1>5, <1>7

(* mfa_secret is set. *)
LEMMA SetMfaSecretEffect ==
  ASSUME users \in UsersTable, NEW u \in Users, users[u] # None,
         NEW m \in Secrets, SetMfaSecret(u, m)
  PROVE  /\ users' \in UsersTable
         /\ UsersAdvance /\ CountersKept({})
         /\ users'[u].mfa_secret # None
         /\ ActiveIsVerified => ActiveIsVerified'
<1>1. users[u] \in UserRow
  BY DEF UsersTable
<1>2. users'[u] = [users[u] EXCEPT !.mfa_secret = m]
      /\ users'[u] \in UserRow /\ users' \in UsersTable
      /\ \A v \in Users : v # u => users'[v] = users[v]
  BY <1>1, AuthAssumption DEF UserRow, SetMfaSecret, UsersTable, Secrets
<1>3. users'[u] # None /\ m # None
  BY <1>2, RowAssumption, AuthAssumption DEF Secrets
<1>4. /\ users'[u].account_status = users[u].account_status
      /\ users'[u].email_verified = users[u].email_verified
      /\ users'[u].password = users[u].password
      /\ users'[u].mfa_secret = m
      /\ users'[u].failed_attempts = users[u].failed_attempts
      /\ users'[u].lock = users[u].lock
  BY <1>1, <1>2 DEF UserRow
<1>5. UsersAdvance /\ CountersKept({})
  BY <1>2, <1>3, <1>4 DEF UsersAdvance, CountersKept
<1>6. ASSUME ActiveIsVerified, NEW v \in Users, users'[v] # None,
             users'[v].account_status = "active"
      PROVE  users'[v].email_verified /\ users'[v].password # None
  <2>1. CASE v = u  BY <1>3, <1>4, <1>6, <2>1 DEF ActiveIsVerified
  <2>2. CASE v # u  BY <1>2, <1>6, <2>2 DEF ActiveIsVerified
  <2> QED BY <2>1, <2>2
<1>7. ActiveIsVerified => ActiveIsVerified'
  BY <1>6 DEF ActiveIsVerified
<1> QED BY <1>2, <1>3, <1>4, <1>5, <1>7

(* A failed attempt is counted. *)
LEMMA IncrementFailedAttemptsEffect ==
  ASSUME users \in UsersTable, NEW u \in Users, users[u] # None,
         IncrementFailedAttempts(u)
  PROVE  /\ users' \in UsersTable
         /\ UsersAdvance /\ CountersKept({u})
         /\ ActiveIsVerified => ActiveIsVerified'
<1>1. users[u] \in UserRow
  BY DEF UsersTable
<1>2. users'[u] = [users[u] EXCEPT !.failed_attempts = @ + 1]
      /\ users'[u] \in UserRow /\ users' \in UsersTable
      /\ \A v \in Users : v # u => users'[v] = users[v]
  BY <1>1 DEF UserRow, IncrementFailedAttempts, UsersTable
<1>3. users'[u] # None
  BY <1>2, RowAssumption
<1>4. /\ users'[u].account_status = users[u].account_status
      /\ users'[u].email_verified = users[u].email_verified
      /\ users'[u].password = users[u].password
      /\ users'[u].mfa_secret = users[u].mfa_secret
      /\ users'[u].failed_attempts = users[u].failed_attempts + 1
      /\ users'[u].lock = users[u].lock
  BY <1>1, <1>2 DEF UserRow
<1>5. UsersAdvance /\ CountersKept({u})
  BY <1>2, <1>3, <1>4 DEF UsersAdvance, CountersKept
<1>6. ASSUME ActiveIsVerified, NEW v \in Users, users'[v] # None,
             users'[v].account_status = "active"
      PROVE  users'[v].email_verified /\ users'[v].password # None
  <2>1. CASE v = u  BY <1>3, <1>4, <1>6, <2>1 DEF ActiveIsVerified
  <2>2. CASE v # u  BY <1>2, <1>6, <2>2 DEF ActiveIsVerified
  <2> QED BY <2>1, <2>2
<1>7. ActiveIsVerified => ActiveIsVerified'
  BY <1>6 DEF ActiveIsVerified
<1> QED BY <1>2, <1>4, <1>5, <1>7

(* A successful one forgets the counter and the lock. *)
LEMMA ResetFailedAttemptsEffect ==
  ASSUME users \in UsersTable, NEW u \in Users, users[u] # None,
         ResetFailedAttempts(u)
  PROVE  /\ users' \in UsersTable
         /\ UsersAdvance /\ CountersKept({u})
         /\ users'[u].failed_attempts = 0
         /\ ActiveIsVerified => ActiveIsVerified'
<1>1. users[u] \in UserRow
  BY DEF UsersTable
<1>2. users'[u] = [users[u] EXCEPT !.failed_attempts = 0, !.lock = "none"]
      /\ users'[u] \in UserRow /\ users' \in UsersTable
      /\ \A v \in Users : v # u => users'[v] = users[v]
  BY <1>1 DEF UserRow, ResetFailedAttempts, UsersTable
<1>3. users'[u] # None
  BY <1>2, RowAssumption
<1>4. /\ users'[u].account_status = users[u].account_status
      /\ users'[u].email_verified = users[u].email_verified
      /\ users'[u].password = users[u].password
      /\ users'[u].mfa_secret = users[u].mfa_secret
      /\ users'[u].failed_attempts = 0
      /\ users'[u].lock = "none"
  BY <1>1, <1>2 DEF UserRow
<1>5. UsersAdvance /\ CountersKept({u})
  BY <1>2, <1>3, <1>4 DEF UsersAdvance, CountersKept
<1>6. ASSUME ActiveIsVerified, NEW v \in Users, users'[v] # None,
             users'[v].account_status = "active"
      PROVE  users'[v].email_verified /\ users'[v].password # None
  <2>1. CASE v = u  BY <1>3, <1>4, <1>6, <2>1 DEF ActiveIsVerified
  <2>2. CASE v # u  BY <1>2, <1>6, <2>2 DEF ActiveIsVerified
  <2> QED BY <2>1, <2>2
<1>7. ActiveIsVerified => ActiveIsVerified'
  BY <1>6 DEF ActiveIsVerified
<1> QED BY <1>2, <1>4, <1>5, <1>7

(* locked_until is set. *)
LEMMA LockAccountEffect ==
  ASSUME users \in UsersTable, NEW u \in Users, users[u] # None,
         LockAccount(u)
  PROVE  /\ users' \in UsersTable
         /\ UsersAdvance /\ CountersKept({u})
         /\ users'[u].lock # "none"
         /\ ActiveIsVerified => ActiveIsVerified'
<1>1. users[u] \in UserRow
  BY DEF UsersTable
<1>2. users'[u] = [users[u] EXCEPT !.lock = "locked"]
      /\ users'[u] \in UserRow /\ users' \in UsersTable
      /\ \A v \in Users : v # u => users'[v] = users[v]
  BY <1>1 DEF UserRow, LockAccount, UsersTable
<1>3. users'[u] # None
  BY <1>2, RowAssumption
<1>4. /\ users'[u].account_status = users[u].account_status
      /\ users'[u].email_verified = users[u].email_verified
      /\ users'[u].password = users[u].password
      /\ users'[u].mfa_secret = users[u].mfa_secret
      /\ users'[u].failed_attempts = users[u].failed_attempts
      /\ users'[u].lock = "locked"
  BY <1>1, <1>2 DEF UserRow
<1>5. UsersAdvance /\ CountersKept({u})
  BY <1>2, <1>3, <1>4 DEF UsersAdvance, CountersKept
<1>6. ASSUME ActiveIsVerified, NEW v \in Users, users'[v] # None,
             users'[v].account_status = "active"
      PROVE  users'[v].email_verified /\ users'[v].password # None
  <2>1. CASE v = u  BY <1>3, <1>4, <1>6, <2>1 DEF ActiveIsVerified
  <2>2. CASE v # u  BY <1>2, <1>6, <2>2 DEF ActiveIsVerified
  <2> QED BY <2>1, <2>2
<1>7. ActiveIsVerified => ActiveIsVerified'
  BY <1>6 DEF ActiveIsVerified
<1> QED BY <1>2, <1>4, <1>5, <1>7

(* locked_until passes. *)
LEMMA LockLapsesEffect ==
  ASSUME users \in UsersTable, NEW u \in Users, users[u] # None,
         LockLapses(u)
  PROVE  /\ users' \in UsersTable
         /\ UsersAdvance /\ CountersKept({u})
         /\ users'[u].lock # "none"
         /\ ActiveIsVerified => ActiveIsVerified'
<1>1. users[u] \in UserRow
  BY DEF UsersTable
<1>2. users'[u] = [users[u] EXCEPT !.lock = "lapsed"]
      /\ users'[u] \in UserRow /\ users' \in UsersTable
      /\ \A v \in Users : v # u => users'[v] = users[v]
  BY <1>1 DEF UserRow, LockLapses, UsersTable
<1>3. users'[u] # None
  BY <1>2, RowAssumption
<1>4. /\ users'[u].account_status = users[u].account_status
      /\ users'[u].email_verified = users[u].email_verified
      /\ users'[u].password = users[u].password
      /\ users'[u].mfa_secret = users[u].mfa_secret
      /\ users'[u].failed_attempts = users[u].failed_attempts
      /\ users'[u].lock = "lapsed"
  BY <1>1, <1>2 DEF UserRow
<1>5. UsersAdvance /\ CountersKept({u})
  BY <1>2, <1>3, <1>4 DEF UsersAdvance, CountersKept
<1>6. ASSUME ActiveIsVerified, NEW v \in Users, users'[v] # None,
             users'[v].account_status = "active"
      PROVE  users'[v].email_verified /\ users'[v].password # None
  <2>1. CASE v = u  BY <1>3, <1>4, <1>6, <2>1 DEF ActiveIsVerified
  <2>2. CASE v # u  BY <1>2, <1>6, <2>2 DEF ActiveIsVerified
  <2> QED BY <2>1, <2>2
<1>7. ActiveIsVerified => ActiveIsVerified'
  BY <1>6 DEF ActiveIsVerified
<1> QED BY <1>2, <1>4, <1>5, <1>7

-----------------------------------------------------------------------------
(* auth_tokens *)

(* A token is inserted. *)
LEMMA CreateTokenEffect ==
  ASSUME tokens \in TokensTable, NEW t \in Requests, NEW u \in Users,
         NEW type \in TokenTypes, NEW given \in BOOLEAN, CreateToken(t, u, type, given)
  PROVE  /\ tokens' \in TokensTable /\ TokensKept({t})
         /\ tokens'[t] # None /\ tokens'[t].user = u /\ tokens'[t].type = type
<1> DEFINE row == [user |-> u, type |-> type, delivered |-> given,
                   consumed |-> FALSE, lapsed |-> FALSE]
<1>1. row \in TokenRow
  BY DEF TokenRow
<1>2. row # None
  BY <1>1, RowAssumption
<1>3. row.user = u /\ row.type = type
  OBVIOUS
<1> HIDE DEF row
<1>4. tokens' = [tokens EXCEPT ![t] = row]
  BY DEF CreateToken, row
<1> QED BY <1>1, <1>2, <1>3, <1>4 DEF TokensTable, TokensKept

(* A column of a token that identifies nothing changes. *)
LEMMA TokenUpdateEffect ==
  ASSUME tokens \in TokensTable, NEW t \in Requests, tokens[t] # None,
         \/ tokens' = [tokens EXCEPT ![t].delivered = TRUE]
         \/ tokens' = [tokens EXCEPT ![t].consumed = TRUE]
         \/ tokens' = [tokens EXCEPT ![t].lapsed = TRUE]
  PROVE  tokens' \in TokensTable /\ TokensKept({})
<1>1. tokens[t] \in TokenRow
  BY DEF TokensTable
<1>2. /\ tokens'[t] \in TokenRow
      /\ tokens'[t].user = tokens[t].user /\ tokens'[t].type = tokens[t].type
  BY <1>1 DEF TokenRow, TokensTable
<1>3. DOMAIN tokens' = Requests /\ \A q \in Requests : q # t => tokens'[q] = tokens[q]
  BY DEF TokensTable
<1>4. tokens' = [q \in Requests |-> tokens'[q]]
  BY DEF TokensTable
<1>5. tokens' \in TokensTable
  BY <1>2, <1>3, <1>4 DEF TokensTable
<1> QED BY <1>2, <1>3, <1>5 DEF TokensKept

(* Tokens that do not change are kept. *)
LEMMA TokensUnchanged ==
  ASSUME tokens \in TokensTable, tokens' = tokens
  PROVE  tokens' \in TokensTable /\ TokensKept({})
BY DEF TokensKept

(* The e-mail is delivered: owner and type of every row stay.               *)
LEMMA DeliverTokenEffect ==
  ASSUME tokens \in TokensTable, NEW t \in Requests, DeliverToken(t)
  PROVE  tokens' \in TokensTable /\ TokensKept({})
BY TokenUpdateEffect, TokensUnchanged DEF DeliverToken

(* consume: only the mark of the token changes.                             *)
LEMMA ConsumeEffect ==
  ASSUME tokens \in TokensTable, NEW t \in Requests, Consume(t)
  PROVE  tokens' \in TokensTable /\ TokensKept({})
BY TokenUpdateEffect, TokensUnchanged DEF Consume

(* A deadline that passes: only that of one token.                          *)
LEMMA TokenLapsesEffect ==
  ASSUME tokens \in TokensTable, NEW t \in Requests, TokenLapses(t)
  PROVE  tokens' \in TokensTable /\ TokensKept({})
BY TokenUpdateEffect DEF TokenLapses

(* deleteExpired: rows go, none is changed.                                 *)
LEMMA DeleteExpiredTokensEffect ==
  ASSUME tokens \in TokensTable, DeleteExpiredTokens
  PROVE  tokens' \in TokensTable /\ TokensKept({})
BY DEF DeleteExpiredTokens, TokensTable, TokensKept

-----------------------------------------------------------------------------
(* auth_sessions *)

(* A session is inserted. *)
LEMMA CreateSessionEffect ==
  ASSUME sessions \in SessionsTable, NEW s \in SessionIds, NEW u \in Users,
         NEW state \in {"pre_mfa", "mfa_setup"}, NEW d \in Devices \cup {None},
         CreateSession(s, u, state, d)
  PROVE  /\ sessions' \in SessionsTable /\ SessionsKept({s})
         /\ sessions'[s] # None /\ sessions'[s].user = u /\ sessions'[s].state = state
<1> DEFINE row == [user |-> u, state |-> state, device |-> d, lapsed |-> FALSE]
<1>1. row \in SessionRow
  BY DEF SessionRow
<1>2. row # None
  BY <1>1, RowAssumption
<1>3. row.user = u /\ row.state = state
  OBVIOUS
<1> HIDE DEF row
<1>4. sessions' = [sessions EXCEPT ![s] = row]
  BY DEF CreateSession, row
<1> QED BY <1>1, <1>2, <1>3, <1>4 DEF SessionsTable, SessionsKept

(* Sessions that do not change are kept. *)
LEMMA SessionsUnchanged ==
  ASSUME sessions \in SessionsTable, sessions' = sessions
  PROVE  sessions' \in SessionsTable /\ SessionsKept({})
BY DEF SessionsKept

(* A session is elevated, if it is still there. *)
LEMMA UpdateStateEffect ==
  ASSUME sessions \in SessionsTable, NEW s \in SessionIds,
         UpdateState(s, "authenticated")
  PROVE  /\ sessions' \in SessionsTable /\ SessionsKept({s})
         /\ sessions'[s] # None =>
              sessions[s] # None /\ sessions'[s].user = sessions[s].user
<1>1. CASE sessions[s] = None
  BY <1>1 DEF UpdateState, SessionsKept
<1>2. CASE sessions[s] # None
  <2>1. sessions[s] \in SessionRow /\ sessions' = [sessions EXCEPT ![s].state = "authenticated"]
    BY <1>2 DEF SessionsTable, UpdateState
  <2>2. sessions'[s] \in SessionRow /\ sessions'[s].user = sessions[s].user
    BY <2>1 DEF SessionRow, SessionsTable
  <2>3. \A q \in SessionIds : q # s => sessions'[q] = sessions[q]
    BY <2>1 DEF SessionsTable
  <2>4. sessions' = [q \in SessionIds |-> sessions'[q]]
    BY <2>1 DEF SessionsTable
  <2>5. sessions' \in SessionsTable
    BY <2>2, <2>3, <2>4 DEF SessionsTable
  <2> QED BY <1>2, <2>2, <2>3, <2>5 DEF SessionsKept
<1> QED BY <1>1, <1>2

(* A deadline of a session passes. *)
LEMMA SessionLapsesEffect ==
  ASSUME sessions \in SessionsTable, NEW s \in SessionIds, SessionLapses(s)
  PROVE  sessions' \in SessionsTable /\ SessionsKept({})
<1>1. sessions[s] \in SessionRow /\ sessions' = [sessions EXCEPT ![s].lapsed = TRUE]
  BY DEF SessionsTable, SessionLapses
<1>2. /\ sessions'[s] \in SessionRow
      /\ sessions'[s].user = sessions[s].user /\ sessions'[s].state = sessions[s].state
  BY <1>1 DEF SessionRow, SessionsTable
<1>3. \A q \in SessionIds : q # s => sessions'[q] = sessions[q]
  BY <1>1 DEF SessionsTable
<1>4. sessions' = [q \in SessionIds |-> sessions'[q]]
  BY <1>1 DEF SessionsTable
<1>5. sessions' \in SessionsTable
  BY <1>2, <1>3, <1>4 DEF SessionsTable
<1> QED BY <1>2, <1>3, <1>5 DEF SessionLapses, SessionsKept

(* Sessions are deleted. *)
LEMMA DeleteSessionsEffect ==
  ASSUME sessions \in SessionsTable, NEW S, DeleteSessions(S)
  PROVE  sessions' \in SessionsTable /\ SessionsKept({})
BY DEF DeleteSessions, SessionsTable, SessionsKept

-----------------------------------------------------------------------------
(* known_devices, recovery_codes, and the counters of the limiter *)

(* One more device of a user. *)
LEMMA InsertDeviceEffect ==
  ASSUME devices \in [Users -> [Devices \cup {None} -> Nat]],
         NEW u \in Users, NEW d \in Devices \cup {None}, InsertDevice(u, d)
  PROVE  devices' \in [Users -> [Devices \cup {None} -> Nat]]
<1> DEFINE Keys == Devices \cup {None}
           Row  == [devices[u] EXCEPT ![d] = devices[u][d] + 1]
<1>1. devices' = [devices EXCEPT ![u] = Row]
  BY DEF InsertDevice
<1>2. d \in Keys /\ devices \in [Users -> [Keys -> Nat]]
  OBVIOUS
<1> HIDE DEF Keys
<1>3. Row \in [Keys -> Nat]
  BY <1>2
<1> HIDE DEF Row
<1>4. devices' \in [Users -> [Keys -> Nat]]
  BY <1>1, <1>2, <1>3
<1> QED BY <1>4 DEF Keys

(* One more code of a user. *)
LEMMA InsertCodeEffect ==
  ASSUME codes \in [Users -> Nat], NEW u \in Users, InsertCode(u)
  PROVE  codes' \in [Users -> Nat]
BY DEF InsertCode

(* One more call from a device. *)
LEMMA HitRateLimitEffect ==
  ASSUME ipHits \in [Devices -> Nat], NEW d \in Devices, HitRateLimit(d)
  PROVE  ipHits' \in [Devices -> Nat]
BY DEF HitRateLimit

-----------------------------------------------------------------------------
(* The handlers *)

(* Only request r moves. *)
Moves(r) ==
  /\ req' \in [Requests -> Handler]
  /\ \A q \in Requests : q # r => req'[q] = req[q]

(* A handler reaches its next await with its locals. *)
LEMMA GotoEffect ==
  ASSUME req \in [Requests -> Handler], NEW r \in Requests, NEW pc \in PCs, Goto(r, pc)
  PROVE  /\ Moves(r)
         /\ req'[r].pc = pc /\ req'[r].user = req[r].user /\ req'[r].ref = req[r].ref
         /\ req'[r].arg = req[r].arg /\ req'[r].aux = req[r].aux
BY DEF Goto, Handler, Moves

(* A handler returns. *)
LEMMA ReturnEffect ==
  ASSUME req \in [Requests -> Handler], NEW r \in Requests, Return(r)
  PROVE  Moves(r) /\ req'[r].pc = "done"
BY DEF Return, Handler, DoneHandler, NewHandler, PCs, Moves

(* A handler counts an iteration of its loop. *)
LEMMA CountEffect ==
  ASSUME req \in [Requests -> Handler], NEW r \in Requests, req[r].arg \in Nat,
         req' = [req EXCEPT ![r].arg = @ + 1]
  PROVE  /\ Moves(r)
         /\ req'[r].pc = req[r].pc /\ req'[r].user = req[r].user /\ req'[r].arg \in Nat
<1> DEFINE n == req[r].arg + 1
<1>1. n \in Nat /\ req' = [req EXCEPT ![r].arg = n]
  OBVIOUS
<1>2. n \in Passwords \cup Devices \cup Nat \cup Users \cup {None}
  BY <1>1
<1> HIDE DEF n
<1>3. req[r] \in Handler
  OBVIOUS
<1>4. /\ [req[r] EXCEPT !.arg = n] \in Handler
      /\ [req[r] EXCEPT !.arg = n].pc = req[r].pc
      /\ [req[r] EXCEPT !.arg = n].user = req[r].user
      /\ [req[r] EXCEPT !.arg = n].arg = n
  BY <1>2, <1>3 DEF Handler
<1> QED BY <1>1, <1>4 DEF Moves

(* A handler reaches its first await. *)
LEMMA SuspendEffect ==
  ASSUME req \in [Requests -> Handler], NEW r \in Requests, NEW pc \in PCs,
         NEW u \in Users, NEW ref \in Requests \cup Users \cup {None},
         NEW arg \in Passwords \cup Devices \cup Nat \cup Users \cup {None},
         NEW aux \in Passwords \cup Devices \cup {None},
         Suspend(r, pc, u, ref, arg, aux)
  PROVE  /\ Moves(r)
         /\ req'[r].pc = pc /\ req'[r].user = u /\ req'[r].ref = ref
         /\ req'[r].arg = arg /\ req'[r].aux = aux
BY DEF Suspend, Handler, Moves

(* A handler reads a row of a token or of a session with its types. *)
LEMMA TokenFields ==
  ASSUME tokens \in TokensTable, NEW t \in Requests, tokens[t] # None
  PROVE  tokens[t].user \in Users /\ tokens[t].type \in TokenTypes
BY DEF TokensTable, TokenRow

(* The columns of a session row.                                            *)
LEMMA SessionFields ==
  ASSUME sessions \in SessionsTable, NEW s \in SessionIds, sessions[s] # None
  PROVE  sessions[s].user \in Users /\ sessions[s].device \in Devices \cup {None}
BY DEF SessionsTable, SessionRow

(* The columns of a user row.                                               *)
LEMMA UserFields ==
  ASSUME users \in UsersTable, NEW u \in Users, users[u] # None
  PROVE  users[u].failed_attempts \in Nat
BY DEF UsersTable, UserRow

(* A handler has locals of these types. *)
LEMMA HandlerFields ==
  ASSUME req \in [Requests -> Handler], NEW r \in Requests
  PROVE  /\ req[r].pc \in PCs /\ req[r].user \in Users \cup {None}
         /\ req[r].aux \in Passwords \cup Devices \cup {None}
BY DEF Handler

=============================================================================
