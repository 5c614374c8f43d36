--------------------------- MODULE AuthService_proofs ---------------------------
(***************************************************************************)
(* AuthInv is an inductive invariant of the auth service, for any number   *)
(* of users, requests, faults and deadlines; the safety properties follow. *)
(* On it rest TokenInv and DeviceInv, the action properties, and the       *)
(* refinement: the service implements AccountLifecycle.                    *)
(***************************************************************************)
EXTENDS AuthEffects

(* What a step does to the tokens and sessions, whoever takes it: a token  *)
(* that is there was there, or is one a verified handler has just issued;  *)
(* a session was there, or has just been opened by a request that returns. *)
TokensFine ==
  \A t \in Requests : tokens'[t] # None =>
    \/ /\ tokens[t] # None
       /\ tokens'[t].user = tokens[t].user /\ tokens'[t].type = tokens[t].type
    \/ /\ users'[tokens'[t].user] # None
       /\ tokens'[t].type = "password_setup" => users'[tokens'[t].user].email_verified

(* No verification token is issued. *)
NoVerification ==
  \A t \in Requests : VerificationToken(t)' =>
    VerificationToken(t) /\ tokens'[t].user = tokens[t].user

SessionsFine ==
  \A s \in SessionIds : sessions'[s] # None =>
    \/ /\ sessions[s] # None
       /\ sessions'[s].user = sessions[s].user
       /\ \/ sessions'[s].state = sessions[s].state
          \/ users'[sessions'[s].user].mfa_secret # None
    \/ /\ s \in Requests /\ req[s].pc # "done" /\ req'[s].pc = "done"
       /\ sessions'[s].state # "authenticated"
       /\ users'[sessions'[s].user] # None
       /\ users'[sessions'[s].user].account_status = "active"

(* A handler that has returned, or not begun, knows nothing. *)
LEMMA IdleHandler ==
  ASSUME NEW q \in Requests, req'[q].pc \in {"new", "done"}
  PROVE  LocalsOK(q)' /\ KnowledgeOK(q)'
BY DEF LocalsOK, KnowledgeOK, InFlight, PasswordPCs, TokenPCs, MfaPCs, VerifiedPCs, ActivePCs

(* A handler that does not move still knows what it knew. *)
LEMMA StableHandler ==
  ASSUME AuthInv, NEW q \in Requests, req'[q] = req[q],
         \A p \in Requests : req[p].pc = "done" => req'[p].pc = "done",
         UsersAdvance, SessionsFine
  PROVE  LocalsOK(q)' /\ KnowledgeOK(q)'
<1>1. LocalsOK(q) /\ KnowledgeOK(q)
  BY DEF AuthInv
<1>2. CASE ~InFlight(q)
  BY <1>2, IdleHandler DEF InFlight
<1>3. CASE InFlight(q)
  <2>1. req[q].user \in Users /\ users[req[q].user] # None
    BY <1>1, <1>3 DEF LocalsOK
  <2>2. LocalsOK(q)'
    BY <1>1, <2>1 DEF LocalsOK, UsersAdvance
  <2>3. KnowledgeOK(q)'
    <3>1. req[q].pc \in VerifiedPCs => users'[req[q].user].email_verified
      BY <1>1, <2>1 DEF KnowledgeOK, UsersAdvance
    <3>2. req[q].pc \in ActivePCs => users'[req[q].user].account_status = "active"
      BY <1>1, <2>1 DEF KnowledgeOK, UsersAdvance
    <3>3. req[q].pc = "mfa.elevate" => users'[req[q].user].mfa_secret # None
      BY <1>1, <2>1 DEF KnowledgeOK, UsersAdvance
    <3>4. ASSUME req[q].pc \in MfaPCs
          PROVE  /\ req[q].ref \in Requests => req'[req[q].ref].pc = "done"
                 /\ sessions'[req[q].ref] # None => sessions'[req[q].ref].user = req[q].user
      <4>1. req[q].ref \in SessionIds /\ (req[q].ref \in Requests => req[req[q].ref].pc = "done")
        BY <1>1, <3>4 DEF LocalsOK, KnowledgeOK
      <4>2. sessions[req[q].ref] # None => sessions[req[q].ref].user = req[q].user
        BY <1>1, <3>4 DEF KnowledgeOK
      <4> QED BY <4>1, <4>2 DEF SessionsFine
    <3> QED BY <3>1, <3>2, <3>3, <3>4 DEF KnowledgeOK
  <2> QED BY <2>2, <2>3
<1> QED BY <1>2, <1>3

(* The rows of the tables still belong together. *)
LEMMA RowsPreserved ==
  ASSUME AuthInv, \A p \in Requests : req[p].pc = "done" => req'[p].pc = "done",
         UsersAdvance, TokensFine, SessionsFine
  PROVE  RowsOK'
<1>1. tokens \in TokensTable /\ sessions \in SessionsTable
  BY DEF AuthInv, TypeOK, TablesOK, TokensTable, SessionsTable
<1>2. RowsOK
  BY DEF AuthInv
<1>3. ASSUME NEW t \in Requests, tokens'[t] # None
      PROVE  /\ users'[tokens'[t].user] # None
             /\ tokens'[t].type = "password_setup" => users'[tokens'[t].user].email_verified
  <2>1. CASE /\ tokens[t] # None
             /\ tokens'[t].user = tokens[t].user /\ tokens'[t].type = tokens[t].type
    BY <1>1, <1>2, <2>1, TokenFields DEF RowsOK, UsersAdvance
  <2> QED BY <1>3, <2>1 DEF TokensFine
<1>4. ASSUME NEW s \in SessionIds, sessions'[s] # None
      PROVE  /\ users'[sessions'[s].user] # None
             /\ users'[sessions'[s].user].account_status = "active"
  <2>1. CASE sessions[s] # None /\ sessions'[s].user = sessions[s].user
    BY <1>1, <1>2, <2>1, SessionFields DEF RowsOK, UsersAdvance
  <2> QED BY <1>4, <2>1 DEF SessionsFine
<1>5. ASSUME NEW r \in Requests, sessions'[r] # None
      PROVE  req'[r].pc = "done"
  BY <1>2, <1>5 DEF SessionsFine, RowsOK, SessionIds
<1> QED BY <1>3, <1>4, <1>5 DEF RowsOK

(* Sessions that are authenticated still have their factor. *)
LEMMA FactorPreserved ==
  ASSUME AuthInv, UsersAdvance, SessionsFine, RowsOK'
  PROVE  AuthenticatedHasFactor'
<1>1. sessions \in SessionsTable
  BY DEF AuthInv, TypeOK, TablesOK, SessionsTable
<1>2. AuthenticatedHasFactor
  BY DEF AuthInv
<1>3. ASSUME NEW s \in SessionIds, sessions'[s] # None, sessions'[s].state = "authenticated"
      PROVE  /\ users'[sessions'[s].user] # None
             /\ users'[sessions'[s].user].account_status = "active"
             /\ users'[sessions'[s].user].mfa_secret # None
  <2>1. /\ users'[sessions'[s].user] # None
        /\ users'[sessions'[s].user].account_status = "active"
    BY <1>3 DEF RowsOK
  <2>2. CASE /\ sessions[s] # None /\ sessions'[s].user = sessions[s].user
             /\ sessions'[s].state = sessions[s].state
    BY <1>1, <1>2, <1>3, <2>2, SessionFields DEF AuthenticatedHasFactor, UsersAdvance
  <2> QED BY <1>3, <2>1, <2>2 DEF SessionsFine
<1> QED BY <1>3 DEF AuthenticatedHasFactor

(* Nobody else issues a verification token. *)
LEMMA RegistrarPreserved ==
  ASSUME AuthInv, NoVerification,
         \A q \in Requests : req'[q].pc = "register.token" => req'[q] = req[q]
  PROVE  OneRegistrar' /\ OneVerificationToken'
<1>1. OneRegistrar /\ OneVerificationToken
  BY DEF AuthInv
<1>2. OneRegistrar'
  BY <1>1 DEF OneRegistrar, NoVerification
<1>3. OneVerificationToken'
  BY <1>1 DEF OneVerificationToken, VerificationToken, NoVerification
<1> QED BY <1>2, <1>3

(* What a step has to do to preserve the invariant. *)
LEMMA Preserves ==
  ASSUME AuthInv, TypeOK', ArrivalsOK',
         \A q \in Requests : req[q].pc = "done" => req'[q].pc = "done",
         \A q \in Requests : req'[q] # req[q] => LocalsOK(q)' /\ KnowledgeOK(q)',
         UsersAdvance, TokensFine, SessionsFine,
         OneRegistrar', OneVerificationToken', ActiveIsVerified', LockoutEngages'
  PROVE  AuthInv'
<1>1. \A q \in Requests : LocalsOK(q)' /\ KnowledgeOK(q)'
  BY StableHandler
<1>2. RowsOK'
  BY RowsPreserved
<1>3. AuthenticatedHasFactor'
  BY <1>2, FactorPreserved
<1> QED BY <1>1, <1>2, <1>3 DEF AuthInv

-----------------------------------------------------------------------------
(* Handler r takes a step: it was not done, and it is not about to mail    *)
(* the token of a registration.                                            *)
Frame(r) ==
  /\ Moves(r) /\ RequestsOK' /\ ArrivalsOK' /\ faults' = faults
  /\ req[r].pc # "done" /\ req'[r].pc \notin {"new", "register.token"}

(* What AuthInv says of the types. *)
LEMMA Types ==
  ASSUME AuthInv
  PROVE  /\ users \in UsersTable /\ tokens \in TokensTable /\ sessions \in SessionsTable
         /\ devices \in [Users -> [Devices \cup {None} -> Nat]] /\ codes \in [Users -> Nat]
         /\ req \in [Requests -> Handler] /\ arrived \in 0 .. MaxRequests
         /\ faults \in 0 .. MaxFaults /\ lapses \in 0 .. MaxLapses
         /\ ipHits \in [Devices -> Nat] /\ job \in {"idle", "tokens"}
BY DEF AuthInv, TypeOK, TablesOK, RequestsOK, UsersTable, TokensTable, SessionsTable

(* A later step of a handler in flight. *)
LEMMA StepFrame ==
  ASSUME AuthInv, NEW r \in Requests, InFlight(r), Moves(r),
         req'[r].pc \notin {"new", "register.token"}, Quiet
  PROVE  Frame(r)
<1>1. ArrivalsOK'
  <2>1. ArrivalsOK /\ arrived' = arrived
    BY DEF AuthInv, Quiet
  <2> QED BY <2>1 DEF ArrivalsOK, InFlight, Moves
<1>2. RequestsOK'
  BY Types DEF RequestsOK, Moves, Quiet
<1> QED BY <1>1, <1>2 DEF Frame, InFlight, Quiet

(* The first step of a handler. *)
LEMMA CallFrame ==
  ASSUME AuthInv, NEW r \in Requests, NEW op, Receive(r, op), Moves(r),
         req'[r].pc \notin {"new", "register.token"}, ipHits' \in [Devices -> Nat]
  PROVE  Frame(r) /\ req[r].pc = "new"
<1>1. ArrivalsOK /\ arrived \in Nat /\ r = arrived + 1 /\ arrived' = r
  BY Types DEF AuthInv, Receive
<1>2. req[r].pc = "new"
  BY <1>1 DEF ArrivalsOK
<1>3. ArrivalsOK'
  BY <1>1 DEF ArrivalsOK, Moves, Requests
<1>4. RequestsOK'
  BY <1>1, Types, AuthAssumption DEF RequestsOK, Moves, Receive, Requests
<1> QED BY <1>2, <1>3, <1>4 DEF Frame, Receive

(* The lockout of a user does not depend on a handler that is neither      *)
(* about to re-read the counter nor to lock.                               *)
LEMMA LockoutKept ==
  ASSUME AuthInv, CountersKept({}), faults' = faults,
         \A q \in Requests : req[q].pc \in {"login.reread", "login.lock"} => req'[q] = req[q]
  PROVE  LockoutEngages'
<1>1. LockoutEngages
  BY DEF AuthInv
<1> QED BY <1>1 DEF LockoutEngages, CountersKept

(* Frame, the tables and what r knows make the invariant. *)
LEMMA HandlerPreserves ==
  ASSUME AuthInv, NEW r \in Requests, Frame(r), LocalsOK(r)' /\ KnowledgeOK(r)',
         TablesOK', UsersAdvance, TokensFine, NoVerification, SessionsFine,
         ActiveIsVerified', LockoutEngages'
  PROVE  AuthInv'
<1>1. TypeOK'
  BY DEF TypeOK, Frame
<1>2. OneRegistrar' /\ OneVerificationToken'
  BY RegistrarPreserved DEF Frame, Moves
<1> QED BY <1>1, <1>2, Preserves DEF Frame, Moves

(* Tables that do not change. *)
LEMMA NoUserChange ==
  ASSUME AuthInv, users' = users
  PROVE  users' \in UsersTable /\ UsersAdvance /\ CountersKept({}) /\ ActiveIsVerified'
BY Types DEF UsersAdvance, CountersKept, ActiveIsVerified, AuthInv

(* Tokens that are kept are fine.                                          *)
LEMMA NoTokenChange ==
  ASSUME AuthInv, TokensKept({})
  PROVE  TokensFine /\ NoVerification
BY DEF TokensKept, TokensFine, NoVerification, VerificationToken

(* Sessions that are kept are fine.                                        *)
LEMMA NoSessionChange ==
  ASSUME AuthInv, SessionsKept({})
  PROVE  SessionsFine
BY DEF SessionsKept, SessionsFine

(* A handler moves without changing a table. *)
LEMMA NoQuery ==
  ASSUME AuthInv, NEW r \in Requests, Frame(r), LocalsOK(r)' /\ KnowledgeOK(r)',
         UNCHANGED tables, req[r].pc \notin {"login.reread", "login.lock"}
  PROVE  AuthInv'
<1>1. TablesOK' /\ TokensKept({}) /\ SessionsKept({}) /\ users' = users
  BY Types, TokensUnchanged, SessionsUnchanged
  DEF tables, TablesOK, UsersTable, TokensTable, SessionsTable
<1>2. LockoutEngages'
  BY <1>1, NoUserChange, LockoutKept DEF Frame, Moves
<1> QED BY <1>1, <1>2, NoUserChange, NoTokenChange, NoSessionChange, HandlerPreserves

(* A handler changes a user, but not the lockout columns. *)
LEMMA UsersQuery ==
  ASSUME AuthInv, NEW r \in Requests, Frame(r), LocalsOK(r)' /\ KnowledgeOK(r)',
         UNCHANGED <<tokens, sessions, devices, codes>>,
         users' \in UsersTable, UsersAdvance, CountersKept({}), ActiveIsVerified',
         req[r].pc \notin {"login.reread", "login.lock"}
  PROVE  AuthInv'
<1>1. TablesOK' /\ TokensKept({}) /\ SessionsKept({})
  BY Types, TokensUnchanged, SessionsUnchanged
  DEF TablesOK, UsersTable, TokensTable, SessionsTable
<1>2. LockoutEngages'
  BY LockoutKept DEF Frame, Moves
<1> QED BY <1>1, <1>2, NoTokenChange, NoSessionChange, HandlerPreserves

(* A handler changes the lockout columns of a user. *)
LEMMA LockoutQuery ==
  ASSUME AuthInv, NEW r \in Requests, Frame(r), LocalsOK(r)' /\ KnowledgeOK(r)',
         UNCHANGED <<tokens, sessions, devices, codes>>,
         users' \in UsersTable, UsersAdvance, ActiveIsVerified', LockoutEngages'
  PROVE  AuthInv'
<1>1. TablesOK' /\ TokensKept({}) /\ SessionsKept({})
  BY Types, TokensUnchanged, SessionsUnchanged
  DEF TablesOK, UsersTable, TokensTable, SessionsTable
<1> QED BY <1>1, NoTokenChange, NoSessionChange, HandlerPreserves

(* A handler changes the tokens. *)
LEMMA TokensQuery ==
  ASSUME AuthInv, NEW r \in Requests, Frame(r), LocalsOK(r)' /\ KnowledgeOK(r)',
         UNCHANGED <<users, sessions, devices, codes>>,
         tokens' \in TokensTable, TokensFine, NoVerification,
         req[r].pc \notin {"login.reread", "login.lock"}
  PROVE  AuthInv'
<1>1. TablesOK' /\ SessionsKept({})
  BY Types, SessionsUnchanged DEF TablesOK, UsersTable, TokensTable, SessionsTable
<1>2. LockoutEngages'
  BY NoUserChange, LockoutKept DEF Frame, Moves
<1> QED BY <1>1, <1>2, NoUserChange, NoSessionChange, HandlerPreserves

(* A handler changes the sessions. *)
LEMMA SessionsQuery ==
  ASSUME AuthInv, NEW r \in Requests, Frame(r), LocalsOK(r)' /\ KnowledgeOK(r)',
         UNCHANGED <<users, tokens, devices, codes>>,
         sessions' \in SessionsTable, SessionsFine,
         req[r].pc \notin {"login.reread", "login.lock"}
  PROVE  AuthInv'
<1>1. TablesOK' /\ TokensKept({})
  BY Types, TokensUnchanged DEF TablesOK, UsersTable, TokensTable, SessionsTable
<1>2. LockoutEngages'
  BY NoUserChange, LockoutKept DEF Frame, Moves
<1> QED BY <1>1, <1>2, NoUserChange, NoTokenChange, HandlerPreserves

(* A handler changes the devices or the codes. *)
LEMMA DevicesQuery ==
  ASSUME AuthInv, NEW r \in Requests, Frame(r), LocalsOK(r)' /\ KnowledgeOK(r)',
         UNCHANGED <<users, tokens, sessions>>,
         devices' \in [Users -> [Devices \cup {None} -> Nat]], codes' \in [Users -> Nat],
         req[r].pc \notin {"login.reread", "login.lock"}
  PROVE  AuthInv'
<1>1. TablesOK' /\ TokensKept({}) /\ SessionsKept({})
  BY Types, TokensUnchanged, SessionsUnchanged
  DEF TablesOK, UsersTable, TokensTable, SessionsTable
<1>2. LockoutEngages'
  BY NoUserChange, LockoutKept DEF Frame, Moves
<1> QED BY <1>1, <1>2, NoUserChange, NoTokenChange, NoSessionChange, HandlerPreserves

(* What AuthInv says of a handler. *)
LEMMA Known ==
  ASSUME AuthInv, NEW r \in Requests
  PROVE  LocalsOK(r) /\ KnowledgeOK(r)
BY DEF AuthInv

(* A handler returns. *)
LEMMA Returns ==
  ASSUME AuthInv, NEW r \in Requests, InFlight(r), Return(r), Quiet
  PROVE  Frame(r) /\ LocalsOK(r)' /\ KnowledgeOK(r)'
BY Types, ReturnEffect, StepFrame, IdleHandler

(* A request is answered at once. *)
LEMMA CallReturns ==
  ASSUME AuthInv, NEW r \in Requests, NEW op, Receive(r, op), Return(r),
         ipHits' \in [Devices -> Nat]
  PROVE  Frame(r) /\ LocalsOK(r)' /\ KnowledgeOK(r)' /\ req[r].pc = "new"
BY Types, ReturnEffect, CallFrame, IdleHandler

(* The awaits, but for the one that follows the creation of a user. *)
Awaits == PCs \ {"new", "done", "register.token"}

(* A handler goes on to the next await with the locals it has. *)
LEMMA GoesOn ==
  ASSUME AuthInv, NEW r \in Requests, InFlight(r),
         NEW pc \in Awaits, Goto(r, pc), Quiet
  PROVE  /\ Frame(r) /\ req[r].user \in Users /\ users[req[r].user] # None
         /\ req'[r].pc = pc /\ req'[r].user = req[r].user /\ req'[r].ref = req[r].ref
         /\ req'[r].arg = req[r].arg /\ req'[r].aux = req[r].aux
<1>1. req[r].user \in Users /\ users[req[r].user] # None
  BY Known DEF LocalsOK
<1> QED BY <1>1, Types, GotoEffect, StepFrame DEF Awaits

-----------------------------------------------------------------------------
(* Registration *)

(* A new user is registered, and its handler is the only one to mail it. *)
LEMMA RegisterPreserves ==
  ASSUME AuthInv, NEW r \in Requests, NEW u \in Users, Register(r, u)
  PROVE  AuthInv'
<1>1. Receive(r, "register") /\ ipHits' = ipHits
  BY DEF Register
<1>2. CASE Return(r) /\ UNCHANGED tables
  BY <1>1, <1>2, Types, CallReturns, NoQuery
<1>3. CASE /\ users[u] = None /\ CreateUser(u)
           /\ Suspend(r, "register.token", u, None, None, None)
           /\ UNCHANGED <<tokens, sessions, devices, codes>>
  <2>1. Moves(r) /\ req'[r].pc = "register.token" /\ req'[r].user = u
    <3>1. "register.token" \in PCs
      BY DEF PCs
    <3> QED BY <1>3, <3>1, Types, SuspendEffect
  <2>2. /\ users' \in UsersTable /\ UsersAdvance /\ CountersKept({u})
        /\ users'[u] # None /\ users'[u].failed_attempts = 0 /\ ActiveIsVerified'
    BY <1>3, Types, CreateUserEffect DEF AuthInv
  <2>3. TokensKept({}) /\ SessionsKept({})
    BY <1>3, Types, TokensUnchanged, SessionsUnchanged
  <2>4. req[r].pc = "new" /\ ArrivalsOK' /\ RequestsOK'
    <3>1. ArrivalsOK /\ arrived \in Nat /\ r = arrived + 1 /\ arrived' = r
      BY <1>1, Types DEF AuthInv, Receive
    <3>2. req[r].pc = "new"
      BY <3>1 DEF ArrivalsOK
    <3>3. ArrivalsOK'
      BY <2>1, <3>1 DEF ArrivalsOK, Moves, Requests
    <3>4. RequestsOK'
      BY <1>1, <2>1, <3>1, Types, AuthAssumption DEF RequestsOK, Moves, Receive, Requests
    <3> QED BY <3>2, <3>3, <3>4
  <2>5. TypeOK'
    BY <1>3, <2>2, <2>4, Types
    DEF TypeOK, TablesOK, UsersTable, TokensTable, SessionsTable
  <2>6. LocalsOK(r)' /\ KnowledgeOK(r)'
    BY <2>1, <2>2
    DEF LocalsOK, KnowledgeOK, PasswordPCs, TokenPCs, MfaPCs, VerifiedPCs, ActivePCs
  <2>7. LockoutEngages'
    <3>1. LockoutEngages /\ faults' = faults
      BY <1>1 DEF AuthInv, Receive
    <3> QED BY <2>1, <2>2, <2>4, <3>1, AuthAssumption
            DEF LockoutEngages, CountersKept, Moves
  <2>8. OneRegistrar'
    <3>1. \A t \in Requests : tokens[t] # None => tokens[t].user # u
      BY <1>3 DEF AuthInv, RowsOK
    <3>2. \A q \in Requests : req[q].pc = "register.token" => req[q].user # u
      BY <1>3, Known DEF LocalsOK, InFlight
    <3>3. OneRegistrar /\ tokens' = tokens
      BY <1>3 DEF AuthInv
    <3> QED BY <2>1, <3>1, <3>2, <3>3 DEF OneRegistrar, Moves, VerificationToken
  <2>9. OneVerificationToken'
    BY <1>3 DEF AuthInv, OneVerificationToken
  <2> QED BY <2>1, <2>2, <2>3, <2>4, <2>5, <2>6, <2>7, <2>8, <2>9,
             NoTokenChange, NoSessionChange, Preserves DEF Moves
<1> QED BY <1>2, <1>3 DEF Register

(* Its verification token is the first. *)
LEMMA RegisterTokenPreserves ==
  ASSUME AuthInv, NEW r \in Requests, RegisterToken(r)
  PROVE  AuthInv'
<1>1. /\ req[r].pc = "register.token" /\ InFlight(r)
      /\ "register.email" \in Awaits /\ "email_verification" \in TokenTypes
  BY DEF RegisterToken, At, InFlight, Awaits, PCs, TokenTypes
<1>2. /\ CreateToken(r, req[r].user, "email_verification", FALSE)
      /\ Goto(r, "register.email") /\ Quiet
      /\ UNCHANGED <<users, sessions, devices, codes>>
  BY DEF RegisterToken
<1>3. /\ Frame(r) /\ req[r].user \in Users /\ users[req[r].user] # None
      /\ req'[r].pc = "register.email" /\ req'[r].user = req[r].user
  BY <1>1, <1>2, GoesOn
<1>4. /\ tokens' \in TokensTable /\ TokensKept({r}) /\ tokens'[r] # None
      /\ tokens'[r].user = req[r].user /\ tokens'[r].type = "email_verification"
  BY <1>1, <1>2, <1>3, Types, CreateTokenEffect
<1>5. /\ users' \in UsersTable /\ UsersAdvance /\ CountersKept({}) /\ ActiveIsVerified'
      /\ SessionsFine /\ sessions' = sessions
  BY <1>2, Types, NoUserChange, SessionsUnchanged, NoSessionChange
<1>6. TokensFine
  BY <1>2, <1>3, <1>4 DEF TokensFine, TokensKept
<1>7. LocalsOK(r)' /\ KnowledgeOK(r)'
  BY <1>2, <1>3 DEF LocalsOK, KnowledgeOK, PasswordPCs, TokenPCs, MfaPCs, VerifiedPCs, ActivePCs
<1>8. OneRegistrar' /\ OneVerificationToken'
  <2>1. OneRegistrar /\ OneVerificationToken
    BY DEF AuthInv
  <2>2. \A t \in Requests : VerificationToken(t)' =>
          \/ t = r
          \/ VerificationToken(t) /\ tokens'[t].user = tokens[t].user
    BY <1>4 DEF TokensKept, VerificationToken
  <2>3. \A t \in Requests : VerificationToken(t) => tokens[t].user # req[r].user
    BY <1>1, <2>1 DEF OneRegistrar
  <2>4. OneVerificationToken'
    BY <1>4, <2>1, <2>2, <2>3 DEF OneVerificationToken, VerificationToken
  <2>5. ASSUME NEW p \in Requests, req'[p].pc = "register.token"
        PROVE  /\ req'[p] = req[p] /\ req[p].user # req[r].user
    BY <1>1, <1>3, <2>1, <2>5 DEF OneRegistrar, Frame, Moves
  <2>6. OneRegistrar'
    BY <1>4, <2>1, <2>2, <2>5 DEF OneRegistrar
  <2> QED BY <2>4, <2>6
<1>9. LockoutEngages'
  BY <1>1, <1>3, <1>5, LockoutKept DEF Frame, Moves
<1>10. TypeOK'
  BY <1>2, <1>3, <1>4, <1>5, Types
  DEF Frame, TypeOK, TablesOK, UsersTable, TokensTable, SessionsTable
<1> QED BY <1>3, <1>5, <1>6, <1>7, <1>8, <1>9, <1>10, Preserves DEF Frame, Moves

(* The e-mail is delivered. *)
LEMMA RegisterEmailPreserves ==
  ASSUME AuthInv, NEW r \in Requests, RegisterEmail(r)
  PROVE  AuthInv'
<1>1. req[r].pc = "register.email" /\ InFlight(r)
  BY DEF RegisterEmail, At, InFlight
<1>2. DeliverToken(r) /\ Return(r) /\ Quiet /\ UNCHANGED <<users, sessions, devices, codes>>
  BY DEF RegisterEmail
<1>3. tokens' \in TokensTable /\ TokensFine /\ NoVerification
  BY <1>2, Types, DeliverTokenEffect, NoTokenChange
<1> QED BY <1>1, <1>2, <1>3, Returns, TokensQuery

(* A call that reads the tables is answered at once, or suspends with      *)
(* locals that fit its first query.                                        *)
LEMMA CallPreserves ==
  ASSUME AuthInv, NEW r \in Requests, NEW op, Receive(r, op),
         ipHits' \in [Devices -> Nat], UNCHANGED tables,
         \/ Return(r)
         \/ /\ Moves(r) /\ req'[r].pc \notin {"new", "register.token"}
            /\ LocalsOK(r)' /\ KnowledgeOK(r)'
  PROVE  AuthInv'
<1>1. CASE Return(r)
  BY <1>1, CallReturns, NoQuery
<1>2. CASE /\ Moves(r) /\ req'[r].pc \notin {"new", "register.token"}
           /\ LocalsOK(r)' /\ KnowledgeOK(r)'
  BY <1>2, CallFrame, NoQuery
<1> QED BY <1>1, <1>2

(* A valid verification token is found. *)
LEMMA VerifyEmailPreserves ==
  ASSUME AuthInv, NEW r \in Requests, NEW t \in Requests, VerifyEmail(r, t)
  PROVE  AuthInv'
<1>1. Receive(r, "verifyEmail") /\ UNCHANGED tables /\ ipHits' \in [Devices -> Nat]
  BY Types DEF VerifyEmail
<1>2. CASE Return(r)
  BY <1>1, <1>2, CallPreserves
<1>3. CASE /\ ValidToken(t, "email_verification")
           /\ Suspend(r, "verifyEmail.consume", tokens[t].user, t, None, None)
  <2>1. tokens[t] # None /\ tokens[t].type = "email_verification"
    BY <1>3 DEF ValidToken
  <2>2. tokens[t].user \in Users
    BY <2>1, Types, TokenFields
  <2>3. /\ users'[tokens[t].user] # None
        /\ tokens[t].type = "password_setup" => users'[tokens[t].user].email_verified
    BY <1>1, <2>1 DEF AuthInv, RowsOK, tables
  <2>4. "verifyEmail.consume" \in PCs
    BY DEF PCs
  <2>5. /\ Moves(r) /\ req'[r].pc = "verifyEmail.consume" /\ req'[r].user = tokens[t].user
        /\ req'[r].ref = t /\ req'[r].arg = None
    BY <1>3, <2>2, <2>4, Types, SuspendEffect
  <2>6. LocalsOK(r)' /\ KnowledgeOK(r)'
    BY <2>1, <2>2, <2>3, <2>5
    DEF LocalsOK, KnowledgeOK, PasswordPCs, TokenPCs, MfaPCs, VerifiedPCs, ActivePCs
  <2> QED BY <1>1, <2>5, <2>6, CallPreserves
<1> QED BY <1>2, <1>3 DEF VerifyEmail

(* A valid setup token is found: its user is verified. *)
LEMMA SetupPasswordPreserves ==
  ASSUME AuthInv, NEW r \in Requests, NEW t \in Requests, NEW p \in Passwords, SetupPassword(r, t, p)
  PROVE  AuthInv'
<1>1. Receive(r, "setupPassword") /\ UNCHANGED tables /\ ipHits' \in [Devices -> Nat]
  BY Types DEF SetupPassword
<1>2. CASE Return(r)
  BY <1>1, <1>2, CallPreserves
<1>3. CASE /\ ValidToken(t, "password_setup")
           /\ Suspend(r, "setupPassword.consume", tokens[t].user, t, p, None)
  <2>1. tokens[t] # None /\ tokens[t].type = "password_setup"
    BY <1>3 DEF ValidToken
  <2>2. tokens[t].user \in Users
    BY <2>1, Types, TokenFields
  <2>3. /\ users'[tokens[t].user] # None
        /\ tokens[t].type = "password_setup" => users'[tokens[t].user].email_verified
    BY <1>1, <2>1 DEF AuthInv, RowsOK, tables
  <2>4. "setupPassword.consume" \in PCs
    BY DEF PCs
  <2>5. /\ Moves(r) /\ req'[r].pc = "setupPassword.consume" /\ req'[r].user = tokens[t].user
        /\ req'[r].ref = t /\ req'[r].arg = p
    BY <1>3, <2>2, <2>4, Types, SuspendEffect
  <2>6. LocalsOK(r)' /\ KnowledgeOK(r)'
    BY <2>1, <2>2, <2>3, <2>5
    DEF LocalsOK, KnowledgeOK, PasswordPCs, TokenPCs, MfaPCs, VerifiedPCs, ActivePCs
  <2> QED BY <1>1, <2>5, <2>6, CallPreserves
<1> QED BY <1>2, <1>3 DEF SetupPassword

(* The verification token is consumed. *)
LEMMA VerifyEmailConsumePreserves ==
  ASSUME AuthInv, NEW r \in Requests, VerifyEmailConsume(r)
  PROVE  AuthInv'
<1>1. req[r].pc = "verifyEmail.consume" /\ InFlight(r) /\ "verifyEmail.mark" \in Awaits
  BY DEF VerifyEmailConsume, At, InFlight, Awaits, PCs
<1>2. Consume(req[r].ref) /\ Goto(r, "verifyEmail.mark") /\ Quiet
      /\ UNCHANGED <<users, sessions, devices, codes>>
  BY DEF VerifyEmailConsume
<1>3. /\ Frame(r) /\ req[r].user \in Users /\ users[req[r].user] # None
      /\ req'[r].pc = "verifyEmail.mark" /\ req'[r].user = req[r].user
      /\ req'[r].ref = req[r].ref /\ req'[r].arg = req[r].arg /\ req'[r].aux = req[r].aux
  BY <1>1, <1>2, GoesOn
<1>4. req[r].ref \in Requests
  BY <1>1, Known DEF LocalsOK, KnowledgeOK, PasswordPCs, TokenPCs, MfaPCs, VerifiedPCs, ActivePCs
<1>5. tokens' \in TokensTable /\ TokensFine /\ NoVerification
  BY <1>2, <1>3, <1>4, Types, ConsumeEffect, NoTokenChange
<1>6. LocalsOK(r)' /\ KnowledgeOK(r)'
  BY <1>2, <1>3, <1>4, <1>5
  DEF LocalsOK, KnowledgeOK, PasswordPCs, TokenPCs, MfaPCs, VerifiedPCs, ActivePCs
<1> QED BY <1>1, <1>2, <1>3, <1>5, <1>6, TokensQuery

(* The e-mail is marked verified. *)
LEMMA VerifyEmailMarkPreserves ==
  ASSUME AuthInv, NEW r \in Requests, VerifyEmailMark(r)
  PROVE  AuthInv'
<1>1. req[r].pc = "verifyEmail.mark" /\ InFlight(r) /\ "verifyEmail.issue" \in Awaits
  BY DEF VerifyEmailMark, At, InFlight, Awaits, PCs
<1>2. MarkVerified(req[r].user) /\ Goto(r, "verifyEmail.issue") /\ Quiet
      /\ UNCHANGED <<tokens, sessions, devices, codes>>
  BY DEF VerifyEmailMark
<1>3. /\ Frame(r) /\ req[r].user \in Users /\ users[req[r].user] # None
      /\ req'[r].pc = "verifyEmail.issue" /\ req'[r].user = req[r].user
      /\ req'[r].ref = req[r].ref /\ req'[r].arg = req[r].arg /\ req'[r].aux = req[r].aux
  BY <1>1, <1>2, GoesOn
<1>4. req[r].user \in Users
  BY <1>1, Known DEF LocalsOK, KnowledgeOK, PasswordPCs, TokenPCs, MfaPCs, VerifiedPCs, ActivePCs
<1>5. users' \in UsersTable /\ UsersAdvance /\ CountersKept({}) /\ ActiveIsVerified'
      /\ users'[req[r].user].email_verified
  BY <1>2, <1>3, <1>4, Types, MarkVerifiedEffect DEF AuthInv
<1>6. LocalsOK(r)' /\ KnowledgeOK(r)'
  BY <1>2, <1>3, <1>4, <1>5
  DEF LocalsOK, KnowledgeOK, PasswordPCs, TokenPCs, MfaPCs, VerifiedPCs, ActivePCs, UsersAdvance
<1> QED BY <1>1, <1>2, <1>3, <1>5, <1>6, UsersQuery

(* A setup token is issued to a verified user. *)
LEMMA VerifyEmailIssuePreserves ==
  ASSUME AuthInv, NEW r \in Requests, VerifyEmailIssue(r)
  PROVE  AuthInv'
<1>1. req[r].pc = "verifyEmail.issue" /\ InFlight(r) /\ "password_setup" \in TokenTypes
  BY DEF VerifyEmailIssue, At, InFlight, TokenTypes
<1>2. /\ CreateToken(r, req[r].user, "password_setup", TRUE) /\ Return(r) /\ Quiet
      /\ UNCHANGED <<users, sessions, devices, codes>>
  BY DEF VerifyEmailIssue
<1>3. Frame(r) /\ LocalsOK(r)' /\ KnowledgeOK(r)'
  BY <1>1, <1>2, Returns
<1>4. req[r].user \in Users /\ users[req[r].user] # None /\ users[req[r].user].email_verified
  BY <1>1, Known DEF LocalsOK, KnowledgeOK, VerifiedPCs
<1>5. /\ tokens' \in TokensTable /\ TokensKept({r})
      /\ tokens'[r].user = req[r].user /\ tokens'[r].type = "password_setup"
  BY <1>1, <1>2, <1>4, Types, CreateTokenEffect
<1>6. TokensFine /\ NoVerification
  BY <1>2, <1>4, <1>5 DEF TokensFine, TokensKept, NoVerification, VerificationToken
<1> QED BY <1>1, <1>2, <1>3, <1>5, <1>6, TokensQuery

(* The setup token is consumed. *)
LEMMA SetupPasswordConsumePreserves ==
  ASSUME AuthInv, NEW r \in Requests, SetupPasswordConsume(r)
  PROVE  AuthInv'
<1>1. req[r].pc = "setupPassword.consume" /\ InFlight(r) /\ "setupPassword.set" \in Awaits
  BY DEF SetupPasswordConsume, At, InFlight, Awaits, PCs
<1>2. Consume(req[r].ref) /\ Goto(r, "setupPassword.set") /\ Quiet
      /\ UNCHANGED <<users, sessions, devices, codes>>
  BY DEF SetupPasswordConsume
<1>3. /\ Frame(r) /\ req[r].user \in Users /\ users[req[r].user] # None
      /\ req'[r].pc = "setupPassword.set" /\ req'[r].user = req[r].user
      /\ req'[r].ref = req[r].ref /\ req'[r].arg = req[r].arg /\ req'[r].aux = req[r].aux
  BY <1>1, <1>2, GoesOn
<1>4. req[r].ref \in Requests /\ req[r].arg \in Passwords /\ users[req[r].user].email_verified
  BY <1>1, Known DEF LocalsOK, KnowledgeOK, PasswordPCs, TokenPCs, MfaPCs, VerifiedPCs, ActivePCs
<1>5. tokens' \in TokensTable /\ TokensFine /\ NoVerification
  BY <1>2, <1>3, <1>4, Types, ConsumeEffect, NoTokenChange
<1>6. LocalsOK(r)' /\ KnowledgeOK(r)'
  BY <1>2, <1>3, <1>4, <1>5
  DEF LocalsOK, KnowledgeOK, PasswordPCs, TokenPCs, MfaPCs, VerifiedPCs, ActivePCs
<1> QED BY <1>1, <1>2, <1>3, <1>5, <1>6, TokensQuery

(* The password is stored and the account activated. *)
LEMMA SetupPasswordSetPreserves ==
  ASSUME AuthInv, NEW r \in Requests, SetupPasswordSet(r)
  PROVE  AuthInv'
<1>1. req[r].pc = "setupPassword.set" /\ InFlight(r) /\ "setupPassword.session" \in Awaits
  BY DEF SetupPasswordSet, At, InFlight, Awaits, PCs
<1>2. SetPassword(req[r].user, req[r].arg) /\ Goto(r, "setupPassword.session") /\ Quiet
      /\ UNCHANGED <<tokens, sessions, devices, codes>>
  BY DEF SetupPasswordSet
<1>3. /\ Frame(r) /\ req[r].user \in Users /\ users[req[r].user] # None
      /\ req'[r].pc = "setupPassword.session" /\ req'[r].user = req[r].user
      /\ req'[r].ref = req[r].ref /\ req'[r].arg = req[r].arg /\ req'[r].aux = req[r].aux
  BY <1>1, <1>2, GoesOn
<1>4. req[r].arg \in Passwords /\ users[req[r].user].email_verified
  BY <1>1, Known DEF LocalsOK, KnowledgeOK, PasswordPCs, TokenPCs, MfaPCs, VerifiedPCs, ActivePCs
<1>5. users' \in UsersTable /\ UsersAdvance /\ CountersKept({}) /\ ActiveIsVerified'
      /\ users'[req[r].user].account_status = "active"
  BY <1>2, <1>3, <1>4, Types, SetPasswordEffect DEF AuthInv
<1>6. LocalsOK(r)' /\ KnowledgeOK(r)'
  BY <1>2, <1>3, <1>4, <1>5
  DEF LocalsOK, KnowledgeOK, PasswordPCs, TokenPCs, MfaPCs, VerifiedPCs, ActivePCs, UsersAdvance
<1> QED BY <1>1, <1>2, <1>3, <1>5, <1>6, UsersQuery

(* The session of the MFA setup is opened. *)
LEMMA SetupPasswordSessionPreserves ==
  ASSUME AuthInv, NEW r \in Requests, SetupPasswordSession(r)
  PROVE  AuthInv'
<1>1. req[r].pc = "setupPassword.session" /\ InFlight(r) /\ req[r].pc # "done"
  BY DEF SetupPasswordSession, At, InFlight
<1>2. /\ CreateSession(r, req[r].user, "mfa_setup", None) /\ Return(r) /\ Quiet
      /\ UNCHANGED <<users, tokens, devices, codes>>
  BY DEF SetupPasswordSession
<1>3. Frame(r) /\ LocalsOK(r)' /\ KnowledgeOK(r)' /\ req'[r].pc = "done"
  BY <1>1, <1>2, Types, Returns, ReturnEffect
<1>4. /\ req[r].user \in Users /\ users[req[r].user] # None
      /\ users[req[r].user].account_status = "active"
  BY <1>1, Known DEF LocalsOK, KnowledgeOK, ActivePCs
<1>5. r \in SessionIds
  BY DEF SessionIds
<1>6. /\ sessions' \in SessionsTable /\ SessionsKept({r})
      /\ sessions'[r].user = req[r].user /\ sessions'[r].state = "mfa_setup"
  BY <1>2, <1>4, <1>5, Types, CreateSessionEffect
<1>7. SessionsFine
  BY <1>1, <1>2, <1>3, <1>4, <1>6 DEF SessionsFine, SessionsKept
<1> QED BY <1>1, <1>2, <1>3, <1>6, <1>7, SessionsQuery

(* A valid setup session is found. *)
LEMMA SetupMfaPreserves ==
  ASSUME AuthInv, NEW r \in Requests, NEW s \in SessionIds,
         SetupMfa(r, s)
  PROVE  AuthInv'
<1>1. Receive(r, "setupMfa") /\ UNCHANGED tables /\ ipHits' \in [Devices -> Nat]
  BY Types DEF SetupMfa
<1>2. CASE Return(r)
  BY <1>1, <1>2, CallPreserves
<1>3. CASE /\ ValidSession(s, "mfa_setup")
           /\ Suspend(r, "setupMfa.secret", sessions[s].user, s, 0, None)
  <2>1. sessions[s] # None
    BY <1>3 DEF ValidSession
  <2>2. sessions[s].user \in Users /\ sessions[s].device \in Devices \cup {None}
    BY <2>1, Types, SessionFields
  <2>3. /\ users'[sessions[s].user] # None
        /\ users'[sessions[s].user].account_status = "active"
        /\ s \in Requests => req[s].pc = "done"
    BY <1>1, <2>1 DEF AuthInv, RowsOK, tables
  <2>4. /\ "setupMfa.secret" \in PCs
        /\ s \in Requests \cup Users \cup {None}
    BY DEF PCs, SessionIds
  <2>5. /\ 0 \in Nat /\ 0 \in Passwords \cup Devices \cup Nat \cup Users \cup {None}
        /\ None \in Passwords \cup Devices \cup {None}
    BY <2>2
  <2>6. /\ Moves(r) /\ req'[r].pc = "setupMfa.secret" /\ req'[r].user = sessions[s].user
        /\ req'[r].ref = s /\ req'[r].arg = 0 /\ req'[r].aux = None
    <3>1. req \in [Requests -> Handler]
      BY Types
    <3> QED BY <1>3, <2>2, <2>4, <2>5, <3>1, SuspendEffect
  <2>7. req[r].pc = "new"
    BY <1>1, <2>4, <2>6, CallFrame
  <2>8. LocalsOK(r)' /\ KnowledgeOK(r)'
    BY <1>1, <2>1, <2>2, <2>3, <2>5, <2>6, <2>7
    DEF LocalsOK, KnowledgeOK, PasswordPCs, TokenPCs, MfaPCs, VerifiedPCs, ActivePCs, Moves, tables
  <2> QED BY <1>1, <2>4, <2>6, <2>8, CallPreserves
<1> QED BY <1>2, <1>3 DEF SetupMfa

(* The secret of the account is stored. *)
LEMMA SetupMfaSecretPreserves ==
  ASSUME AuthInv, NEW r \in Requests, SetupMfaSecret(r)
  PROVE  AuthInv'
<1>1. req[r].pc = "setupMfa.secret" /\ InFlight(r) /\ "setupMfa.code" \in Awaits
  BY DEF SetupMfaSecret, At, InFlight, Awaits, PCs
<1>2. SetMfaSecret(req[r].user, r) /\ Goto(r, "setupMfa.code") /\ Quiet
      /\ UNCHANGED <<tokens, sessions, devices, codes>>
  BY DEF SetupMfaSecret
<1>3. /\ Frame(r) /\ req[r].user \in Users /\ users[req[r].user] # None
      /\ req'[r].pc = "setupMfa.code" /\ req'[r].user = req[r].user
      /\ req'[r].ref = req[r].ref /\ req'[r].arg = req[r].arg /\ req'[r].aux = req[r].aux
  BY <1>1, <1>2, GoesOn
<1>4. req[r].arg \in Nat /\ r \in Secrets
  BY <1>1, Known, AuthAssumption DEF LocalsOK, Requests, Secrets
<1>5. users' \in UsersTable /\ UsersAdvance /\ CountersKept({}) /\ ActiveIsVerified'
  BY <1>2, <1>3, <1>4, Types, SetMfaSecretEffect DEF AuthInv
<1>6. LocalsOK(r)' /\ KnowledgeOK(r)'
  BY <1>2, <1>3, <1>4, <1>5
  DEF LocalsOK, KnowledgeOK, PasswordPCs, TokenPCs, MfaPCs, VerifiedPCs, ActivePCs, UsersAdvance
<1> QED BY <1>1, <1>2, <1>3, <1>5, <1>6, UsersQuery

(* A recovery code is stored; the handler counts it, or returns. *)
LEMMA SetupMfaCodePreserves ==
  ASSUME AuthInv, NEW r \in Requests, SetupMfaCode(r)
  PROVE  AuthInv'
<1>1. req[r].pc = "setupMfa.code" /\ InFlight(r)
  BY DEF SetupMfaCode, At, InFlight
<1>2. /\ InsertCode(req[r].user) /\ Quiet /\ UNCHANGED <<users, tokens, sessions, devices>>
      /\ Return(r) \/ req' = [req EXCEPT ![r].arg = @ + 1]
  BY DEF SetupMfaCode
<1>3. req[r].user \in Users /\ users[req[r].user] # None /\ req[r].arg \in Nat
  BY <1>1, Known DEF LocalsOK
<1>4. codes' \in [Users -> Nat] /\ devices' \in [Users -> [Devices \cup {None} -> Nat]]
  BY <1>2, <1>3, Types, InsertCodeEffect
<1>5. Frame(r) /\ LocalsOK(r)' /\ KnowledgeOK(r)'
  <2>1. CASE Return(r)
    BY <1>1, <1>2, <2>1, Returns
  <2>2. CASE req' = [req EXCEPT ![r].arg = @ + 1]
    <3>1. /\ Moves(r) /\ req'[r].pc = req[r].pc /\ req'[r].user = req[r].user
          /\ req'[r].arg \in Nat
      BY <1>3, <2>2, Types, CountEffect
    <3>2. Frame(r)
      BY <1>1, <1>2, <3>1, StepFrame
    <3>3. LocalsOK(r)' /\ KnowledgeOK(r)'
      BY <1>1, <1>2, <1>3, <3>1
      DEF LocalsOK, KnowledgeOK, PasswordPCs, TokenPCs, MfaPCs, VerifiedPCs, ActivePCs
    <3> QED BY <3>2, <3>3
  <2> QED BY <1>2, <2>1, <2>2
<1> QED BY <1>1, <1>2, <1>4, <1>5, DevicesQuery

(* Every call and step of Registration. *)
LEMMA RegistrationPreserves ==
  ASSUME AuthInv, NEW r \in Requests, RegistrationCalls(r) \/ RegistrationSteps(r)
  PROVE  AuthInv'
BY RegisterPreserves, RegisterTokenPreserves, RegisterEmailPreserves,
   VerifyEmailPreserves, VerifyEmailConsumePreserves, VerifyEmailMarkPreserves,
   VerifyEmailIssuePreserves, SetupPasswordPreserves, SetupPasswordConsumePreserves,
   SetupPasswordSetPreserves, SetupPasswordSessionPreserves, SetupMfaPreserves,
   SetupMfaSecretPreserves, SetupMfaCodePreserves
DEF RegistrationCalls, RegistrationSteps

-----------------------------------------------------------------------------
(* Sign-in *)

(* A login is limited, turned away, or suspends on the user it has read:   *)
(* an active one, if its password was right.                               *)
LEMMA LoginPreserves ==
  ASSUME AuthInv, NEW r \in Requests, NEW u \in Users, NEW p \in Passwords,
         NEW d \in Devices, Login(r, u, p, d)
  PROVE  AuthInv'
<1>1. Receive(r, "login") /\ UNCHANGED tables /\ ipHits' \in [Devices -> Nat]
  BY Types, HitRateLimitEffect DEF Login
<1>2. CASE Return(r)
  BY <1>1, <1>2, CallPreserves
<1>3. CASE MayTryPassword(u) /\ Suspend(r, "login.reset", u, None, d, p)
  <2>1. "login.reset" \in PCs /\ req \in [Requests -> Handler]
    BY Types DEF PCs
  <2>2. Moves(r) /\ req'[r].pc = "login.reset" /\ req'[r].user = u /\ req'[r].arg = d
    BY <1>3, <2>1, SuspendEffect
  <2>3. users'[u] # None /\ users'[u].account_status = "active"
    BY <1>1, <1>3 DEF MayTryPassword, tables
  <2>4. LocalsOK(r)' /\ KnowledgeOK(r)'
    BY <2>2, <2>3
    DEF LocalsOK, KnowledgeOK, PasswordPCs, TokenPCs, MfaPCs, VerifiedPCs, ActivePCs
  <2> QED BY <1>1, <2>2, <2>4, CallPreserves
<1>4. CASE MayTryPassword(u) /\ Suspend(r, "login.incr", u, None, None, None)
  <2>1. "login.incr" \in PCs /\ req \in [Requests -> Handler]
    BY Types DEF PCs
  <2>2. Moves(r) /\ req'[r].pc = "login.incr" /\ req'[r].user = u
    BY <1>4, <2>1, SuspendEffect
  <2>3. users'[u] # None
    BY <1>1, <1>4 DEF MayTryPassword, tables
  <2>4. LocalsOK(r)' /\ KnowledgeOK(r)'
    BY <2>2, <2>3
    DEF LocalsOK, KnowledgeOK, PasswordPCs, TokenPCs, MfaPCs, VerifiedPCs, ActivePCs
  <2> QED BY <1>1, <2>2, <2>4, CallPreserves
<1> QED BY <1>2, <1>3, <1>4 DEF Login

(* The counter grows, and its handler is about to re-read it. *)
LEMMA LoginIncrementPreserves ==
  ASSUME AuthInv, NEW r \in Requests, LoginIncrement(r)
  PROVE  AuthInv'
<1>1. req[r].pc = "login.incr" /\ InFlight(r) /\ "login.reread" \in Awaits
  BY DEF LoginIncrement, At, InFlight, Awaits, PCs
<1>2. /\ IncrementFailedAttempts(req[r].user) /\ Goto(r, "login.reread") /\ Quiet
      /\ UNCHANGED <<tokens, sessions, devices, codes>>
  BY DEF LoginIncrement
<1>3. /\ Frame(r) /\ req[r].user \in Users /\ users[req[r].user] # None
      /\ req'[r].pc = "login.reread" /\ req'[r].user = req[r].user
  BY <1>1, <1>2, GoesOn
<1>4. /\ users' \in UsersTable /\ UsersAdvance /\ CountersKept({req[r].user})
      /\ ActiveIsVerified'
  BY <1>2, <1>3, Types, IncrementFailedAttemptsEffect DEF AuthInv
<1>5. LocalsOK(r)' /\ KnowledgeOK(r)'
  BY <1>3, <1>4 DEF LocalsOK, KnowledgeOK, UsersAdvance,
                    PasswordPCs, TokenPCs, MfaPCs, VerifiedPCs, ActivePCs
<1>6. LockoutEngages'
  <2>1. LockoutEngages /\ faults' = faults
    BY <1>3 DEF AuthInv, Frame
  <2>2. \A q \in Requests : q # r => req'[q] = req[q]
    BY <1>3 DEF Frame, Moves
  <2> QED BY <1>1, <1>3, <1>4, <2>1, <2>2 DEF LockoutEngages, CountersKept
<1> QED BY <1>2, <1>3, <1>4, <1>5, <1>6, LockoutQuery

(* The handler that re-reads a counter at the threshold goes on to lock;   *)
(* one that does not lock has read a counter below it.                     *)
LEMMA LoginRereadPreserves ==
  ASSUME AuthInv, NEW r \in Requests, LoginReread(r)
  PROVE  AuthInv'
<1>1. req[r].pc = "login.reread" /\ InFlight(r) /\ "login.lock" \in Awaits
  BY DEF LoginReread, At, InFlight, Awaits, PCs
<1>2. UNCHANGED tables /\ Quiet
  BY DEF LoginReread
<1>3. req[r].user \in Users /\ users[req[r].user] # None
  BY <1>1, Known DEF LocalsOK
<1>4. users[req[r].user].failed_attempts \in Nat /\ LockoutThreshold \in Nat
  BY <1>3, Types, UserFields, AuthAssumption
<1>5. LockoutEngages /\ users' = users
  BY <1>2 DEF AuthInv, tables
<1>6. users' \in UsersTable /\ UsersAdvance /\ ActiveIsVerified'
      /\ UNCHANGED <<tokens, sessions, devices, codes>>
  BY <1>2, <1>5, NoUserChange DEF tables
<1>7. CASE Goto(r, "login.lock")
  <2>1. Frame(r) /\ req'[r].pc = "login.lock" /\ req'[r].user = req[r].user
    BY <1>1, <1>2, <1>7, GoesOn
  <2>2. LocalsOK(r)' /\ KnowledgeOK(r)'
    BY <1>3, <1>5, <2>1
    DEF LocalsOK, KnowledgeOK, PasswordPCs, TokenPCs, MfaPCs, VerifiedPCs, ActivePCs
  <2>3. LockoutEngages'
    BY <1>5, <2>1 DEF LockoutEngages, Frame, Moves
  <2> QED BY <1>6, <2>1, <2>2, <2>3, LockoutQuery
<1>8. CASE ~(users[req[r].user].failed_attempts >= LockoutThreshold) /\ Return(r)
  <2>1. Frame(r) /\ LocalsOK(r)' /\ KnowledgeOK(r)'
    BY <1>1, <1>2, <1>8, Returns
  <2>2. LockoutEngages'
    BY <1>3, <1>4, <1>5, <1>8, <2>1 DEF LockoutEngages, Frame, Moves
  <2> QED BY <1>6, <2>1, <2>2, LockoutQuery
<1> QED BY <1>7, <1>8 DEF LoginReread

(* The account is locked. *)
LEMMA LoginLockPreserves ==
  ASSUME AuthInv, NEW r \in Requests, LoginLock(r)
  PROVE  AuthInv'
<1>1. req[r].pc = "login.lock" /\ InFlight(r)
  BY DEF LoginLock, At, InFlight
<1>2. /\ LockAccount(req[r].user) /\ Return(r) /\ Quiet
      /\ UNCHANGED <<tokens, sessions, devices, codes>>
  BY DEF LoginLock
<1>3. Frame(r) /\ LocalsOK(r)' /\ KnowledgeOK(r)'
  BY <1>1, <1>2, Returns
<1>4. req[r].user \in Users /\ users[req[r].user] # None
  BY <1>1, Known DEF LocalsOK
<1>5. /\ users' \in UsersTable /\ UsersAdvance /\ CountersKept({req[r].user})
      /\ users'[req[r].user].lock # "none" /\ ActiveIsVerified'
  BY <1>2, <1>4, Types, LockAccountEffect DEF AuthInv
<1>6. LockoutEngages'
  <2>1. LockoutEngages /\ faults' = faults
    BY <1>3 DEF AuthInv, Frame
  <2>2. \A q \in Requests : q # r => req'[q] = req[q]
    BY <1>3 DEF Frame, Moves
  <2> QED BY <1>1, <1>5, <2>1, <2>2 DEF LockoutEngages, CountersKept
<1> QED BY <1>2, <1>3, <1>5, <1>6, LockoutQuery

(* Counter and lock are forgotten. *)
LEMMA LoginResetPreserves ==
  ASSUME AuthInv, NEW r \in Requests, LoginReset(r)
  PROVE  AuthInv'
<1>1. req[r].pc = "login.reset" /\ InFlight(r) /\ "login.session" \in Awaits
  BY DEF LoginReset, At, InFlight, Awaits, PCs
<1>2. /\ ResetFailedAttempts(req[r].user) /\ Goto(r, "login.session") /\ Quiet
      /\ UNCHANGED <<tokens, sessions, devices, codes>>
  BY DEF LoginReset
<1>3. /\ Frame(r) /\ req[r].user \in Users /\ users[req[r].user] # None
      /\ req'[r].pc = "login.session" /\ req'[r].user = req[r].user
      /\ req'[r].arg = req[r].arg
  BY <1>1, <1>2, GoesOn
<1>4. req[r].arg \in Devices /\ users[req[r].user].account_status = "active"
  BY <1>1, Known DEF LocalsOK, KnowledgeOK, ActivePCs
<1>5. /\ users' \in UsersTable /\ UsersAdvance /\ CountersKept({req[r].user})
      /\ users'[req[r].user].failed_attempts = 0 /\ ActiveIsVerified'
  BY <1>2, <1>3, Types, ResetFailedAttemptsEffect DEF AuthInv
<1>6. LocalsOK(r)' /\ KnowledgeOK(r)'
  BY <1>3, <1>4, <1>5 DEF LocalsOK, KnowledgeOK, UsersAdvance,
                    PasswordPCs, TokenPCs, MfaPCs, VerifiedPCs, ActivePCs
<1>7. LockoutEngages'
  <2>1. LockoutEngages /\ faults' = faults
    BY <1>3 DEF AuthInv, Frame
  <2>2. \A q \in Requests : q # r => req'[q] = req[q]
    BY <1>3 DEF Frame, Moves
  <2>3. ~(users'[req[r].user].failed_attempts >= LockoutThreshold)
    BY <1>5, AuthAssumption
  <2> QED BY <1>1, <1>5, <2>1, <2>2, <2>3 DEF LockoutEngages, CountersKept
<1> QED BY <1>2, <1>3, <1>5, <1>6, <1>7, LockoutQuery

(* A session that still lacks its second factor is opened. *)
LEMMA LoginSessionPreserves ==
  ASSUME AuthInv, NEW r \in Requests, LoginSession(r)
  PROVE  AuthInv'
<1>1. req[r].pc = "login.session" /\ InFlight(r) /\ req[r].pc # "done"
  BY DEF LoginSession, At, InFlight
<1>2. /\ CreateSession(r, req[r].user, "pre_mfa", req[r].arg) /\ Return(r) /\ Quiet
      /\ UNCHANGED <<users, tokens, devices, codes>>
  BY DEF LoginSession
<1>3. Frame(r) /\ LocalsOK(r)' /\ KnowledgeOK(r)' /\ req'[r].pc = "done"
  BY <1>1, <1>2, Types, Returns, ReturnEffect
<1>4. /\ req[r].user \in Users /\ users[req[r].user] # None
      /\ users[req[r].user].account_status = "active"
      /\ req[r].arg \in Devices \cup {None}
  BY <1>1, Known DEF LocalsOK, KnowledgeOK, ActivePCs
<1>5. r \in SessionIds
  BY DEF SessionIds
<1>6. /\ sessions' \in SessionsTable /\ SessionsKept({r})
      /\ sessions'[r].user = req[r].user /\ sessions'[r].state = "pre_mfa"
  BY <1>2, <1>4, <1>5, Types, CreateSessionEffect
<1>7. SessionsFine
  BY <1>1, <1>2, <1>3, <1>4, <1>6 DEF SessionsFine, SessionsKept
<1> QED BY <1>1, <1>2, <1>3, <1>6, <1>7, SessionsQuery

(* A valid session is found; what the handler remembers of it is its owner. *)
LEMMA VerifyMfaPreserves ==
  ASSUME AuthInv, NEW r \in Requests, NEW s \in SessionIds, NEW c \in Secrets, NEW op, NEW state,
         VerifyMfa(r, op, state, s, c)
  PROVE  AuthInv'
<1>1. Receive(r, op) /\ UNCHANGED tables /\ ipHits' \in [Devices -> Nat]
  BY Types DEF VerifyMfa
<1>2. CASE Return(r)
  BY <1>1, <1>2, CallPreserves
<1>3. CASE /\ ValidSession(s, state)
           /\ Suspend(r, "mfa.user", sessions[s].user, s, c, sessions[s].device)
  <2>1. sessions[s] # None
    BY <1>3 DEF ValidSession
  <2>2. sessions[s].user \in Users /\ sessions[s].device \in Devices \cup {None}
    BY <2>1, Types, SessionFields
  <2>3. /\ users'[sessions[s].user] # None
        /\ users'[sessions[s].user].account_status = "active"
        /\ s \in Requests => req[s].pc = "done"
    BY <1>1, <2>1 DEF AuthInv, RowsOK, tables
  <2>4. /\ "mfa.user" \in PCs
        /\ s \in Requests \cup Users \cup {None}
    BY DEF PCs, SessionIds
  <2>5. /\ c \in Passwords \cup Devices \cup Nat \cup Users \cup {None}
        /\ sessions[s].device \in Passwords \cup Devices \cup {None}
    BY <2>2, AuthAssumption DEF Secrets
  <2>6. /\ Moves(r) /\ req'[r].pc = "mfa.user" /\ req'[r].user = sessions[s].user
        /\ req'[r].ref = s /\ req'[r].arg = c /\ req'[r].aux = sessions[s].device
    <3>1. req \in [Requests -> Handler]
      BY Types
    <3> DEFINE owner == sessions[s].user
               device == sessions[s].device
    <3>2. Suspend(r, "mfa.user", owner, s, c, device)
      BY <1>3
    <3>3. /\ owner \in Users /\ s \in Requests \cup Users \cup {None} /\ "mfa.user" \in PCs
          /\ c \in Passwords \cup Devices \cup Nat \cup Users \cup {None}
          /\ device \in Passwords \cup Devices \cup {None}
      BY <2>2, <2>4, <2>5
    <3> HIDE DEF owner, device
    <3>4. /\ Moves(r) /\ req'[r].pc = "mfa.user" /\ req'[r].user = owner
          /\ req'[r].ref = s /\ req'[r].arg = c /\ req'[r].aux = device
      BY <3>1, <3>2, <3>3, SuspendEffect
    <3> QED BY <3>4 DEF owner, device
  <2>7. req[r].pc = "new"
    BY <1>1, <2>4, <2>6, CallFrame
  <2>8. LocalsOK(r)' /\ KnowledgeOK(r)'
    BY <1>1, <2>1, <2>2, <2>3, <2>5, <2>6, <2>7
    DEF LocalsOK, KnowledgeOK, PasswordPCs, TokenPCs, MfaPCs, VerifiedPCs, ActivePCs, Moves, tables
  <2> QED BY <1>1, <2>4, <2>6, <2>8, CallPreserves
<1> QED BY <1>2, <1>3 DEF VerifyMfa

(* A code that is right goes on with a user who has a secret. *)
LEMMA MfaCheckPreserves ==
  ASSUME AuthInv, NEW r \in Requests, MfaCheck(r)
  PROVE  AuthInv'
<1>1. req[r].pc = "mfa.user" /\ InFlight(r) /\ "mfa.elevate" \in Awaits
  BY DEF MfaCheck, At, InFlight, Awaits, PCs
<1>2. UNCHANGED tables /\ Quiet
  BY DEF MfaCheck
<1>3. CASE users[req[r].user].mfa_secret # None /\ Goto(r, "mfa.elevate")
  <2>1. /\ Frame(r) /\ req[r].user \in Users /\ users[req[r].user] # None
        /\ req'[r].pc = "mfa.elevate" /\ req'[r].user = req[r].user
        /\ req'[r].ref = req[r].ref /\ req'[r].aux = req[r].aux
    BY <1>1, <1>2, <1>3, GoesOn
  <2>2. LocalsOK(r) /\ KnowledgeOK(r)
    BY Known
  <2>3. LocalsOK(r)'
    BY <1>1, <1>2, <2>1, <2>2
    DEF LocalsOK, PasswordPCs, TokenPCs, MfaPCs, tables
  <2>4. KnowledgeOK(r)'
    BY <1>1, <1>2, <1>3, <2>1, <2>2
    DEF KnowledgeOK, MfaPCs, VerifiedPCs, ActivePCs, tables, Frame, Moves
  <2> QED BY <1>1, <1>2, <2>1, <2>3, <2>4, NoQuery
<1>4. CASE Return(r)
  BY <1>1, <1>2, <1>4, Returns, NoQuery
<1> QED BY <1>3, <1>4 DEF MfaCheck

(* The session, if it is still there, is elevated: its owner has a secret. *)
LEMMA MfaElevatePreserves ==
  ASSUME AuthInv, NEW r \in Requests, MfaElevate(r)
  PROVE  AuthInv'
<1>1. req[r].pc = "mfa.elevate" /\ InFlight(r) /\ "mfa.device" \in Awaits
  BY DEF MfaElevate, At, InFlight, Awaits, PCs
<1>2. /\ UpdateState(req[r].ref, "authenticated") /\ Goto(r, "mfa.device") /\ Quiet
      /\ UNCHANGED <<users, tokens, devices, codes>>
  BY DEF MfaElevate
<1>3. /\ Frame(r) /\ req[r].user \in Users /\ users[req[r].user] # None
      /\ req'[r].pc = "mfa.device" /\ req'[r].user = req[r].user
      /\ req'[r].ref = req[r].ref /\ req'[r].aux = req[r].aux
  BY <1>1, <1>2, GoesOn
<1>4. LocalsOK(r) /\ KnowledgeOK(r)
  BY Known
<1>5. /\ req[r].ref \in SessionIds
      /\ sessions[req[r].ref] # None => sessions[req[r].ref].user = req[r].user
      /\ users[req[r].user].mfa_secret # None
  BY <1>1, <1>4 DEF LocalsOK, KnowledgeOK, MfaPCs
<1>6. /\ sessions' \in SessionsTable /\ SessionsKept({req[r].ref})
      /\ sessions'[req[r].ref] # None =>
           /\ sessions[req[r].ref] # None
           /\ sessions'[req[r].ref].user = sessions[req[r].ref].user
  BY <1>2, <1>5, Types, UpdateStateEffect
<1>7. SessionsFine
  BY <1>2, <1>5, <1>6 DEF SessionsFine, SessionsKept
<1>8. LocalsOK(r)'
  BY <1>1, <1>2, <1>3, <1>4 DEF LocalsOK, PasswordPCs, TokenPCs, MfaPCs
<1>9. KnowledgeOK(r)'
  BY <1>1, <1>2, <1>3, <1>4, <1>5, <1>6
  DEF KnowledgeOK, MfaPCs, VerifiedPCs, ActivePCs, Frame, Moves
<1> QED BY <1>1, <1>2, <1>3, <1>6, <1>7, <1>8, <1>9, SessionsQuery

(* A known device ends the handler, an unknown one is inserted. *)
LEMMA DeviceLookupPreserves ==
  ASSUME AuthInv, NEW r \in Requests, DeviceLookup(r)
  PROVE  AuthInv'
<1>1. req[r].pc = "mfa.device" /\ InFlight(r) /\ "mfa.insert" \in Awaits
  BY DEF DeviceLookup, At, InFlight, Awaits, PCs
<1>2. UNCHANGED tables /\ Quiet
  BY DEF DeviceLookup
<1>3. CASE Goto(r, "mfa.insert")
  <2>1. /\ Frame(r) /\ req[r].user \in Users /\ users[req[r].user] # None
        /\ req'[r].pc = "mfa.insert" /\ req'[r].user = req[r].user
        /\ req'[r].ref = req[r].ref /\ req'[r].aux = req[r].aux
    BY <1>1, <1>2, <1>3, GoesOn
  <2>2. LocalsOK(r) /\ KnowledgeOK(r)
    BY Known
  <2>3. LocalsOK(r)'
    BY <1>1, <1>2, <2>1, <2>2
    DEF LocalsOK, PasswordPCs, TokenPCs, MfaPCs, tables
  <2>4. KnowledgeOK(r)'
    BY <1>1, <1>2, <2>1, <2>2
    DEF KnowledgeOK, MfaPCs, VerifiedPCs, ActivePCs, tables, Frame, Moves
  <2> QED BY <1>1, <1>2, <2>1, <2>3, <2>4, NoQuery
<1>4. CASE Return(r)
  BY <1>1, <1>2, <1>4, Returns, NoQuery
<1> QED BY <1>3, <1>4 DEF DeviceLookup

(* The device is inserted. *)
LEMMA DeviceInsertPreserves ==
  ASSUME AuthInv, NEW r \in Requests, DeviceInsert(r)
  PROVE  AuthInv'
<1>1. req[r].pc = "mfa.insert" /\ InFlight(r)
  BY DEF DeviceInsert, At, InFlight
<1>2. /\ InsertDevice(req[r].user, req[r].aux) /\ Return(r) /\ Quiet
      /\ UNCHANGED <<users, tokens, sessions, codes>>
  BY DEF DeviceInsert
<1>3. Frame(r) /\ LocalsOK(r)' /\ KnowledgeOK(r)'
  BY <1>1, <1>2, Returns
<1>4. req[r].user \in Users /\ req[r].aux \in Devices \cup {None}
  BY <1>1, Known DEF LocalsOK, MfaPCs
<1>5. devices' \in [Users -> [Devices \cup {None} -> Nat]] /\ codes' \in [Users -> Nat]
  BY <1>2, <1>4, Types, InsertDeviceEffect
<1> QED BY <1>1, <1>2, <1>3, <1>5, DevicesQuery

(* The bookkeeping fails; with a failure, no lockout is promised. *)
LEMMA DeviceFailsPreserves ==
  ASSUME AuthInv, NEW r \in Requests, DeviceFails(r)
  PROVE  AuthInv'
<1>1. /\ InFlight(r) /\ Return(r) /\ UNCHANGED <<tables, arrived, lapses, ipHits, job>>
      /\ faults < MaxFaults /\ faults' = faults + 1
      /\ req[r].pc \notin {"new", "done"}
  BY DEF DeviceFails, At, InFlight
<1>2. Moves(r) /\ req'[r].pc = "done"
  BY <1>1, Types, ReturnEffect
<1>3. /\ TablesOK' /\ UsersAdvance /\ TokensFine /\ NoVerification /\ SessionsFine
      /\ ActiveIsVerified'
  <2>1. UNCHANGED <<users, tokens, sessions, devices, codes>>
    BY <1>1 DEF tables
  <2> QED BY <2>1, Types, NoUserChange, TokensUnchanged, NoTokenChange, SessionsUnchanged,
             NoSessionChange DEF TablesOK, UsersTable, TokensTable, SessionsTable
<1>4. LockoutEngages'
  <2>1. faults' # 0
    BY <1>1, Types
  <2> QED BY <2>1 DEF LockoutEngages
<1>5. ArrivalsOK'
  <2>1. ArrivalsOK /\ arrived' = arrived
    BY <1>1 DEF AuthInv
  <2> QED BY <1>1, <1>2, <2>1 DEF ArrivalsOK, Moves
<1>6. RequestsOK'
  BY <1>1, <1>2, Types, AuthAssumption DEF RequestsOK, Moves
<1>7. LocalsOK(r)' /\ KnowledgeOK(r)'
  BY <1>2, IdleHandler
<1>8. OneRegistrar' /\ OneVerificationToken'
  BY <1>2, <1>3, RegistrarPreserved DEF Moves
<1> QED BY <1>2, <1>3, <1>4, <1>5, <1>6, <1>7, <1>8, Preserves DEF TypeOK, Moves

(* Every call and step of SignIn. *)
LEMMA SignInPreserves ==
  ASSUME AuthInv, NEW r \in Requests, SignInCalls(r) \/ SignInSteps(r) \/ DeviceFails(r)
  PROVE  AuthInv'
BY LoginPreserves, LoginIncrementPreserves, LoginRereadPreserves, LoginLockPreserves,
   LoginResetPreserves, LoginSessionPreserves, VerifyMfaPreserves, MfaCheckPreserves,
   MfaElevatePreserves, DeviceLookupPreserves, DeviceInsertPreserves, DeviceFailsPreserves
DEF SignInCalls, SignInSteps, VerifyMfaSetup, VerifyMfaDb

-----------------------------------------------------------------------------
(* Password recovery *)

(* The user of a reset exists. *)
LEMMA ForgotPasswordPreserves ==
  ASSUME AuthInv, NEW r \in Requests, NEW u \in Users, ForgotPassword(r, u)
  PROVE  AuthInv'
<1>1. Receive(r, "forgotPassword") /\ UNCHANGED tables /\ ipHits' \in [Devices -> Nat]
  BY Types DEF ForgotPassword
<1>2. CASE Return(r)
  BY <1>1, <1>2, CallPreserves
<1>3. CASE users[u] # None /\ Suspend(r, "forgot.token", u, None, None, None)
  <2>1. "forgot.token" \in PCs /\ req \in [Requests -> Handler]
    BY Types DEF PCs
  <2>2. Moves(r) /\ req'[r].pc = "forgot.token" /\ req'[r].user = u
    BY <1>3, <2>1, SuspendEffect
  <2>3. users'[u] # None
    BY <1>1, <1>3 DEF tables
  <2>4. LocalsOK(r)' /\ KnowledgeOK(r)'
    BY <2>2, <2>3
    DEF LocalsOK, KnowledgeOK, PasswordPCs, TokenPCs, MfaPCs, VerifiedPCs, ActivePCs
  <2> QED BY <1>1, <2>2, <2>4, CallPreserves
<1> QED BY <1>2, <1>3 DEF ForgotPassword

(* A reset token is created. *)
LEMMA ForgotTokenPreserves ==
  ASSUME AuthInv, NEW r \in Requests, ForgotToken(r)
  PROVE  AuthInv'
<1>1. /\ req[r].pc = "forgot.token" /\ InFlight(r)
      /\ "forgot.email" \in Awaits /\ "password_reset" \in TokenTypes
  BY DEF ForgotToken, At, InFlight, Awaits, PCs, TokenTypes
<1>2. /\ CreateToken(r, req[r].user, "password_reset", FALSE)
      /\ Goto(r, "forgot.email") /\ Quiet
      /\ UNCHANGED <<users, sessions, devices, codes>>
  BY DEF ForgotToken
<1>3. /\ Frame(r) /\ req[r].user \in Users /\ users[req[r].user] # None
      /\ req'[r].pc = "forgot.email" /\ req'[r].user = req[r].user
  BY <1>1, <1>2, GoesOn
<1>4. /\ tokens' \in TokensTable /\ TokensKept({r})
      /\ tokens'[r].user = req[r].user /\ tokens'[r].type = "password_reset"
  BY <1>1, <1>2, <1>3, Types, CreateTokenEffect
<1>5. TokensFine /\ NoVerification
  BY <1>2, <1>3, <1>4 DEF TokensFine, TokensKept, NoVerification, VerificationToken
<1>6. LocalsOK(r)' /\ KnowledgeOK(r)'
  BY <1>2, <1>3 DEF LocalsOK, KnowledgeOK, PasswordPCs, TokenPCs, MfaPCs, VerifiedPCs, ActivePCs
<1> QED BY <1>1, <1>2, <1>3, <1>4, <1>5, <1>6, TokensQuery

(* It is delivered. *)
LEMMA ForgotEmailPreserves ==
  ASSUME AuthInv, NEW r \in Requests, ForgotEmail(r)
  PROVE  AuthInv'
<1>1. req[r].pc = "forgot.email" /\ InFlight(r)
  BY DEF ForgotEmail, At, InFlight
<1>2. DeliverToken(r) /\ Return(r) /\ Quiet /\ UNCHANGED <<users, sessions, devices, codes>>
  BY DEF ForgotEmail
<1>3. tokens' \in TokensTable /\ TokensFine /\ NoVerification
  BY <1>2, Types, DeliverTokenEffect, NoTokenChange
<1> QED BY <1>1, <1>2, <1>3, Returns, TokensQuery

(* A valid reset token is found. *)
LEMMA ResetPasswordPreserves ==
  ASSUME AuthInv, NEW r \in Requests, NEW t \in Requests, NEW p \in Passwords, ResetPassword(r, t, p)
  PROVE  AuthInv'
<1>1. Receive(r, "resetPassword") /\ UNCHANGED tables /\ ipHits' \in [Devices -> Nat]
  BY Types DEF ResetPassword
<1>2. CASE Return(r)
  BY <1>1, <1>2, CallPreserves
<1>3. CASE /\ ValidToken(t, "password_reset")
           /\ Suspend(r, "reset.consume", tokens[t].user, t, p, None)
  <2>1. tokens[t] # None /\ tokens[t].type = "password_reset"
    BY <1>3 DEF ValidToken
  <2>2. tokens[t].user \in Users
    BY <2>1, Types, TokenFields
  <2>3. /\ users'[tokens[t].user] # None
        /\ tokens[t].type = "password_setup" => users'[tokens[t].user].email_verified
    BY <1>1, <2>1 DEF AuthInv, RowsOK, tables
  <2>4. "reset.consume" \in PCs
    BY DEF PCs
  <2>5. /\ Moves(r) /\ req'[r].pc = "reset.consume" /\ req'[r].user = tokens[t].user
        /\ req'[r].ref = t /\ req'[r].arg = p
    BY <1>3, <2>2, <2>4, Types, SuspendEffect
  <2>6. LocalsOK(r)' /\ KnowledgeOK(r)'
    BY <2>1, <2>2, <2>3, <2>5
    DEF LocalsOK, KnowledgeOK, PasswordPCs, TokenPCs, MfaPCs, VerifiedPCs, ActivePCs
  <2> QED BY <1>1, <2>5, <2>6, CallPreserves
<1> QED BY <1>2, <1>3 DEF ResetPassword

(* The reset token is consumed. *)
LEMMA ResetConsumePreserves ==
  ASSUME AuthInv, NEW r \in Requests, ResetConsume(r)
  PROVE  AuthInv'
<1>1. req[r].pc = "reset.consume" /\ InFlight(r) /\ "reset.update" \in Awaits
  BY DEF ResetConsume, At, InFlight, Awaits, PCs
<1>2. Consume(req[r].ref) /\ Goto(r, "reset.update") /\ Quiet
      /\ UNCHANGED <<users, sessions, devices, codes>>
  BY DEF ResetConsume
<1>3. /\ Frame(r) /\ req[r].user \in Users /\ users[req[r].user] # None
      /\ req'[r].pc = "reset.update" /\ req'[r].user = req[r].user
      /\ req'[r].ref = req[r].ref /\ req'[r].arg = req[r].arg /\ req'[r].aux = req[r].aux
  BY <1>1, <1>2, GoesOn
<1>4. req[r].ref \in Requests /\ req[r].arg \in Passwords
  BY <1>1, Known DEF LocalsOK, KnowledgeOK, PasswordPCs, TokenPCs, MfaPCs, VerifiedPCs, ActivePCs
<1>5. tokens' \in TokensTable /\ TokensFine /\ NoVerification
  BY <1>2, <1>3, <1>4, Types, ConsumeEffect, NoTokenChange
<1>6. LocalsOK(r)' /\ KnowledgeOK(r)'
  BY <1>2, <1>3, <1>4, <1>5
  DEF LocalsOK, KnowledgeOK, PasswordPCs, TokenPCs, MfaPCs, VerifiedPCs, ActivePCs
<1> QED BY <1>1, <1>2, <1>3, <1>5, <1>6, TokensQuery

(* The password is replaced. *)
LEMMA ResetUpdatePreserves ==
  ASSUME AuthInv, NEW r \in Requests, ResetUpdate(r)
  PROVE  AuthInv'
<1>1. req[r].pc = "reset.update" /\ InFlight(r) /\ "reset.revoke" \in Awaits
  BY DEF ResetUpdate, At, InFlight, Awaits, PCs
<1>2. UpdatePassword(req[r].user, req[r].arg) /\ Goto(r, "reset.revoke") /\ Quiet
      /\ UNCHANGED <<tokens, sessions, devices, codes>>
  BY DEF ResetUpdate
<1>3. /\ Frame(r) /\ req[r].user \in Users /\ users[req[r].user] # None
      /\ req'[r].pc = "reset.revoke" /\ req'[r].user = req[r].user
      /\ req'[r].ref = req[r].ref /\ req'[r].arg = req[r].arg /\ req'[r].aux = req[r].aux
  BY <1>1, <1>2, GoesOn
<1>4. req[r].arg \in Passwords
  BY <1>1, Known DEF LocalsOK, KnowledgeOK, PasswordPCs, TokenPCs, MfaPCs, VerifiedPCs, ActivePCs
<1>5. users' \in UsersTable /\ UsersAdvance /\ CountersKept({}) /\ ActiveIsVerified'
  BY <1>2, <1>3, <1>4, Types, UpdatePasswordEffect DEF AuthInv
<1>6. LocalsOK(r)' /\ KnowledgeOK(r)'
  BY <1>2, <1>3, <1>4, <1>5
  DEF LocalsOK, KnowledgeOK, PasswordPCs, TokenPCs, MfaPCs, VerifiedPCs, ActivePCs, UsersAdvance
<1> QED BY <1>1, <1>2, <1>3, <1>5, <1>6, UsersQuery

(* The sessions of the user are deleted. *)
LEMMA ResetRevokePreserves ==
  ASSUME AuthInv, NEW r \in Requests, ResetRevoke(r)
  PROVE  AuthInv'
<1>1. req[r].pc = "reset.revoke" /\ InFlight(r)
  BY DEF ResetRevoke, At, InFlight
<1>2. DeleteSessions(OwnedBy(req[r].user)) /\ Return(r) /\ Quiet
      /\ UNCHANGED <<users, tokens, devices, codes>>
  BY DEF ResetRevoke
<1>3. Frame(r) /\ LocalsOK(r)' /\ KnowledgeOK(r)'
  BY <1>1, <1>2, Returns
<1>4. req[r].user \in Users
  BY <1>1, Known DEF LocalsOK, KnowledgeOK, InFlight, PasswordPCs, TokenPCs, MfaPCs, VerifiedPCs, ActivePCs
<1>5. sessions' \in SessionsTable /\ SessionsFine
  BY <1>2, Types, DeleteSessionsEffect, NoSessionChange
<1> QED BY <1>1, <1>2, <1>3, <1>4, <1>5, SessionsQuery

(* An authenticated session is found. *)
LEMMA ChangePasswordPreserves ==
  ASSUME AuthInv, NEW r \in Requests, NEW s \in SessionIds, NEW current \in Passwords, NEW new \in Passwords,
         ChangePassword(r, s, current, new)
  PROVE  AuthInv'
<1>1. Receive(r, "changePassword") /\ UNCHANGED tables /\ ipHits' \in [Devices -> Nat]
  BY Types DEF ChangePassword
<1>2. CASE Return(r)
  BY <1>1, <1>2, CallPreserves
<1>3. CASE /\ ValidSession(s, "authenticated")
           /\ Suspend(r, "change.user", sessions[s].user, s, current, new)
  <2>1. sessions[s] # None
    BY <1>3 DEF ValidSession
  <2>2. sessions[s].user \in Users /\ sessions[s].device \in Devices \cup {None}
    BY <2>1, Types, SessionFields
  <2>3. /\ users'[sessions[s].user] # None
        /\ users'[sessions[s].user].account_status = "active"
        /\ s \in Requests => req[s].pc = "done"
    BY <1>1, <2>1 DEF AuthInv, RowsOK, tables
  <2>4. /\ "change.user" \in PCs
        /\ s \in Requests \cup Users \cup {None}
    BY DEF PCs, SessionIds
  <2>5. /\ current \in Passwords \cup Devices \cup Nat \cup Users \cup {None}
        /\ new \in Passwords \cup Devices \cup {None}
    BY <2>2
  <2>6. /\ Moves(r) /\ req'[r].pc = "change.user" /\ req'[r].user = sessions[s].user
        /\ req'[r].ref = s /\ req'[r].arg = current /\ req'[r].aux = new
    <3>1. req \in [Requests -> Handler]
      BY Types
    <3> DEFINE owner == sessions[s].user
    <3>2. Suspend(r, "change.user", owner, s, current, new)
      BY <1>3
    <3>3. /\ owner \in Users /\ s \in Requests \cup Users \cup {None} /\ "change.user" \in PCs
          /\ current \in Passwords \cup Devices \cup Nat \cup Users \cup {None}
          /\ new \in Passwords \cup Devices \cup {None}
      BY <2>2, <2>4, <2>5
    <3> HIDE DEF owner
    <3>4. /\ Moves(r) /\ req'[r].pc = "change.user" /\ req'[r].user = owner
          /\ req'[r].ref = s /\ req'[r].arg = current /\ req'[r].aux = new
      BY <3>1, <3>2, <3>3, SuspendEffect
    <3> QED BY <3>4 DEF owner
  <2>7. req[r].pc = "new"
    BY <1>1, <2>4, <2>6, CallFrame
  <2>8. LocalsOK(r)' /\ KnowledgeOK(r)'
    BY <1>1, <2>1, <2>2, <2>3, <2>5, <2>6, <2>7
    DEF LocalsOK, KnowledgeOK, PasswordPCs, TokenPCs, MfaPCs, VerifiedPCs, ActivePCs, Moves, tables
  <2> QED BY <1>1, <2>4, <2>6, <2>8, CallPreserves
<1> QED BY <1>2, <1>3 DEF ChangePassword

(* The current password is right, or the handler returns. *)
LEMMA ChangeCheckPreserves ==
  ASSUME AuthInv, NEW r \in Requests, ChangeCheck(r)
  PROVE  AuthInv'
<1>1. req[r].pc = "change.user" /\ InFlight(r) /\ "change.update" \in Awaits
  BY DEF ChangeCheck, At, InFlight, Awaits, PCs
<1>2. UNCHANGED tables /\ Quiet
  BY DEF ChangeCheck
<1>3. CASE Goto(r, "change.update")
  <2>1. /\ Frame(r) /\ req[r].user \in Users /\ users[req[r].user] # None
        /\ req'[r].pc = "change.update" /\ req'[r].user = req[r].user
        /\ req'[r].aux = req[r].aux
    BY <1>1, <1>2, <1>3, GoesOn
  <2>2. req[r].aux \in Passwords /\ users' = users
    BY <1>1, <1>2, Known DEF LocalsOK, tables
  <2>3. LocalsOK(r)' /\ KnowledgeOK(r)'
    BY <2>1, <2>2
    DEF LocalsOK, KnowledgeOK, PasswordPCs, TokenPCs, MfaPCs, VerifiedPCs, ActivePCs
  <2> QED BY <1>1, <1>2, <2>1, <2>3, NoQuery
<1>4. CASE Return(r)
  BY <1>1, <1>2, <1>4, Returns, NoQuery
<1> QED BY <1>3, <1>4 DEF ChangeCheck

(* The password is replaced. *)
LEMMA ChangeUpdatePreserves ==
  ASSUME AuthInv, NEW r \in Requests, ChangeUpdate(r)
  PROVE  AuthInv'
<1>1. req[r].pc = "change.update" /\ InFlight(r)
  BY DEF ChangeUpdate, At, InFlight
<1>2. UpdatePassword(req[r].user, req[r].aux) /\ Return(r) /\ Quiet
      /\ UNCHANGED <<tokens, sessions, devices, codes>>
  BY DEF ChangeUpdate
<1>3. Frame(r) /\ LocalsOK(r)' /\ KnowledgeOK(r)'
  BY <1>1, <1>2, Returns
<1>4. req[r].user \in Users /\ users[req[r].user] # None /\ req[r].aux \in Passwords
  BY <1>1, Known DEF LocalsOK, KnowledgeOK, InFlight, PasswordPCs, TokenPCs, MfaPCs, VerifiedPCs, ActivePCs
<1>5. users' \in UsersTable /\ UsersAdvance /\ CountersKept({}) /\ ActiveIsVerified'
  BY <1>2, <1>4, Types, UpdatePasswordEffect DEF AuthInv
<1> QED BY <1>1, <1>2, <1>3, <1>4, <1>5, UsersQuery

(* Every call and step of PasswordRecovery. *)
LEMMA PasswordPreserves ==
  ASSUME AuthInv, NEW r \in Requests, PasswordCalls(r) \/ PasswordSteps(r)
  PROVE  AuthInv'
BY ForgotPasswordPreserves, ForgotTokenPreserves, ForgotEmailPreserves,
   ResetPasswordPreserves, ResetConsumePreserves, ResetUpdatePreserves,
   ResetRevokePreserves, ChangePasswordPreserves, ChangeCheckPreserves, ChangeUpdatePreserves
DEF PasswordCalls, PasswordSteps

-----------------------------------------------------------------------------
(* Session administration *)

(* A session is deleted at once. *)
LEMMA LogoutPreserves ==
  ASSUME AuthInv, NEW r \in Requests, NEW s \in SessionIds, Logout(r, s)
  PROVE  AuthInv'
<1>1. /\ Receive(r, "logout") /\ DeleteSessions({s}) /\ Return(r)
      /\ UNCHANGED <<users, tokens, devices, codes>> /\ ipHits' \in [Devices -> Nat]
  BY Types DEF Logout
<1>2. Frame(r) /\ LocalsOK(r)' /\ KnowledgeOK(r)' /\ req[r].pc = "new"
  BY <1>1, CallReturns
<1>3. sessions' \in SessionsTable /\ SessionsFine
  BY <1>1, Types, DeleteSessionsEffect, NoSessionChange
<1> QED BY <1>1, <1>2, <1>3, SessionsQuery

(* An authenticated session is found. *)
LEMMA RevokeSessionPreserves ==
  ASSUME AuthInv, NEW r \in Requests, NEW s \in SessionIds, NEW target \in SessionIds,
         RevokeSession(r, s, target)
  PROVE  AuthInv'
<1>1. Receive(r, "revokeSession") /\ UNCHANGED tables /\ ipHits' \in [Devices -> Nat]
  BY Types DEF RevokeSession
<1>2. CASE Return(r)
  BY <1>1, <1>2, CallPreserves
<1>3. CASE /\ ValidSession(s, "authenticated")
           /\ Suspend(r, "revoke.delete", sessions[s].user, s, target, None)
  <2>1. sessions[s] # None
    BY <1>3 DEF ValidSession
  <2>2. sessions[s].user \in Users /\ sessions[s].device \in Devices \cup {None}
    BY <2>1, Types, SessionFields
  <2>3. /\ users'[sessions[s].user] # None
        /\ users'[sessions[s].user].account_status = "active"
        /\ s \in Requests => req[s].pc = "done"
    BY <1>1, <2>1 DEF AuthInv, RowsOK, tables
  <2>4. /\ "revoke.delete" \in PCs
        /\ s \in Requests \cup Users \cup {None}
    BY DEF PCs, SessionIds
  <2>5. /\ target \in Passwords \cup Devices \cup Nat \cup Users \cup {None}
        /\ None \in Passwords \cup Devices \cup {None}
    BY AuthAssumption DEF SessionIds, Requests
  <2>6. /\ Moves(r) /\ req'[r].pc = "revoke.delete" /\ req'[r].user = sessions[s].user
        /\ req'[r].ref = s /\ req'[r].arg = target /\ req'[r].aux = None
    <3>1. req \in [Requests -> Handler]
      BY Types
    <3> QED BY <1>3, <2>2, <2>4, <2>5, <3>1, SuspendEffect
  <2>7. req[r].pc = "new"
    BY <1>1, <2>4, <2>6, CallFrame
  <2>8. LocalsOK(r)' /\ KnowledgeOK(r)'
    BY <1>1, <2>1, <2>2, <2>3, <2>5, <2>6, <2>7
    DEF LocalsOK, KnowledgeOK, PasswordPCs, TokenPCs, MfaPCs, VerifiedPCs, ActivePCs, Moves, tables
  <2> QED BY <1>1, <2>4, <2>6, <2>8, CallPreserves
<1> QED BY <1>2, <1>3 DEF RevokeSession

(* The target is deleted if it is owned. *)
LEMMA RevokeDeletePreserves ==
  ASSUME AuthInv, NEW r \in Requests, RevokeDelete(r)
  PROVE  AuthInv'
<1>1. req[r].pc = "revoke.delete" /\ InFlight(r)
  BY DEF RevokeDelete, At, InFlight
<1>2. DeleteSessions(OwnedBy(req[r].user) \cap {req[r].arg}) /\ Return(r) /\ Quiet
      /\ UNCHANGED <<users, tokens, devices, codes>>
  BY DEF RevokeDelete
<1>3. Frame(r) /\ LocalsOK(r)' /\ KnowledgeOK(r)'
  BY <1>1, <1>2, Returns
<1>4. req[r].user \in Users
  BY <1>1, Known DEF LocalsOK, KnowledgeOK, InFlight, PasswordPCs, TokenPCs, MfaPCs, VerifiedPCs, ActivePCs
<1>5. sessions' \in SessionsTable /\ SessionsFine
  BY <1>2, Types, DeleteSessionsEffect, NoSessionChange
<1> QED BY <1>1, <1>2, <1>3, <1>4, <1>5, SessionsQuery

(* An authenticated session is found. *)
LEMMA RevokeAllOthersPreserves ==
  ASSUME AuthInv, NEW r \in Requests, NEW s \in SessionIds,
         RevokeAllOthers(r, s)
  PROVE  AuthInv'
<1>1. Receive(r, "revokeAllOtherSessions") /\ UNCHANGED tables /\ ipHits' \in [Devices -> Nat]
  BY Types DEF RevokeAllOthers
<1>2. CASE Return(r)
  BY <1>1, <1>2, CallPreserves
<1>3. CASE /\ ValidSession(s, "authenticated")
           /\ Suspend(r, "revokeAll.delete", sessions[s].user, s, None, None)
  <2>1. sessions[s] # None
    BY <1>3 DEF ValidSession
  <2>2. sessions[s].user \in Users /\ sessions[s].device \in Devices \cup {None}
    BY <2>1, Types, SessionFields
  <2>3. /\ users'[sessions[s].user] # None
        /\ users'[sessions[s].user].account_status = "active"
        /\ s \in Requests => req[s].pc = "done"
    BY <1>1, <2>1 DEF AuthInv, RowsOK, tables
  <2>4. /\ "revokeAll.delete" \in PCs
        /\ s \in Requests \cup Users \cup {None}
    BY DEF PCs, SessionIds
  <2>5. /\ None \in Passwords \cup Devices \cup Nat \cup Users \cup {None}
        /\ None \in Passwords \cup Devices \cup {None}
    BY <2>2
  <2>6. /\ Moves(r) /\ req'[r].pc = "revokeAll.delete" /\ req'[r].user = sessions[s].user
        /\ req'[r].ref = s /\ req'[r].arg = None /\ req'[r].aux = None
    <3>1. req \in [Requests -> Handler]
      BY Types
    <3> QED BY <1>3, <2>2, <2>4, <2>5, <3>1, SuspendEffect
  <2>7. req[r].pc = "new"
    BY <1>1, <2>4, <2>6, CallFrame
  <2>8. LocalsOK(r)' /\ KnowledgeOK(r)'
    BY <1>1, <2>1, <2>2, <2>3, <2>5, <2>6, <2>7
    DEF LocalsOK, KnowledgeOK, PasswordPCs, TokenPCs, MfaPCs, VerifiedPCs, ActivePCs, Moves, tables
  <2> QED BY <1>1, <2>4, <2>6, <2>8, CallPreserves
<1> QED BY <1>2, <1>3 DEF RevokeAllOthers

(* The other sessions of the user are deleted. *)
LEMMA RevokeAllDeletePreserves ==
  ASSUME AuthInv, NEW r \in Requests, RevokeAllDelete(r)
  PROVE  AuthInv'
<1>1. req[r].pc = "revokeAll.delete" /\ InFlight(r)
  BY DEF RevokeAllDelete, At, InFlight
<1>2. DeleteSessions(OwnedBy(req[r].user) \ {req[r].ref}) /\ Return(r) /\ Quiet
      /\ UNCHANGED <<users, tokens, devices, codes>>
  BY DEF RevokeAllDelete
<1>3. Frame(r) /\ LocalsOK(r)' /\ KnowledgeOK(r)'
  BY <1>1, <1>2, Returns
<1>4. req[r].user \in Users
  BY <1>1, Known DEF LocalsOK, KnowledgeOK, InFlight, PasswordPCs, TokenPCs, MfaPCs, VerifiedPCs, ActivePCs
<1>5. sessions' \in SessionsTable /\ SessionsFine
  BY <1>2, Types, DeleteSessionsEffect, NoSessionChange
<1> QED BY <1>1, <1>2, <1>3, <1>4, <1>5, SessionsQuery

(* Every call and step of SessionAdmin. *)
LEMMA SessionPreserves ==
  ASSUME AuthInv, NEW r \in Requests, SessionCalls(r) \/ SessionSteps(r)
  PROVE  AuthInv'
BY LogoutPreserves, RevokeSessionPreserves, RevokeDeletePreserves,
   RevokeAllOthersPreserves, RevokeAllDeletePreserves
DEF SessionCalls, SessionSteps

-----------------------------------------------------------------------------
(* Deadlines, the cleanup job and crashes *)

(* A step that moves no handler. *)
LEMMA BackgroundPreserves ==
  ASSUME AuthInv, req' = req, arrived' = arrived, RequestsOK', TablesOK',
         UsersAdvance, TokensKept({}), SessionsKept({}), ActiveIsVerified', LockoutEngages'
  PROVE  AuthInv'
<1>1. TokensFine /\ NoVerification /\ SessionsFine
  BY NoTokenChange, NoSessionChange
<1>2. OneRegistrar' /\ OneVerificationToken'
  BY <1>1, RegistrarPreserved
<1>3. ArrivalsOK'
  BY DEF AuthInv, ArrivalsOK
<1> QED BY <1>1, <1>2, <1>3, Preserves DEF TypeOK

(* A step that changes no table. *)
LEMMA UnchangedTables ==
  ASSUME AuthInv, UNCHANGED tables
  PROVE  TablesOK' /\ UsersAdvance /\ TokensKept({}) /\ SessionsKept({})
           /\ CountersKept({}) /\ ActiveIsVerified'
<1>1. UNCHANGED <<users, tokens, sessions, devices, codes>>
  BY DEF tables
<1> QED BY <1>1, Types, NoUserChange, TokensUnchanged, SessionsUnchanged
        DEF TablesOK, UsersTable, TokensTable, SessionsTable

(* A lock that has lapsed is still a lock that was. *)
LEMMA LockLapsesPreserves ==
  ASSUME AuthInv, NEW u \in Users, LockLapses(u), UNCHANGED <<req, faults>>
  PROVE  /\ users' \in UsersTable /\ UsersAdvance /\ ActiveIsVerified' /\ LockoutEngages'
<1>1. users[u] # None
  BY DEF LockLapses
<1>2. /\ users' \in UsersTable /\ UsersAdvance /\ CountersKept({u})
      /\ users'[u].lock # "none" /\ ActiveIsVerified'
  BY <1>1, Types, LockLapsesEffect DEF AuthInv
<1>3. LockoutEngages'
  BY <1>2 DEF AuthInv, LockoutEngages, CountersKept
<1> QED BY <1>2, <1>3

(* A deadline of some row passes. *)
LEMMA RowLapsesPreserves ==
  ASSUME AuthInv, RowLapses
  PROVE  AuthInv'
<1>1. UNCHANGED <<req, arrived, faults, ipHits, job>> /\ Tick
  BY DEF RowLapses
<1>2. RequestsOK'
  BY <1>1, Types, AuthAssumption DEF RequestsOK, Tick
<1>3. ASSUME NEW t \in Requests, TokenLapses(t)  PROVE AuthInv'
  <2>1. UNCHANGED <<users, sessions, devices, codes>>
    BY <1>3 DEF TokenLapses
  <2>2. tokens' \in TokensTable /\ TokensKept({})
    BY <1>3, Types, TokenLapsesEffect
  <2>3. /\ UsersAdvance /\ SessionsKept({}) /\ ActiveIsVerified' /\ CountersKept({})
        /\ TablesOK'
    BY <2>1, <2>2, Types, NoUserChange, SessionsUnchanged
    DEF TablesOK, UsersTable, TokensTable, SessionsTable
  <2> QED BY <1>1, <1>2, <2>2, <2>3, LockoutKept, BackgroundPreserves
<1>4. ASSUME NEW s \in SessionIds, SessionLapses(s)  PROVE AuthInv'
  <2>1. UNCHANGED <<users, tokens, devices, codes>>
    BY <1>4 DEF SessionLapses
  <2>2. sessions' \in SessionsTable /\ SessionsKept({})
    BY <1>4, Types, SessionLapsesEffect
  <2>3. /\ UsersAdvance /\ TokensKept({}) /\ ActiveIsVerified' /\ CountersKept({})
        /\ TablesOK'
    BY <2>1, <2>2, Types, NoUserChange, TokensUnchanged
    DEF TablesOK, UsersTable, TokensTable, SessionsTable
  <2> QED BY <1>1, <1>2, <2>2, <2>3, LockoutKept, BackgroundPreserves
<1>5. ASSUME NEW u \in Users, LockLapses(u)  PROVE AuthInv'
  <2>1. UNCHANGED <<tokens, sessions, devices, codes>>
    BY <1>5 DEF LockLapses
  <2>2. users' \in UsersTable /\ UsersAdvance /\ ActiveIsVerified' /\ LockoutEngages'
    BY <1>1, <1>5, LockLapsesPreserves
  <2>3. TokensKept({}) /\ SessionsKept({}) /\ TablesOK'
    BY <2>1, <2>2, Types, TokensUnchanged, SessionsUnchanged
    DEF TablesOK, UsersTable, TokensTable, SessionsTable
  <2> QED BY <1>1, <1>2, <2>2, <2>3, BackgroundPreserves
<1> QED BY <1>3, <1>4, <1>5 DEF RowLapses

(* A window of the limiter ends. *)
LEMMA IpWindowLapsesPreserves ==
  ASSUME AuthInv, NEW d \in Devices, IpWindowLapses(d)
  PROVE  AuthInv'
<1>1. UNCHANGED tables /\ UNCHANGED <<req, arrived, faults, job>> /\ Tick
  BY DEF IpWindowLapses
<1>2. ipHits' \in [Devices -> Nat]
  BY Types DEF IpWindowLapses
<1>3. RequestsOK'
  BY <1>1, <1>2, Types, AuthAssumption DEF RequestsOK, Tick
<1> QED BY <1>1, <1>3, UnchangedTables, LockoutKept, BackgroundPreserves

(* The job deletes expired rows. *)
LEMMA CleanupPreserves ==
  ASSUME AuthInv, CleanupSessions \/ CleanupTokens
  PROVE  AuthInv'
<1>1. UNCHANGED <<req, arrived, faults, lapses, ipHits>> /\ job' \in {"idle", "tokens"}
  BY DEF CleanupSessions, CleanupTokens
<1>2. RequestsOK'
  BY <1>1, Types DEF RequestsOK
<1>3. CASE DeleteExpiredSessions
  <2>1. UNCHANGED <<users, tokens, devices, codes>>
    BY <1>3 DEF DeleteExpiredSessions
  <2>2. sessions' \in SessionsTable /\ SessionsKept({})
    BY <1>3, Types, DeleteSessionsEffect DEF DeleteExpiredSessions
  <2>3. /\ UsersAdvance /\ TokensKept({}) /\ ActiveIsVerified' /\ CountersKept({})
        /\ TablesOK'
    BY <2>1, <2>2, Types, NoUserChange, TokensUnchanged
    DEF TablesOK, UsersTable, TokensTable, SessionsTable
  <2> QED BY <1>1, <1>2, <2>2, <2>3, LockoutKept, BackgroundPreserves
<1>4. CASE DeleteExpiredTokens
  <2>1. UNCHANGED <<users, sessions, devices, codes>>
    BY <1>4 DEF DeleteExpiredTokens
  <2>2. tokens' \in TokensTable /\ TokensKept({})
    BY <1>4, Types, DeleteExpiredTokensEffect
  <2>3. /\ UsersAdvance /\ SessionsKept({}) /\ ActiveIsVerified' /\ CountersKept({})
        /\ TablesOK'
    BY <2>1, <2>2, Types, NoUserChange, SessionsUnchanged
    DEF TablesOK, UsersTable, TokensTable, SessionsTable
  <2> QED BY <1>1, <1>2, <2>2, <2>3, LockoutKept, BackgroundPreserves
<1> QED BY <1>3, <1>4 DEF CleanupSessions, CleanupTokens

(* A DELETE of the job fails: nothing but the job and the count changes.   *)
LEMMA CleanupFailsPreserves ==
  ASSUME AuthInv, CleanupFails
  PROVE  AuthInv'
<1>1. /\ UNCHANGED tables /\ UNCHANGED <<req, arrived, lapses, ipHits>>
      /\ faults < MaxFaults /\ faults' = faults + 1 /\ job' \in {"idle", "tokens"}
  BY DEF CleanupFails
<1>2. RequestsOK'
  BY <1>1, Types, AuthAssumption DEF RequestsOK
<1>3. LockoutEngages'
  <2>1. faults' # 0
    BY <1>1, Types
  <2> QED BY <2>1 DEF LockoutEngages
<1> QED BY <1>1, <1>2, <1>3, UnchangedTables, BackgroundPreserves

(* A crash loses every handler; the tables stay as the queries left them.  *)
LEMMA CrashPreserves ==
  ASSUME AuthInv, Crash
  PROVE  AuthInv'
<1>1. /\ faults < MaxFaults /\ faults' = faults + 1 /\ UNCHANGED <<arrived, lapses>>
      /\ UNCHANGED tables
  BY DEF Crash
<1>2. DoneHandler \in Handler /\ DoneHandler.pc = "done"
  BY DEF DoneHandler, NewHandler, Handler, PCs
<1>3. req' \in [Requests -> Handler]
      /\ \A r \in Requests : IF InFlight(r) THEN req'[r] = DoneHandler ELSE req'[r] = req[r]
  BY <1>2, Types DEF Crash
<1>4. \A r \in Requests : (req'[r].pc = "new") <=> (req[r].pc = "new")
  BY <1>2, <1>3 DEF InFlight
<1>5. RequestsOK'
  <2>1. ipHits' \in [Devices -> Nat] /\ job' \in {"idle", "tokens"}
    BY DEF Crash
  <2> QED BY <1>1, <1>3, <2>1, Types, AuthAssumption DEF RequestsOK
<1>6. ArrivalsOK'
  BY <1>1, <1>4 DEF AuthInv, ArrivalsOK
<1>7. \A q \in Requests : req[q].pc = "done" => req'[q].pc = "done"
  BY <1>3 DEF InFlight
<1>8. ASSUME NEW q \in Requests, req'[q] # req[q]
      PROVE  LocalsOK(q)' /\ KnowledgeOK(q)'
  BY <1>2, <1>3, <1>8, IdleHandler
<1>9. LockoutEngages'
  <2>1. faults' # 0
    BY <1>1, Types
  <2> QED BY <2>1 DEF LockoutEngages
<1>10. /\ TablesOK' /\ UsersAdvance /\ TokensFine /\ NoVerification /\ SessionsFine
       /\ ActiveIsVerified'
  BY <1>1, UnchangedTables, NoTokenChange, NoSessionChange
<1>11. OneRegistrar' /\ OneVerificationToken'
  BY <1>2, <1>3, <1>10, RegistrarPreserved
<1> QED BY <1>5, <1>6, <1>7, <1>8, <1>9, <1>10, <1>11, Preserves DEF TypeOK

(* Nothing happens. *)
LEMMA StutterPreserves ==
  ASSUME AuthInv, UNCHANGED authVars
  PROVE  AuthInv'
<1>1. UNCHANGED tables /\ UNCHANGED <<req, arrived, faults, lapses, ipHits, job>>
  BY DEF authVars, process
<1>2. RequestsOK'
  BY <1>1, Types DEF RequestsOK
<1> QED BY <1>1, <1>2, UnchangedTables, LockoutKept, BackgroundPreserves

-----------------------------------------------------------------------------
(* The invariant holds at the start: only complete accounts exist.         *)
LEMMA InitInv ==
  ASSUME Init
  PROVE  AuthInv
<1>1. EnrolledRow \in UserRow /\ EnrolledRow # None
  <2>1. 0 \in Secrets
    BY AuthAssumption DEF Secrets
  <2>2. EnrolledRow \in UserRow
    BY <2>1, AuthAssumption DEF EnrolledRow, UserRow
  <2> QED BY <2>2, RowAssumption
<1>2. /\ EnrolledRow.account_status = "active" /\ EnrolledRow.email_verified
      /\ EnrolledRow.password # None /\ EnrolledRow.mfa_secret # None
      /\ EnrolledRow.failed_attempts = 0
  BY AuthAssumption DEF EnrolledRow
<1>3. /\ users \in UsersTable
      /\ \A u \in Users : users[u] # None => users[u] = EnrolledRow
      /\ \A u \in Enrolled : u \in Users /\ users[u] = EnrolledRow
  BY <1>1, AuthAssumption DEF Init, TablesInit, UsersTable
<1>4. /\ tokens \in TokensTable
      /\ \A t \in Requests : tokens[t] = None
  BY DEF Init, TablesInit, TokensTable
<1>5. ASSUME NEW s \in SignedIn
      PROVE  [user |-> s, state |-> "authenticated", device |-> None, lapsed |-> FALSE]
               \in SessionRow
  BY <1>5, AuthAssumption DEF SessionRow
<1>6. SignedIn \subseteq Users /\ SignedIn \subseteq Enrolled /\ SignedIn \cap Requests = {}
  BY AuthAssumption DEF Requests
<1>7. /\ sessions \in SessionsTable
      /\ \A s \in SessionIds : sessions[s] # None => s \in SignedIn /\ sessions[s].user = s
  BY <1>5 DEF Init, TablesInit, SessionsTable
<1>8. /\ devices \in [Users -> [Devices \cup {None} -> Nat]]
      /\ codes \in [Users -> Nat]
  BY AuthAssumption DEF Init, TablesInit
<1>9. NewHandler \in Handler /\ NewHandler.pc = "new"
  BY DEF NewHandler, Handler, PCs
<1>10. /\ req \in [Requests -> Handler] /\ \A r \in Requests : req[r].pc = "new"
       /\ arrived = 0 /\ faults = 0 /\ lapses = 0 /\ ipHits \in [Devices -> Nat] /\ job = "idle"
  BY <1>9 DEF Init, RequestsInit
<1>11. TypeOK
  <2>1. TablesOK
    BY <1>3, <1>4, <1>7, <1>8 DEF TablesOK, UsersTable, TokensTable, SessionsTable
  <2>2. RequestsOK
    BY <1>10, AuthAssumption DEF RequestsOK
  <2> QED BY <2>1, <2>2 DEF TypeOK
<1>12. ArrivalsOK
  BY <1>10, AuthAssumption DEF ArrivalsOK, Requests
<1>13. RowsOK
  <2>1. \A s \in SessionIds : sessions[s] # None => users[sessions[s].user] = EnrolledRow
    BY <1>3, <1>6, <1>7
  <2>2. \A r \in Requests : sessions[r] = None
    BY <1>6, <1>7 DEF SessionIds
  <2> QED BY <1>1, <1>2, <1>4, <2>1, <2>2 DEF RowsOK
<1>14. ASSUME NEW r \in Requests  PROVE LocalsOK(r) /\ KnowledgeOK(r)
  BY <1>10 DEF LocalsOK, KnowledgeOK, InFlight, PasswordPCs, TokenPCs, MfaPCs, VerifiedPCs, ActivePCs
<1>15. OneRegistrar /\ OneVerificationToken
  BY <1>4, <1>10 DEF OneRegistrar, OneVerificationToken
<1>16. ActiveIsVerified
  BY <1>2, <1>3 DEF ActiveIsVerified
<1>17. AuthenticatedHasFactor
  BY <1>1, <1>2, <1>3, <1>6, <1>7 DEF AuthenticatedHasFactor
<1>18. LockoutEngages
  BY <1>2, <1>3, AuthAssumption DEF LockoutEngages
<1> QED BY <1>11, <1>12, <1>13, <1>14, <1>15, <1>16, <1>17, <1>18 DEF AuthInv

(* Every step of the service preserves it. *)
LEMMA NextInv ==
  ASSUME AuthInv, [Next]_authVars
  PROVE  AuthInv'
<1>1. ASSUME NEW r \in Requests, Call(r) \/ Step(r) \/ DeviceFails(r)
      PROVE  AuthInv'
  BY <1>1, RegistrationPreserves, SignInPreserves, PasswordPreserves, SessionPreserves
  DEF Call, Step
<1> QED BY <1>1, RowLapsesPreserves, IpWindowLapsesPreserves, CleanupPreserves,
           CleanupFailsPreserves, CrashPreserves, StutterPreserves DEF Next, Cleanup

(* AuthInv is an invariant of the auth service. *)
THEOREM Invariance == Spec => []AuthInv
BY InitInv, NextInv, PTL DEF Spec

(* Every table and every handler keeps its type, whatever interleaves.     *)
THEOREM TypeCorrect == Spec => []TypeOK
<1>1. AuthInv => TypeOK
  BY DEF AuthInv
<1> QED BY <1>1, Invariance, PTL

(* An active account has a verified e-mail and a password.                 *)
THEOREM ActiveAccountsVerified == Spec => []ActiveIsVerified
<1>1. AuthInv => ActiveIsVerified
  BY DEF AuthInv
<1> QED BY <1>1, Invariance, PTL

(* One address is mailed one verification token at most.                   *)
THEOREM VerificationTokensUnique == Spec => []OneVerificationToken
<1>1. AuthInv => OneVerificationToken
  BY DEF AuthInv
<1> QED BY <1>1, Invariance, PTL

(* An authenticated session belongs to an active account with a TOTP       *)
(* secret.                                                                 *)
THEOREM SessionsHaveFactor == Spec => []AuthenticatedHasFactor
<1>1. AuthInv => AuthenticatedHasFactor
  BY DEF AuthInv
<1> QED BY <1>1, Invariance, PTL

(* Without failures, no account passes the threshold unlocked.             *)
THEOREM LockoutAtThreshold == Spec => []LockoutEngages
<1>1. AuthInv => LockoutEngages
  BY DEF AuthInv
<1> QED BY <1>1, Invariance, PTL

-----------------------------------------------------------------------------
(* Who writes which table *)

(* A session is opened, elevated or ended only by these handlers.          *)
LEMMA SessionWriters ==
  ASSUME NEW r \in Requests, Call(r) \/ Step(r) \/ DeviceFails(r)
  PROVE  \/ sessions' = sessions
         \/ SetupPasswordSession(r) \/ LoginSession(r) \/ MfaElevate(r)
         \/ ResetRevoke(r) \/ RevokeDelete(r) \/ RevokeAllDelete(r)
         \/ \E s \in SessionIds : Logout(r, s)
<1>1. CASE RegistrationCalls(r) \/ RegistrationSteps(r)
  BY <1>1
  DEF RegistrationCalls, RegistrationSteps, tables, Register, RegisterToken, RegisterEmail,
      VerifyEmail, VerifyEmailConsume, VerifyEmailMark, VerifyEmailIssue,
      SetupPassword, SetupPasswordConsume, SetupPasswordSet, SetupMfa, SetupMfaSecret, SetupMfaCode
<1>2. CASE SignInCalls(r) \/ SignInSteps(r) \/ DeviceFails(r)
  BY <1>2
  DEF SignInCalls, SignInSteps, tables, Login, LoginIncrement, LoginReread, LoginLock, LoginReset,
      VerifyMfaSetup, VerifyMfaDb, VerifyMfa, MfaCheck, DeviceLookup, DeviceInsert, DeviceFails
<1>3. CASE PasswordCalls(r) \/ PasswordSteps(r)
  BY <1>3
  DEF PasswordCalls, PasswordSteps, tables, ForgotPassword, ForgotToken, ForgotEmail,
      ResetPassword, ResetConsume, ResetUpdate, ChangePassword, ChangeCheck, ChangeUpdate
<1>4. CASE SessionCalls(r) \/ SessionSteps(r)
  BY <1>4 DEF SessionCalls, SessionSteps, tables, RevokeSession, RevokeAllOthers
<1> QED BY <1>1, <1>2, <1>3, <1>4 DEF Call, Step

(* The password of a user changes only here. *)
LEMMA UserWriters ==
  ASSUME NEW r \in Requests, Call(r) \/ Step(r) \/ DeviceFails(r)
  PROVE  \/ users' = users
         \/ \E u \in Users : Register(r, u)
         \/ VerifyEmailMark(r) \/ SetupPasswordSet(r) \/ SetupMfaSecret(r)
         \/ LoginIncrement(r) \/ LoginLock(r) \/ LoginReset(r)
         \/ ResetUpdate(r) \/ ChangeUpdate(r)
<1>1. CASE RegistrationCalls(r) \/ RegistrationSteps(r)
  BY <1>1
  DEF RegistrationCalls, RegistrationSteps, tables, RegisterToken, RegisterEmail,
      VerifyEmail, VerifyEmailConsume, VerifyEmailIssue,
      SetupPassword, SetupPasswordConsume, SetupPasswordSession, SetupMfa, SetupMfaCode
<1>2. CASE SignInCalls(r) \/ SignInSteps(r) \/ DeviceFails(r)
  BY <1>2
  DEF SignInCalls, SignInSteps, tables, Login, LoginReread, LoginSession,
      VerifyMfaSetup, VerifyMfaDb, VerifyMfa, MfaCheck, MfaElevate, DeviceLookup,
      DeviceInsert, DeviceFails
<1>3. CASE PasswordCalls(r) \/ PasswordSteps(r)
  BY <1>3
  DEF PasswordCalls, PasswordSteps, tables, ForgotPassword, ForgotToken, ForgotEmail,
      ResetPassword, ResetConsume, ResetRevoke, ChangePassword, ChangeCheck
<1>4. CASE SessionCalls(r) \/ SessionSteps(r)
  BY <1>4 DEF SessionCalls, SessionSteps, tables, Logout, RevokeSession, RevokeDelete,
              RevokeAllOthers, RevokeAllDelete
<1> QED BY <1>1, <1>2, <1>3, <1>4 DEF Call, Step

(* A token is written only by these. *)
LEMMA TokenWriters ==
  ASSUME NEW r \in Requests, Call(r) \/ Step(r) \/ DeviceFails(r)
  PROVE  \/ tokens' = tokens
         \/ RegisterToken(r) \/ RegisterEmail(r)
         \/ VerifyEmailConsume(r) \/ VerifyEmailIssue(r) \/ SetupPasswordConsume(r)
         \/ ForgotToken(r) \/ ForgotEmail(r) \/ ResetConsume(r)
<1>1. CASE RegistrationCalls(r) \/ RegistrationSteps(r)
  BY <1>1
  DEF RegistrationCalls, RegistrationSteps, tables, Register,
      VerifyEmail, VerifyEmailMark,
      SetupPassword, SetupPasswordSet, SetupPasswordSession, SetupMfa, SetupMfaSecret, SetupMfaCode
<1>2. CASE SignInCalls(r) \/ SignInSteps(r) \/ DeviceFails(r)
  BY <1>2
  DEF SignInCalls, SignInSteps, tables, Login, LoginIncrement, LoginReread, LoginLock,
      LoginReset, LoginSession, VerifyMfaSetup, VerifyMfaDb, VerifyMfa, MfaCheck, MfaElevate,
      DeviceLookup, DeviceInsert, DeviceFails
<1>3. CASE PasswordCalls(r) \/ PasswordSteps(r)
  BY <1>3
  DEF PasswordCalls, PasswordSteps, tables, ForgotPassword,
      ResetPassword, ResetUpdate, ResetRevoke, ChangePassword, ChangeCheck, ChangeUpdate
<1>4. CASE SessionCalls(r) \/ SessionSteps(r)
  BY <1>4 DEF SessionCalls, SessionSteps, tables, Logout, RevokeSession, RevokeDelete,
              RevokeAllOthers, RevokeAllDelete
<1> QED BY <1>1, <1>2, <1>3, <1>4 DEF Call, Step

-----------------------------------------------------------------------------
(* The sessions, step by step *)

(* A request has no session while it is in flight. *)
LEMMA NoSessionYet ==
  ASSUME AuthInv, NEW r \in Requests, InFlight(r)
  PROVE  r \in SessionIds /\ sessions[r] = None
BY DEF AuthInv, RowsOK, InFlight, SessionIds

(* What a handler does to one session: nothing, or it opens its own as it  *)
(* returns, elevates the one it holds, or ends one.                        *)
SessionChange(r, s) ==
  \/ sessions'[s] = sessions[s]
  \/ /\ s = r /\ sessions[s] = None
     /\ InFlight(s) /\ req'[s] = DoneHandler
     /\ sessions'[s] \in SessionRow /\ sessions'[s].state # "authenticated"
     /\ sessions'[s].user = req[r].user /\ req[r].pc \in ActivePCs
  \/ /\ req[r].pc = "mfa.elevate" /\ s = req[r].ref
     /\ sessions[s] # None /\ sessions'[s] = [sessions[s] EXCEPT !.state = "authenticated"]
  \/ /\ sessions[s] # None /\ sessions'[s] = None
     /\ \/ arrived' = r /\ arrived = r - 1
        \/ InFlight(r) /\ ~InFlight(r)' /\ req[r].user = sessions[s].user

(* The row a handler inserts as it returns is its own. *)
LEMMA OpensSession ==
  ASSUME AuthInv, NEW r \in Requests, NEW s \in SessionIds, InFlight(r), Return(r),
         req[r].pc \in ActivePCs, NEW state \in {"pre_mfa", "mfa_setup"},
         NEW d \in Devices \cup {None}, CreateSession(r, req[r].user, state, d)
  PROVE  SessionChange(r, s)
<1> DEFINE row == [user |-> req[r].user, state |-> state, device |-> d, lapsed |-> FALSE]
<1>1. /\ row \in SessionRow /\ row.state # "authenticated" /\ row.user = req[r].user
  BY Known DEF LocalsOK, SessionRow
<1> HIDE DEF row
<1>2. sessions' = [sessions EXCEPT ![r] = row] /\ r \in SessionIds /\ sessions[r] = None
  BY NoSessionYet DEF CreateSession, row
<1>3. req'[r] = DoneHandler /\ sessions \in SessionsTable
  BY Types DEF Return
<1> QED BY <1>1, <1>2, <1>3 DEF SessionChange, SessionsTable

(* A handler that returns ends sessions of the user it acts for. *)
LEMMA EndsSessions ==
  ASSUME AuthInv, NEW r \in Requests, NEW s \in SessionIds, InFlight(r), Return(r),
         NEW S, S \subseteq OwnedBy(req[r].user), DeleteSessions(S)
  PROVE  SessionChange(r, s)
<1>1. req'[r] = DoneHandler /\ ~InFlight(r)'
  BY Types DEF Return, InFlight, DoneHandler, NewHandler
<1> QED BY <1>1 DEF SessionChange, DeleteSessions, OwnedBy

(* Every call and every step of a handler. *)
LEMMA HandlerSessions ==
  ASSUME AuthInv, NEW r \in Requests, Call(r) \/ Step(r) \/ DeviceFails(r),
         NEW s \in SessionIds
  PROVE  SessionChange(r, s)
<1>1. CASE sessions' = sessions
  BY <1>1 DEF SessionChange
<1>2. CASE SetupPasswordSession(r)
  <2>1. req[r].pc \in ActivePCs /\ InFlight(r) /\ Return(r)
        /\ CreateSession(r, req[r].user, "mfa_setup", None)
    BY <1>2 DEF SetupPasswordSession, At, ActivePCs, InFlight
  <2> QED BY <2>1, OpensSession
<1>3. CASE LoginSession(r)
  <2>1. req[r].pc \in ActivePCs /\ InFlight(r) /\ Return(r) /\ req[r].arg \in Devices
        /\ CreateSession(r, req[r].user, "pre_mfa", req[r].arg)
    BY <1>3, Known DEF LoginSession, At, ActivePCs, InFlight, LocalsOK
  <2> QED BY <2>1, OpensSession
<1>4. CASE MfaElevate(r)
  BY <1>4, Types DEF MfaElevate, At, UpdateState, SessionChange, SessionsTable
<1>5. CASE ResetRevoke(r)
  <2>1. InFlight(r) /\ Return(r) /\ DeleteSessions(OwnedBy(req[r].user))
    BY <1>5 DEF ResetRevoke, At, InFlight
  <2> QED BY <2>1, EndsSessions
<1>6. CASE RevokeDelete(r)
  <2>1. InFlight(r) /\ Return(r) /\ DeleteSessions(OwnedBy(req[r].user) \cap {req[r].arg})
    BY <1>6 DEF RevokeDelete, At, InFlight
  <2> QED BY <2>1, EndsSessions
<1>7. CASE RevokeAllDelete(r)
  <2>1. InFlight(r) /\ Return(r) /\ DeleteSessions(OwnedBy(req[r].user) \ {req[r].ref})
    BY <1>7 DEF RevokeAllDelete, At, InFlight
  <2> QED BY <2>1, EndsSessions
<1>8. ASSUME NEW t \in SessionIds, Logout(r, t)  PROVE SessionChange(r, s)
  <2>1. arrived' = r /\ arrived = r - 1
    BY <1>8, Types DEF Logout, Receive
  <2>2. DeleteSessions({t})
    BY <1>8 DEF Logout
  <2> QED BY <2>1, <2>2 DEF SessionChange, DeleteSessions
<1> QED BY <1>1, <1>2, <1>3, <1>4, <1>5, <1>6, <1>7, <1>8, SessionWriters

(* Outside the handlers, a session only lapses or is deleted once it has.  *)
LEMMA ClockSessions ==
  ASSUME AuthInv, [Next]_authVars, NEW s \in SessionIds, sessions'[s] # sessions[s],
         ~ \E r \in Requests : Call(r) \/ Step(r) \/ DeviceFails(r)
  PROVE  /\ sessions[s] # None
         /\ \/ sessions'[s] = [sessions[s] EXCEPT !.lapsed = TRUE]
            \/ sessions'[s] = None /\ sessions[s].lapsed
<1>1. CASE RowLapses
  BY <1>1, Types DEF RowLapses, TokenLapses, SessionLapses, LockLapses, SessionsTable
<1>2. CASE Cleanup
  BY <1>2 DEF Cleanup, CleanupSessions, CleanupTokens, CleanupFails, DeleteExpiredSessions,
              DeleteExpiredTokens, DeleteSessions, ExpiredSessions, tables
<1>3. CASE UNCHANGED tables
  BY <1>3 DEF tables
<1>4. (\E d \in Devices : IpWindowLapses(d)) \/ Crash \/ UNCHANGED authVars => UNCHANGED tables
  BY DEF IpWindowLapses, Crash, authVars
<1> QED BY <1>1, <1>2, <1>3, <1>4 DEF Next

(* One user cannot end the sessions of another, whatever id is in the path:*)
(* a live session ends only by the logout of its holder or by a request    *)
(* that acts for its owner.                                                *)
THEOREM OwnersEndSessions == Spec => OnlyOwnerEndsSessions
<1>1. ASSUME AuthInv, [Next]_authVars, NEW s \in SessionIds,
             sessions[s] # None, sessions'[s] = None, ~sessions[s].lapsed
      PROVE  \/ \E r \in Requests : arrived' = r /\ arrived = r - 1
             \/ \E r \in Requests : /\ req[r].user = sessions[s].user
                                    /\ InFlight(r) /\ ~InFlight(r)'
  <2>1. PICK r \in Requests : Call(r) \/ Step(r) \/ DeviceFails(r)
    <3>1. sessions[s] \in SessionRow
      BY <1>1, Types DEF SessionsTable
    <3>2. [sessions[s] EXCEPT !.lapsed = TRUE] # None
      BY <3>1, RowAssumption DEF SessionRow
    <3> QED BY <1>1, <3>2, ClockSessions
  <2>2. SessionChange(r, s)
    BY <1>1, <2>1, HandlerSessions
  <2>3. [sessions[s] EXCEPT !.state = "authenticated"] # None
    BY <1>1, Types, RowAssumption DEF SessionsTable, SessionRow
  <2> QED BY <1>1, <2>2, <2>3 DEF SessionChange
<1>2. AuthInv /\ [Next]_authVars => [OwnersEnd]_authVars
  BY <1>1 DEF OwnersEnd
<1> QED BY <1>2, Invariance, PTL DEF Spec, OnlyOwnerEndsSessions

(* A session changes owner never, is elevated only to authenticated, and   *)
(* one that was deleted stays deleted, however stale the handler that      *)
(* elevates it.                                                            *)
THEOREM SessionsElevateOnce == Spec => SessionsOnlyElevate
<1>1. ASSUME AuthInv, [Next]_authVars, NEW s \in SessionIds, sessions'[s] # sessions[s]
      PROVE  \/ sessions'[s] = None
             \/ /\ sessions[s] = None
                /\ s \in Requests /\ InFlight(s) /\ req'[s] = DoneHandler
                /\ sessions'[s].state # "authenticated"
             \/ /\ sessions[s] # None
                /\ sessions'[s] \in { [sessions[s] EXCEPT !.lapsed = TRUE],
                                      [sessions[s] EXCEPT !.state = "authenticated"] }
  <2>1. ASSUME NEW r \in Requests, Call(r) \/ Step(r) \/ DeviceFails(r)
        PROVE  SessionChange(r, s)
    BY <1>1, <2>1, HandlerSessions
  <2> QED BY <1>1, <2>1, ClockSessions DEF SessionChange
<1>2. AuthInv /\ [Next]_authVars => [SessionsElevate]_authVars
  BY <1>1 DEF SessionsElevate
<1> QED BY <1>2, Invariance, PTL DEF Spec, SessionsOnlyElevate

-----------------------------------------------------------------------------
(* The handlers, step by step *)

(* A handler that has not returned is one of a call received earlier.      *)
LEMMA CallIsNew ==
  ASSUME AuthInv, NEW r \in Requests, NEW op, Receive(r, op)
  PROVE  req[r].pc = "new"
BY Types DEF AuthInv, ArrivalsOK, Receive

(* Which handlers come to hold a token or a session, and that one which    *)
(* has issued its token is about to return.                                *)
Goes(r) ==
  /\ \A q \in Requests : q # r => req'[q] = req[q]
  /\ Issued(r) => Issued(r)'
  /\ req'[r].pc \in SetupPCs =>
       (\E t \in Requests, p \in Passwords : SetupPassword(r, t, p)) \/ SetupPasswordConsume(r)
  /\ req'[r].pc \in ResetPCs =>
       (\E t \in Requests, p \in Passwords : ResetPassword(r, t, p)) \/ ResetConsume(r)
  /\ req'[r].pc \in MfaPCs =>
       \/ \E s \in SessionIds, c \in Secrets : VerifyMfaSetup(r, s, c) \/ VerifyMfaDb(r, s, c)
       \/ MfaCheck(r) \/ MfaElevate(r) \/ DeviceLookup(r)

(* A handler that returns holds nothing.                                   *)
LEMMA ReturnGoes ==
  ASSUME AuthInv, NEW r \in Requests, Return(r)
  PROVE  Goes(r)
BY Types DEF Return, DoneHandler, NewHandler, Goes, Issued, SetupPCs, ResetPCs, MfaPCs

(* Nor does one that goes on to another await.                             *)
LEMMA GotoGoes ==
  ASSUME AuthInv, NEW r \in Requests, NEW pc, Goto(r, pc),
         req[r].pc \notin {"register.email", "forgot.email", "done"},
         pc \notin SetupPCs \cup ResetPCs \cup MfaPCs
  PROVE  Goes(r)
BY Types, HandlerFields DEF Goto, Goes, Issued, Handler

(* Nor one that has only just been called.                                 *)
LEMMA SuspendGoes ==
  ASSUME AuthInv, NEW r \in Requests, NEW pc, NEW u, NEW ref, NEW arg, NEW aux,
         Suspend(r, pc, u, ref, arg, aux), NEW op, Receive(r, op),
         pc \notin SetupPCs \cup ResetPCs \cup MfaPCs
  PROVE  Goes(r)
BY Types, CallIsNew DEF Suspend, Goes, Issued

(* Every call and every step of a handler.                                 *)
LEMMA HandlerGoes ==
  ASSUME AuthInv, NEW r \in Requests, Call(r) \/ Step(r) \/ DeviceFails(r)
  PROVE  Goes(r)
<1>1. CASE RegistrationCalls(r)
  BY <1>1, Types, CallIsNew, ReturnGoes, SuspendGoes
  DEF RegistrationCalls, Register, VerifyEmail, SetupPassword, SetupMfa,
      SetupPCs, ResetPCs, MfaPCs, Goes, Issued, Suspend
<1>2. CASE RegistrationSteps(r)
  <2>1. CASE SetupPasswordConsume(r)
    BY <2>1, Types
    DEF SetupPasswordConsume, At, Goto, Handler, SetupPCs, ResetPCs, MfaPCs, Goes, Issued
  <2>2. CASE SetupMfaCode(r)
    BY <2>2, Types, ReturnGoes
    DEF SetupMfaCode, At, Handler, SetupPCs, ResetPCs, MfaPCs, Goes, Issued
  <2> QED
    BY <1>2, <2>1, <2>2, ReturnGoes, GotoGoes
    DEF RegistrationSteps, RegisterToken, RegisterEmail, VerifyEmailConsume, VerifyEmailMark,
        VerifyEmailIssue, SetupPasswordSet, SetupPasswordSession,
        SetupMfaSecret, At, SetupPCs, ResetPCs, MfaPCs
<1>3. CASE SignInCalls(r)
  <2>1. ASSUME NEW u \in Users, NEW p \in Passwords, NEW d \in Devices, Login(r, u, p, d)
        PROVE  Goes(r)
    BY <2>1, ReturnGoes, SuspendGoes DEF Login, SetupPCs, ResetPCs, MfaPCs
  <2>2. ASSUME NEW s \in SessionIds, NEW c \in Secrets,
               VerifyMfaSetup(r, s, c) \/ VerifyMfaDb(r, s, c)
        PROVE  Goes(r)
    BY <2>2, Types, CallIsNew
    DEF VerifyMfaSetup, VerifyMfaDb, VerifyMfa, Suspend, Return, DoneHandler, NewHandler,
        SetupPCs, ResetPCs, MfaPCs, Goes, Issued
  <2> QED BY <1>3, <2>1, <2>2 DEF SignInCalls
<1>4. CASE SignInSteps(r)
  <2>1. CASE MfaCheck(r) \/ MfaElevate(r) \/ DeviceLookup(r)
    BY <2>1, Types, ReturnGoes
    DEF MfaCheck, MfaElevate, DeviceLookup, At, Goto, Handler, SetupPCs, ResetPCs, MfaPCs,
        Goes, Issued
  <2> QED
    BY <1>4, <2>1, ReturnGoes, GotoGoes
    DEF SignInSteps, LoginIncrement, LoginReread, LoginLock, LoginReset, LoginSession,
        DeviceInsert, At, SetupPCs, ResetPCs, MfaPCs
<1>5. CASE PasswordCalls(r)
  <2>1. ASSUME NEW t \in Requests, NEW p \in Passwords, ResetPassword(r, t, p)
        PROVE  Goes(r)
    BY <2>1, Types, CallIsNew
    DEF ResetPassword, Suspend, Return, DoneHandler, NewHandler,
        SetupPCs, ResetPCs, MfaPCs, Goes, Issued
  <2> QED
    BY <1>5, <2>1, ReturnGoes, SuspendGoes
    DEF PasswordCalls, ForgotPassword, ChangePassword, SetupPCs, ResetPCs, MfaPCs
<1>6. CASE PasswordSteps(r)
  <2>1. CASE ResetConsume(r)
    BY <2>1, Types
    DEF ResetConsume, At, Goto, Handler, SetupPCs, ResetPCs, MfaPCs, Goes, Issued
  <2> QED
    BY <1>6, <2>1, ReturnGoes, GotoGoes
    DEF PasswordSteps, ForgotToken, ForgotEmail, ResetUpdate, ResetRevoke, ChangeCheck,
        ChangeUpdate, At, SetupPCs, ResetPCs, MfaPCs
<1>7. CASE SessionCalls(r)
  BY <1>7, ReturnGoes, SuspendGoes
  DEF SessionCalls, Logout, RevokeSession, RevokeAllOthers, SetupPCs, ResetPCs, MfaPCs
<1>8. CASE SessionSteps(r)
  BY <1>8, ReturnGoes DEF SessionSteps, RevokeDelete, RevokeAllDelete
<1>9. CASE DeviceFails(r)
  BY <1>9, ReturnGoes DEF DeviceFails
<1> QED BY <1>1, <1>2, <1>3, <1>4, <1>5, <1>6, <1>7, <1>8, <1>9 DEF Call, Step

-----------------------------------------------------------------------------
(* The tokens, step by step: a token that is there was there, for the same *)
(* user and purpose, spent if it was and past its deadline if it was; or     *)
(* its request has just issued it.                                         *)
TokensGrow ==
  \A t \in Requests : tokens'[t] # None =>
    \/ /\ tokens[t] # None
       /\ tokens'[t].user = tokens[t].user /\ tokens'[t].type = tokens[t].type
       /\ tokens[t].consumed => tokens'[t].consumed
       /\ tokens[t].lapsed => tokens'[t].lapsed
    \/ ~Issued(t) /\ Issued(t)'

(* A column that is not consumed_at changes, or consumed_at is set.        *)
LEMMA TokenUpdateGrows ==
  ASSUME tokens \in TokensTable, NEW t \in Requests, tokens[t] # None,
         \/ tokens' = [tokens EXCEPT ![t].delivered = TRUE]
         \/ tokens' = [tokens EXCEPT ![t].consumed = TRUE]
         \/ tokens' = [tokens EXCEPT ![t].lapsed = TRUE]
  PROVE  TokensGrow
BY DEF TokensTable, TokenRow, TokensGrow

(* Tokens that do not change.                                              *)
LEMMA TokensSame ==
  ASSUME tokens' = tokens
  PROVE  TokensGrow
BY DEF TokensGrow

(* A request issues its token, and is then about to return.                *)
LEMMA CreateTokenGrows ==
  ASSUME tokens \in TokensTable, NEW r \in Requests, ~Issued(r), Issued(r)',
         NEW u, NEW type, NEW given, CreateToken(r, u, type, given)
  PROVE  TokensGrow
BY DEF CreateToken, TokensTable, TokensGrow

(* Every call and every step of a handler.                                 *)
LEMMA HandlerTokens ==
  ASSUME AuthInv, TokenInv, NEW r \in Requests, Call(r) \/ Step(r) \/ DeviceFails(r)
  PROVE  TokensGrow
<1>1. CASE RegisterToken(r) \/ VerifyEmailIssue(r) \/ ForgotToken(r)
  <2>1. ~Issued(r) /\ Issued(r)'
    BY <1>1, Types
    DEF RegisterToken, VerifyEmailIssue, ForgotToken, At, Goto, Return, DoneHandler,
        NewHandler, Handler, Issued
  <2> QED BY <1>1, <2>1, Types, CreateTokenGrows DEF RegisterToken, VerifyEmailIssue, ForgotToken
<1>2. CASE RegisterEmail(r) \/ ForgotEmail(r)
  BY <1>2, Types, TokenUpdateGrows, TokensSame DEF RegisterEmail, ForgotEmail, DeliverToken
<1>3. CASE VerifyEmailConsume(r) \/ SetupPasswordConsume(r) \/ ResetConsume(r)
  <2>1. req[r].ref \in Requests /\ Consume(req[r].ref)
    BY <1>3, Known
    DEF VerifyEmailConsume, SetupPasswordConsume, ResetConsume, At, LocalsOK, TokenPCs
  <2> QED BY <2>1, Types, TokenUpdateGrows, TokensSame DEF Consume
<1> QED BY <1>1, <1>2, <1>3, TokensSame, TokenWriters

(* Every step of the service.                                              *)
LEMMA NextTokens ==
  ASSUME AuthInv, TokenInv, [Next]_authVars
  PROVE  TokensGrow
<1>1. CASE RowLapses
  BY <1>1, Types, TokenUpdateGrows, TokensSame
  DEF RowLapses, TokenLapses, SessionLapses, LockLapses
<1>2. CASE Cleanup
  BY <1>2, TokensSame
  DEF Cleanup, CleanupSessions, CleanupTokens, CleanupFails, DeleteExpiredSessions,
      DeleteExpiredTokens, TokensGrow, tables
<1>3. (\E d \in Devices : IpWindowLapses(d)) \/ Crash \/ UNCHANGED authVars => tokens' = tokens
  BY DEF IpWindowLapses, Crash, authVars, tables
<1> QED BY <1>1, <1>2, <1>3, TokensSame, HandlerTokens DEF Next

(* Issued requests stay issued; a crash returns them.                      *)
LEMMA NextIssued ==
  ASSUME AuthInv, [Next]_authVars, NEW t \in Requests, Issued(t)
  PROVE  Issued(t)'
<1>1. ASSUME NEW r \in Requests, Call(r) \/ Step(r) \/ DeviceFails(r)
      PROVE  Issued(t)'
  BY <1>1, HandlerGoes DEF Goes, Issued
<1>2. CASE Crash
  BY <1>2 DEF Crash, Issued, DoneHandler, NewHandler
<1>3. RowLapses \/ (\E d \in Devices : IpWindowLapses(d)) \/ Cleanup \/ UNCHANGED authVars
        => req' = req
  BY DEF RowLapses, IpWindowLapses, Cleanup, CleanupSessions, CleanupTokens, CleanupFails,
         authVars, process
<1> QED BY <1>1, <1>2, <1>3 DEF Next, Issued

(* A handler that does not move still holds its token.                     *)
LEMMA StillHeld ==
  ASSUME TokensGrow, NEW q \in Requests, req'[q] = req[q], NEW type, Held(q, type),
         \A t \in Requests : Issued(t) => Issued(t)'
  PROVE  Held(q, type)'
BY DEF TokensGrow, Held

(* The handler of setupPassword or resetPassword reads its token, and then *)
(* consumes it.                                                            *)
LEMMA ComesToHold ==
  ASSUME AuthInv, TokenInv, NEW r \in Requests,
         \/ \E t \in Requests, p \in Passwords : SetupPassword(r, t, p)
         \/ SetupPasswordConsume(r)
         \/ \E t \in Requests, p \in Passwords : ResetPassword(r, t, p)
         \/ ResetConsume(r),
         \A t \in Requests : Issued(t) => Issued(t)'
  PROVE  /\ req'[r].pc \in SetupPCs => Held(r, "password_setup")'
         /\ req'[r].pc \in ResetPCs => Held(r, "password_reset")'
<1>1. ASSUME NEW t \in Requests, NEW p \in Passwords,
             SetupPassword(r, t, p) \/ ResetPassword(r, t, p)
      PROVE  /\ req'[r].pc \in SetupPCs => Held(r, "password_setup")'
             /\ req'[r].pc \in ResetPCs => Held(r, "password_reset")'
  BY <1>1, Types
  DEF TokenInv, SetupPassword, ResetPassword, ValidToken, Suspend, Return, DoneHandler,
      NewHandler, tables, SetupPCs, ResetPCs, SpentPCs, Held
<1>2. CASE SetupPasswordConsume(r)
  <2>1. /\ Held(r, "password_setup") /\ Consume(req[r].ref)
        /\ req'[r].pc = "setupPassword.set"
        /\ req'[r].user = req[r].user /\ req'[r].ref = req[r].ref
    BY <1>2, Types DEF TokenInv, SetupPasswordConsume, At, SetupPCs, Goto, Handler
  <2>2. Held(r, "password_setup")'
    BY <2>1, Types DEF Held, Consume, TokensTable, TokenRow
  <2> QED BY <2>1, <2>2 DEF ResetPCs
<1>3. CASE ResetConsume(r)
  <2>1. /\ Held(r, "password_reset") /\ Consume(req[r].ref)
        /\ req'[r].pc = "reset.update"
        /\ req'[r].user = req[r].user /\ req'[r].ref = req[r].ref
    BY <1>3, Types DEF TokenInv, ResetConsume, At, ResetPCs, Goto, Handler
  <2>2. Held(r, "password_reset")'
    BY <2>1, Types DEF Held, Consume, TokensTable, TokenRow
  <2> QED BY <2>1, <2>2 DEF SetupPCs
<1> QED BY <1>1, <1>2, <1>3

(* Every step of the service preserves TokenInv.                           *)
LEMMA TokenNext ==
  ASSUME AuthInv, TokenInv, [Next]_authVars
  PROVE  TokenInv'
<1>1. TokensGrow /\ \A t \in Requests : Issued(t) => Issued(t)'
  BY NextTokens, NextIssued
<1>2. \A t \in Requests : tokens'[t] # None => Issued(t)'
  BY <1>1 DEF TokensGrow, TokenInv
<1>3. ASSUME NEW q \in Requests, req'[q] = req[q]
      PROVE  /\ req'[q].pc \in SetupPCs => Held(q, "password_setup")'
             /\ req'[q].pc \in ResetPCs => Held(q, "password_reset")'
  BY <1>1, <1>3, StillHeld DEF TokenInv
<1>4. ASSUME NEW r \in Requests, Call(r) \/ Step(r) \/ DeviceFails(r), NEW q \in Requests
      PROVE  /\ req'[q].pc \in SetupPCs => Held(q, "password_setup")'
             /\ req'[q].pc \in ResetPCs => Held(q, "password_reset")'
  BY <1>1, <1>3, <1>4, HandlerGoes, ComesToHold DEF Goes
<1>5. ASSUME Crash, NEW q \in Requests
      PROVE  /\ req'[q].pc \in SetupPCs => Held(q, "password_setup")'
             /\ req'[q].pc \in ResetPCs => Held(q, "password_reset")'
  BY <1>3, <1>5 DEF Crash, DoneHandler, NewHandler, SetupPCs, ResetPCs
<1>6. RowLapses \/ (\E d \in Devices : IpWindowLapses(d)) \/ Cleanup \/ UNCHANGED authVars
        => req' = req
  BY DEF RowLapses, IpWindowLapses, Cleanup, CleanupSessions, CleanupTokens, CleanupFails,
         authVars, process
<1> QED BY <1>2, <1>3, <1>4, <1>5, <1>6 DEF Next, TokenInv

(* There are no tokens at the start.                                       *)
LEMMA TokenInit ==
  ASSUME Init
  PROVE  TokenInv
BY DEF Init, TablesInit, RequestsInit, NewHandler, TokenInv, SetupPCs, ResetPCs

(* What a handler holds is there for as long as it holds it.               *)
THEOREM TokensHeld == Spec => []TokenInv
BY TokenInit, TokenNext, Invariance, PTL DEF Spec

(* What ExpiredRowsPurged leaves to the interval job alone: no write brings *)
(* back a row that has expired or was deleted.                             *)
THEOREM ExpiryIsFinal == Spec => ExpiredStaysExpired
<1>1. ASSUME AuthInv, TokenInv, [Next]_authVars, SessionsElevate
      PROVE  ExpiryKept
  <2>1. ASSUME NEW t \in Requests
        PROVE  /\ tokens[t] # None /\ tokens[t].lapsed => tokens'[t] = None \/ tokens'[t].lapsed
               /\ tokens[t] = None /\ Issued(t) => tokens'[t] = None
    BY <1>1, NextTokens DEF TokensGrow, TokenInv
  <2>2. ASSUME NEW s \in SessionIds, sessions[s] # None, sessions[s].lapsed
        PROVE  sessions'[s] = None \/ sessions'[s].lapsed
    <3>1. sessions[s] \in SessionRow
      BY <1>1, <2>2, Types DEF SessionsTable
    <3> QED BY <1>1, <2>2, <3>1 DEF SessionsElevate, SessionRow
  <2>3. ASSUME NEW s \in SessionIds, s \in Spent
        PROVE  sessions'[s] = None
    BY <1>1, <2>3 DEF SessionsElevate, Spent, InFlight
  <2> QED BY <2>1, <2>2, <2>3 DEF ExpiryKept
<1> QED
  BY <1>1, SessionsElevateOnce, Invariance, TokensHeld, PTL
  DEF Spec, SessionsOnlyElevate, ExpiredStaysExpired

(* Every other query leaves the password alone.                            *)
LEMMA PasswordsKept ==
  ASSUME users \in UsersTable, NEW v,
         \/ MarkVerified(v) \/ \E m : SetMfaSecret(v, m)
         \/ IncrementFailedAttempts(v) \/ LockAccount(v) \/ ResetFailedAttempts(v),
         NEW u \in Users, users[u] # None
  PROVE  users'[u].password = users[u].password
BY DEF UsersTable, UserRow, MarkVerified, SetMfaSecret, IncrementFailedAttempts, LockAccount,
       ResetFailedAttempts

(* The three writers act for the user whose password they write.           *)
LEMMA PasswordsWritten ==
  ASSUME AuthInv, TokenInv, NEW r \in Requests, Call(r) \/ Step(r) \/ DeviceFails(r),
         NEW u \in Users, users[u] # None, users'[u].password # users[u].password
  PROVE  /\ req[r].user = u
         /\ \/ At(r, "setupPassword.set") /\ SpentToken(r, u, "password_setup")
            \/ At(r, "reset.update") /\ SpentToken(r, u, "password_reset")
            \/ At(r, "change.update")
<1>1. CASE SetupPasswordSet(r)
  <2>1. Held(r, "password_setup") /\ req[r].pc \in SpentPCs /\ At(r, "setupPassword.set")
    BY <1>1 DEF SetupPasswordSet, At, TokenInv, SetupPCs, SpentPCs
  <2>2. req[r].user = u
    BY <1>1, Types DEF SetupPasswordSet, SetPassword, UsersTable
  <2> QED BY <2>1, <2>2 DEF Held, SpentToken
<1>2. CASE ResetUpdate(r)
  <2>1. Held(r, "password_reset") /\ req[r].pc \in SpentPCs /\ At(r, "reset.update")
    BY <1>2 DEF ResetUpdate, At, TokenInv, ResetPCs, SpentPCs
  <2>2. req[r].user = u
    BY <1>2, Types DEF ResetUpdate, UpdatePassword, UsersTable
  <2> QED BY <2>1, <2>2 DEF Held, SpentToken
<1>3. CASE ChangeUpdate(r)
  BY <1>3, Types DEF ChangeUpdate, UpdatePassword, UsersTable
<1>4. CASE \E v \in Users : Register(r, v)
  BY <1>4, Types DEF Register, tables, CreateUser, UsersTable
<1> QED BY <1>1, <1>2, <1>3, <1>4, Types, PasswordsKept, UserWriters
        DEF VerifyEmailMark, SetupMfaSecret, LoginIncrement, LoginLock, LoginReset

(* The handlers that are about to read or to replace the password of a     *)
(* session's user come from changePassword alone.                          *)
Changes(r) ==
  /\ req'[r].pc = "change.user" =>
       \E s \in SessionIds, p, q \in Passwords : ChangePassword(r, s, p, q)
  /\ req'[r].pc = "change.update" => ChangeCheck(r)

(* A handler that returns is none of them.                                 *)
LEMMA ReturnChanges ==
  ASSUME AuthInv, NEW r \in Requests, Return(r)
  PROVE  Changes(r)
BY Types DEF Return, DoneHandler, NewHandler, Changes

(* Nor is one that goes to another await.                                  *)
LEMMA GotoChanges ==
  ASSUME AuthInv, NEW r \in Requests, NEW pc, Goto(r, pc),
         pc \notin {"change.user", "change.update"}
  PROVE  Changes(r)
BY Types, HandlerFields DEF Goto, Handler, Changes

(* Nor one that first suspends at another.                                 *)
LEMMA SuspendChanges ==
  ASSUME AuthInv, NEW r \in Requests, NEW pc, NEW u, NEW ref, NEW arg, NEW aux,
         Suspend(r, pc, u, ref, arg, aux), pc \notin {"change.user", "change.update"}
  PROVE  Changes(r)
BY Types DEF Suspend, Changes

(* Every call and every step of a handler.                                 *)
LEMMA HandlerChanges ==
  ASSUME AuthInv, NEW r \in Requests, Call(r) \/ Step(r) \/ DeviceFails(r)
  PROVE  Changes(r)
<1>1. CASE RegistrationCalls(r)
  BY <1>1, ReturnChanges, SuspendChanges
  DEF RegistrationCalls, Register, VerifyEmail, SetupPassword, SetupMfa
<1>2. CASE RegistrationSteps(r)
  <2>1. CASE SetupMfaCode(r)
    BY <2>1, Types, ReturnChanges DEF SetupMfaCode, At, Handler, Changes
  <2> QED
    BY <1>2, <2>1, ReturnChanges, GotoChanges
    DEF RegistrationSteps, RegisterToken, RegisterEmail, VerifyEmailConsume, VerifyEmailMark,
        VerifyEmailIssue, SetupPasswordConsume, SetupPasswordSet, SetupPasswordSession,
        SetupMfaSecret
<1>3. CASE SignInCalls(r)
  <2>1. ASSUME NEW u \in Users, NEW p \in Passwords, NEW d \in Devices, Login(r, u, p, d)
        PROVE  Changes(r)
    BY <2>1, ReturnChanges, SuspendChanges DEF Login
  <2>2. ASSUME NEW s \in SessionIds, NEW c \in Secrets,
               VerifyMfaSetup(r, s, c) \/ VerifyMfaDb(r, s, c)
        PROVE  Changes(r)
    BY <2>2, ReturnChanges, SuspendChanges DEF VerifyMfaSetup, VerifyMfaDb, VerifyMfa
  <2> QED BY <1>3, <2>1, <2>2 DEF SignInCalls
<1>4. CASE SignInSteps(r)
  BY <1>4, ReturnChanges, GotoChanges
  DEF SignInSteps, LoginIncrement, LoginReread, LoginLock, LoginReset, LoginSession,
      MfaCheck, MfaElevate, DeviceLookup, DeviceInsert
<1>5. CASE PasswordCalls(r)
  <2>1. ASSUME NEW s \in SessionIds, NEW p \in Passwords, NEW q \in Passwords,
               ChangePassword(r, s, p, q)
        PROVE  Changes(r)
    BY <2>1, Types DEF ChangePassword, Suspend, Return, DoneHandler, NewHandler, Changes
  <2> QED
    BY <1>5, <2>1, ReturnChanges, SuspendChanges DEF PasswordCalls, ForgotPassword, ResetPassword
<1>6. CASE PasswordSteps(r)
  <2>1. CASE ChangeCheck(r)
    BY <2>1, Types, ReturnChanges DEF ChangeCheck, Goto, Handler, Changes
  <2> QED
    BY <1>6, <2>1, ReturnChanges, GotoChanges
    DEF PasswordSteps, ForgotToken, ForgotEmail, ResetConsume, ResetUpdate, ResetRevoke,
        ChangeUpdate
<1>7. CASE SessionCalls(r)
  BY <1>7, ReturnChanges, SuspendChanges DEF SessionCalls, Logout, RevokeSession, RevokeAllOthers
<1>8. CASE SessionSteps(r) \/ DeviceFails(r)
  BY <1>8, ReturnChanges DEF SessionSteps, RevokeDelete, RevokeAllDelete, DeviceFails
<1> QED BY <1>1, <1>2, <1>3, <1>4, <1>5, <1>6, <1>7, <1>8 DEF Call, Step

(* What no handler does to the requests: the clock and the cleanup job     *)
(* leave them, a crash only ends them.                                     *)
LEMMA RequestsAside ==
  ASSUME RowLapses \/ (\E d \in Devices : IpWindowLapses(d)) \/ Cleanup \/ Crash
           \/ UNCHANGED authVars,
         NEW q \in Requests
  PROVE  req'[q] = req[q] \/ req'[q] = DoneHandler
BY DEF RowLapses, IpWindowLapses, Cleanup, CleanupSessions, CleanupTokens, CleanupFails, Crash,
       authVars, process

(* changePassword vouches for its session when it arrives, and for the     *)
(* current password when it has read the row.                              *)
LEMMA NextChanges ==
  ASSUME AuthInv, [Next]_authVars
  PROVE  ChangesVouched
<1> SUFFICES ASSUME NEW q \in Requests, req'[q] # req[q]
             PROVE  /\ At(q, "change.user")' => SessionShown(q)'
                    /\ At(q, "change.update")' => PasswordShown(q)
  BY DEF ChangesVouched
<1>1. ASSUME NEW r \in Requests, Call(r) \/ Step(r) \/ DeviceFails(r)
      PROVE  /\ At(q, "change.user")' => SessionShown(q)'
             /\ At(q, "change.update")' => PasswordShown(q)
  <2>1. q = r
    BY <1>1, HandlerGoes DEF Goes
  <2>2. ASSUME NEW s \in SessionIds, NEW p \in Passwords, NEW n \in Passwords,
               ChangePassword(q, s, p, n), At(q, "change.user")'
        PROVE  SessionShown(q)'
    <3>1. CASE ValidSession(s, "authenticated")
      <4>1. req'[q].ref = s /\ req'[q].user = sessions[s].user /\ sessions' = sessions
        BY <2>2, <3>1, Types DEF ChangePassword, Suspend, tables
      <4> QED BY <3>1, <4>1 DEF SessionShown, ValidSession
    <3>2. CASE ~ValidSession(s, "authenticated")
      BY <2>2, <3>2, Types DEF ChangePassword, Return, DoneHandler, NewHandler, At
    <3> QED BY <3>1, <3>2
  <2>3. ASSUME ChangeCheck(q), At(q, "change.update")'
        PROVE  PasswordShown(q)
    <3>1. CASE users[req[q].user].password = req[q].arg
      BY <2>3, <3>1, Types DEF ChangeCheck, Goto, Handler, PasswordShown
    <3>2. CASE users[req[q].user].password # req[q].arg
      BY <2>3, <3>2, Types DEF ChangeCheck, Return, DoneHandler, NewHandler, At
    <3> QED BY <3>1, <3>2
  <2> QED BY <1>1, <2>1, <2>2, <2>3, HandlerChanges DEF Changes, At
<1>2. CASE RowLapses \/ (\E d \in Devices : IpWindowLapses(d)) \/ Cleanup \/ Crash
             \/ UNCHANGED authVars
  BY <1>2, RequestsAside DEF At, DoneHandler, NewHandler
<1> QED BY <1>1, <1>2 DEF Next

(* A password is written only by a request that has spent a token of the   *)
(* right type issued to that very user, so that a crash after the write    *)
(* leaves no live token behind, or by one whose session and whose current  *)
(* password were checked.                                                  *)
THEOREM WritesAuthorised == Spec => PasswordWritesAuthorised
<1>1. ASSUME AuthInv, TokenInv, [Next]_authVars, NEW u \in Users,
             users[u] # None, users'[u].password # users[u].password
      PROVE  \E r \in Requests : Call(r) \/ Step(r) \/ DeviceFails(r)
  <2>1. CASE RowLapses
    BY <1>1, <2>1, Types DEF RowLapses, TokenLapses, SessionLapses, LockLapses, UsersTable, UserRow
  <2>2. Cleanup \/ (\E d \in Devices : IpWindowLapses(d)) \/ Crash \/ UNCHANGED authVars
          => users' = users
    BY DEF Cleanup, CleanupSessions, CleanupTokens, CleanupFails, DeleteExpiredSessions,
           DeleteExpiredTokens, IpWindowLapses, Crash, authVars, tables
  <2> QED BY <1>1, <2>1, <2>2 DEF Next
<1>2. AuthInv /\ TokenInv /\ [Next]_authVars => [AuthorisedWrites]_authVars
  BY <1>1, PasswordsWritten, NextChanges DEF AuthorisedWrites, WritesSpend
<1> QED BY <1>2, Invariance, TokensHeld, PTL DEF Spec, PasswordWritesAuthorised

-----------------------------------------------------------------------------
(* The addresses that can no longer be verified *)

(* The handlers a registration or its verification is waiting for, and the *)
(* two that mail a token, come from these steps.                           *)
MailPCs == {"register.email", "forgot.email"}
Heads(r) ==
  req'[r].pc \in VerifyingPCs \cup MailPCs =>
    \/ \E u \in Users : Register(r, u)
    \/ RegisterToken(r)
    \/ \E t \in Requests : VerifyEmail(r, t)
    \/ VerifyEmailConsume(r)
    \/ ForgotToken(r)

(* A handler that returns is none of them.                                 *)
LEMMA ReturnHeads ==
  ASSUME AuthInv, NEW r \in Requests, Return(r)
  PROVE  Heads(r)
BY Types DEF Return, DoneHandler, NewHandler, Heads, VerifyingPCs, MailPCs

(* Nor is one that goes to another await.                                  *)
LEMMA GotoHeads ==
  ASSUME AuthInv, NEW r \in Requests, NEW pc, Goto(r, pc), pc \notin VerifyingPCs \cup MailPCs
  PROVE  Heads(r)
BY Types, HandlerFields DEF Goto, Handler, Heads

(* Nor one that first suspends at another.                                 *)
LEMMA SuspendHeads ==
  ASSUME AuthInv, NEW r \in Requests, NEW pc, NEW u, NEW ref, NEW arg, NEW aux,
         Suspend(r, pc, u, ref, arg, aux), pc \notin VerifyingPCs \cup MailPCs
  PROVE  Heads(r)
BY Types DEF Suspend, Heads

(* Every call and every step of a handler.                                 *)
LEMMA HandlerHeads ==
  ASSUME AuthInv, NEW r \in Requests, Call(r) \/ Step(r) \/ DeviceFails(r)
  PROVE  Heads(r)
<1>1. CASE RegistrationCalls(r)
  BY <1>1, ReturnHeads, SuspendHeads
  DEF RegistrationCalls, SetupPassword, SetupMfa, Heads, VerifyingPCs, MailPCs
<1>2. CASE RegistrationSteps(r)
  <2>1. CASE SetupMfaCode(r)
    BY <2>1, Types, ReturnHeads DEF SetupMfaCode, At, Handler, Heads, VerifyingPCs, MailPCs
  <2>2. CASE RegisterToken(r) \/ VerifyEmailConsume(r)
    BY <2>2 DEF Heads
  <2> QED
    BY <1>2, <2>1, <2>2, ReturnHeads, GotoHeads
    DEF RegistrationSteps, RegisterEmail, VerifyEmailMark, VerifyEmailIssue,
        SetupPasswordConsume, SetupPasswordSet, SetupPasswordSession, SetupMfaSecret,
        VerifyingPCs, MailPCs
<1>3. CASE SignInCalls(r)
  <2>1. ASSUME NEW u \in Users, NEW p \in Passwords, NEW d \in Devices, Login(r, u, p, d)
        PROVE  Heads(r)
    BY <2>1, ReturnHeads, SuspendHeads DEF Login, VerifyingPCs, MailPCs
  <2>2. ASSUME NEW s \in SessionIds, NEW c \in Secrets,
               VerifyMfaSetup(r, s, c) \/ VerifyMfaDb(r, s, c)
        PROVE  Heads(r)
    BY <2>2, ReturnHeads, SuspendHeads
    DEF VerifyMfaSetup, VerifyMfaDb, VerifyMfa, VerifyingPCs, MailPCs
  <2> QED BY <1>3, <2>1, <2>2 DEF SignInCalls
<1>4. CASE SignInSteps(r)
  BY <1>4, ReturnHeads, GotoHeads
  DEF SignInSteps, LoginIncrement, LoginReread, LoginLock, LoginReset, LoginSession,
      MfaCheck, MfaElevate, DeviceLookup, DeviceInsert, VerifyingPCs, MailPCs
<1>5. CASE PasswordCalls(r)
  BY <1>5, ReturnHeads, SuspendHeads
  DEF PasswordCalls, ForgotPassword, ResetPassword, ChangePassword, VerifyingPCs, MailPCs
<1>6. CASE PasswordSteps(r)
  <2>1. CASE ForgotToken(r)
    BY <2>1 DEF Heads
  <2> QED
    BY <1>6, <2>1, ReturnHeads, GotoHeads
    DEF PasswordSteps, ForgotEmail, ResetConsume, ResetUpdate, ResetRevoke, ChangeCheck,
        ChangeUpdate, VerifyingPCs, MailPCs
<1>7. CASE SessionCalls(r)
  BY <1>7, ReturnHeads, SuspendHeads
  DEF SessionCalls, Logout, RevokeSession, RevokeAllOthers, VerifyingPCs, MailPCs
<1>8. CASE SessionSteps(r)
  BY <1>8, ReturnHeads DEF SessionSteps, RevokeDelete, RevokeAllDelete
<1>9. CASE DeviceFails(r)
  BY <1>9, ReturnHeads DEF DeviceFails
<1> QED BY <1>1, <1>2, <1>3, <1>4, <1>5, <1>6, <1>7, <1>8, <1>9 DEF Call, Step

(* Nor does what no handler does verify an address, or forget that it was.                   *)
LEMMA AccountsAside ==
  ASSUME AuthInv,
         RowLapses \/ (\E d \in Devices : IpWindowLapses(d)) \/ Cleanup \/ Crash
           \/ UNCHANGED authVars,
         NEW u \in Users, users[u] # None
  PROVE  users'[u] # None /\ users'[u].email_verified = users[u].email_verified
<1>1. CASE \E v \in Users : LockLapses(v)
  <2>1. users[u] \in UserRow /\ None \notin UserRow
    BY Types, RowAssumption DEF UsersTable
  <2> QED BY <1>1, <2>1, Types DEF LockLapses, UsersTable, UserRow
<1>2. CASE users' = users
  BY <1>2
<1> QED
  BY <1>1, <1>2
  DEF RowLapses, TokenLapses, SessionLapses, IpWindowLapses, Cleanup, CleanupSessions,
      CleanupTokens, CleanupFails, DeleteExpiredSessions, DeleteExpiredTokens, Crash,
      authVars, tables

(* Whoever mails a reset token mails one.                                  *)
LEMMA MailNext ==
  ASSUME AuthInv, TokenInv, MailInv, [Next]_authVars
  PROVE  MailInv'
<1>1. TokensGrow
  BY NextTokens
<1>2. ASSUME NEW q \in Requests, req'[q] = req[q], At(q, "forgot.email")', tokens'[q] # None
      PROVE  tokens'[q].type = "password_reset"
  BY <1>1, <1>2 DEF TokensGrow, Issued, At, MailInv
<1>3. ASSUME NEW r \in Requests, Call(r) \/ Step(r) \/ DeviceFails(r),
             At(r, "forgot.email")', tokens'[r] # None
      PROVE  tokens'[r].type = "password_reset"
  <2>1. CASE ForgotToken(r)
    BY <2>1, Types DEF ForgotToken, CreateToken, TokensTable
  <2>2. CASE \E u \in Users : Register(r, u)
    BY <1>3, <2>2, Types DEF Register, Return, Suspend, DoneHandler, NewHandler, At
  <2>3. CASE \E t \in Requests : VerifyEmail(r, t)
    BY <1>3, <2>3, Types DEF VerifyEmail, Return, Suspend, DoneHandler, NewHandler, At
  <2>4. CASE RegisterToken(r) \/ VerifyEmailConsume(r)
    <3>1. req'[r].pc \in {"register.email", "verifyEmail.mark"}
      BY <2>4, Types DEF RegisterToken, VerifyEmailConsume, Goto, Handler
    <3> QED BY <1>3, <3>1 DEF At
  <2>5. Heads(r)
    BY <1>3, HandlerHeads
  <2>6. req'[r].pc \in VerifyingPCs \cup MailPCs
    BY <1>3 DEF At, MailPCs
  <2> QED BY <2>1, <2>2, <2>3, <2>4, <2>5, <2>6 DEF Heads
<1>4. ASSUME NEW r \in Requests, Call(r) \/ Step(r) \/ DeviceFails(r)
      PROVE  MailInv'
  BY <1>2, <1>3, <1>4, HandlerGoes DEF Goes, MailInv
<1>5. CASE RowLapses \/ (\E d \in Devices : IpWindowLapses(d)) \/ Cleanup \/ Crash
             \/ UNCHANGED authVars
  BY <1>2, <1>5, RequestsAside DEF MailInv, At, DoneHandler, NewHandler
<1> QED BY <1>4, <1>5 DEF Next

(* No reset is under way at the start.                                     *)
LEMMA MailInit ==
  ASSUME Init
  PROVE  MailInv
BY DEF Init, RequestsInit, NewHandler, MailInv, At

(* A mailed reset token is a reset token for as long as it is mailed.      *)
LEMMA MailHeld == Spec => []MailInv
BY MailInit, MailNext, Invariance, TokensHeld, PTL DEF Spec

(* Every query but the one of verifyEmail leaves email_verified alone.     *)
LEMMA VerificationKept ==
  ASSUME users \in UsersTable, NEW v \in Users, users[v] # None,
         \/ \E p \in Passwords : SetPassword(v, p) \/ UpdatePassword(v, p)
         \/ \E m \in Secrets : SetMfaSecret(v, m)
         \/ IncrementFailedAttempts(v) \/ LockAccount(v) \/ ResetFailedAttempts(v),
         NEW u \in Users, users[u] # None
  PROVE  users'[u] # None /\ users'[u].email_verified = users[u].email_verified
<1>1. users[v] \in UserRow
  BY DEF UsersTable
<1>2. /\ users'[v] \in UserRow /\ users'[v].email_verified = users[v].email_verified
      /\ \A w \in Users : w # v => users'[w] = users[w]
  <2>1. ASSUME NEW p \in Passwords, SetPassword(v, p) \/ UpdatePassword(v, p)
        PROVE  /\ users'[v] \in UserRow /\ users'[v].email_verified = users[v].email_verified
               /\ \A w \in Users : w # v => users'[w] = users[w]
    BY <1>1, <2>1 DEF UsersTable, UserRow, SetPassword, UpdatePassword
  <2>2. ASSUME NEW m \in Secrets, SetMfaSecret(v, m)
        PROVE  /\ users'[v] \in UserRow /\ users'[v].email_verified = users[v].email_verified
               /\ \A w \in Users : w # v => users'[w] = users[w]
    BY <1>1, <2>2 DEF UsersTable, UserRow, SetMfaSecret
  <2>3. CASE IncrementFailedAttempts(v) \/ LockAccount(v) \/ ResetFailedAttempts(v)
    BY <1>1, <2>3
    DEF UsersTable, UserRow, IncrementFailedAttempts, LockAccount, ResetFailedAttempts
  <2> QED BY <2>1, <2>2, <2>3
<1> QED BY <1>2, RowAssumption

(* A handler does not verify the address of a stranded account: the one    *)
(* that would mark it holds its user.                                      *)
LEMMA StrandedUnverified ==
  ASSUME AuthInv, NEW u \in Users, Stranded(u),
         NEW r \in Requests, Call(r) \/ Step(r) \/ DeviceFails(r)
  PROVE  users'[u] # None /\ ~users'[u].email_verified
<1>1. users[u] # None /\ ~users[u].email_verified
  BY DEF Stranded
<1>2. CASE users' = users
  BY <1>1, <1>2
<1>3. CASE \E v \in Users : Register(r, v)
  BY <1>1, <1>3, Types DEF Register, tables, CreateUser, UsersTable
<1>4. CASE VerifyEmailMark(r)
  <2>1. req[r].user # u /\ MarkVerified(req[r].user)
    BY <1>4 DEF VerifyEmailMark, At, Stranded, VerifyingPCs
  <2> QED BY <1>1, <2>1, Types DEF MarkVerified, UsersTable
<1>5. CASE SetupPasswordSet(r) \/ ResetUpdate(r) \/ ChangeUpdate(r)
  <2>1. /\ req[r].user \in Users /\ users[req[r].user] # None
        /\ \E p \in Passwords : SetPassword(req[r].user, p) \/ UpdatePassword(req[r].user, p)
    BY <1>5, Known
    DEF SetupPasswordSet, ResetUpdate, ChangeUpdate, At, LocalsOK, InFlight, PasswordPCs
  <2> QED BY <1>1, <2>1, Types, VerificationKept
<1>6. CASE SetupMfaSecret(r) \/ LoginIncrement(r) \/ LoginLock(r) \/ LoginReset(r)
  <2>1. req[r].user \in Users /\ users[req[r].user] # None /\ r \in Secrets
    BY <1>6, Known, AuthAssumption
    DEF SetupMfaSecret, LoginIncrement, LoginLock, LoginReset, At, LocalsOK, InFlight,
        Secrets, Requests
  <2> QED
    BY <1>1, <1>6, <2>1, Types, VerificationKept
    DEF SetupMfaSecret, LoginIncrement, LoginLock, LoginReset
<1> QED BY <1>2, <1>3, <1>4, <1>5, <1>6, UserWriters

(* Nor does one begin: the link its holder would follow is not valid, and  *)
(* a second registration is answered 409.                                  *)
LEMMA StrandedUnserved ==
  ASSUME AuthInv, NEW u \in Users, Stranded(u),
         NEW r \in Requests, Call(r) \/ Step(r) \/ DeviceFails(r),
         NEW q \in Requests, req'[q].user = u
  PROVE  req'[q].pc \notin VerifyingPCs
<1>1. CASE q # r
  BY <1>1, HandlerGoes DEF Goes, Stranded
<1>2. CASE q = r /\ \E v \in Users : Register(r, v)
  BY <1>2, Types
  DEF Register, Return, Suspend, DoneHandler, NewHandler, VerifyingPCs, Stranded
<1>3. CASE q = r /\ \E t \in Requests : VerifyEmail(r, t)
  BY <1>3, Types
  DEF VerifyEmail, TokenPresented, Return, Suspend, DoneHandler, NewHandler, VerifyingPCs, Stranded
<1>4. CASE q = r /\ VerifyEmailConsume(r)
  <2>1. req[r].user = u /\ req[r].pc \in VerifyingPCs
    BY <1>4, Types DEF VerifyEmailConsume, At, Goto, Handler, VerifyingPCs
  <2> QED BY <2>1 DEF Stranded
<1>5. CASE q = r /\ (RegisterToken(r) \/ ForgotToken(r))
  BY <1>5, Types DEF RegisterToken, ForgotToken, Goto, Handler, VerifyingPCs
<1> QED BY <1>1, <1>2, <1>3, <1>4, <1>5, HandlerHeads DEF Heads

(* And no link that works is mailed, or comes to be on its way.            *)
LEMMA StrandedUnmailed ==
  ASSUME AuthInv, MailInv, NEW u \in Users, Stranded(u),
         NEW r \in Requests, Call(r) \/ Step(r) \/ DeviceFails(r),
         NEW t \in Requests, ValidToken(t, "email_verification")', tokens'[t].user = u
  PROVE  ~tokens'[t].delivered /\ ~At(t, "register.email")'
<1>1. ASSUME NEW p \in Requests, tokens'[p] = tokens[p]
      PROVE  p = t => ~tokens'[t].delivered /\ ~At(t, "register.email")
  BY <1>1 DEF Stranded, ValidToken
<1>2. CASE RegisterToken(r)
  <2>1. req[r].user # u
    BY <1>2 DEF RegisterToken, At, Stranded, VerifyingPCs
  <2>2. t # r
    BY <1>2, <2>1, Types DEF RegisterToken, CreateToken, TokensTable
  <2>3. tokens'[t] = tokens[t] /\ req'[t] = req[t]
    BY <1>2, <2>2, Types, HandlerGoes DEF RegisterToken, CreateToken, TokensTable, Goes
  <2> QED BY <1>1, <2>3 DEF At
<1>3. CASE ~RegisterToken(r)
  <2>1. At(t, "register.email")' => At(t, "register.email")
    <3>1. CASE t # r
      BY <3>1, HandlerGoes DEF Goes, At
    <3>2. CASE t = r /\ \E v \in Users : Register(r, v)
      BY <3>2, Types DEF Register, Return, Suspend, DoneHandler, NewHandler, At
    <3>3. CASE t = r /\ \E s \in Requests : VerifyEmail(r, s)
      BY <3>3, Types DEF VerifyEmail, Return, Suspend, DoneHandler, NewHandler, At
    <3>4. CASE t = r /\ (VerifyEmailConsume(r) \/ ForgotToken(r))
      BY <3>4, Types DEF VerifyEmailConsume, ForgotToken, Goto, Handler, At
    <3> QED BY <1>3, <3>1, <3>2, <3>3, <3>4, HandlerHeads DEF Heads, At, MailPCs
  <2>2. ~tokens'[t].delivered /\ ~At(t, "register.email")
    <3>1. CASE tokens' = tokens
      BY <1>1, <3>1
    <3>2. CASE RegisterEmail(r)
      <4>1. t # r
        BY <3>2, Types
        DEF RegisterEmail, DeliverToken, TokensTable, TokenRow, ValidToken, Stranded
      <4> QED BY <1>1, <3>2, <4>1, Types DEF RegisterEmail, DeliverToken, TokensTable
    <3>3. CASE ForgotEmail(r)
      <4>1. t # r
        BY <3>3, Types
        DEF ForgotEmail, DeliverToken, TokensTable, TokenRow, ValidToken, MailInv
      <4> QED BY <1>1, <3>3, <4>1, Types DEF ForgotEmail, DeliverToken, TokensTable
    <3>4. CASE VerifyEmailIssue(r) \/ ForgotToken(r)
      <4>1. t # r
        BY <3>4, Types DEF VerifyEmailIssue, ForgotToken, CreateToken, TokensTable, ValidToken
      <4> QED BY <1>1, <3>4, <4>1, Types DEF VerifyEmailIssue, ForgotToken, CreateToken, TokensTable
    <3>5. CASE VerifyEmailConsume(r) \/ SetupPasswordConsume(r) \/ ResetConsume(r)
      <4>1. tokens'[t] = tokens[t]
        BY <3>5, Types
        DEF VerifyEmailConsume, SetupPasswordConsume, ResetConsume, Consume, TokensTable, TokenRow,
            ValidToken
      <4> QED BY <1>1, <4>1
    <3> QED BY <1>3, <3>1, <3>2, <3>3, <3>4, <3>5, TokenWriters
  <2> QED BY <2>1, <2>2
<1> QED BY <1>2, <1>3

(* No step of the service, of its clock or of its process frees a stranded *)
(* account.                                                                *)
LEMMA StrandedNext ==
  ASSUME AuthInv, MailInv, [Next]_authVars, NEW u \in Users, Stranded(u)
  PROVE  Stranded(u)'
<1>1. CASE \E r \in Requests : Call(r) \/ Step(r) \/ DeviceFails(r)
  BY <1>1, StrandedUnverified, StrandedUnserved, StrandedUnmailed DEF Stranded
<1>2. CASE RowLapses \/ (\E d \in Devices : IpWindowLapses(d)) \/ Cleanup \/ Crash
             \/ UNCHANGED authVars
  <2>1. users'[u] # None /\ users'[u].email_verified = users[u].email_verified
    BY <1>2, AccountsAside DEF Stranded
  <2>2. \A q \in Requests : req'[q].user = u => req'[q].pc \notin VerifyingPCs
    BY <1>2, RequestsAside DEF Stranded, DoneHandler, NewHandler, VerifyingPCs
  <2>3. ASSUME NEW t \in Requests, ValidToken(t, "email_verification")'
        PROVE  tokens'[t] = tokens[t]
    <3>1. CASE RowLapses
      BY <2>3, <3>1, Types
      DEF RowLapses, TokenLapses, SessionLapses, LockLapses, TokensTable, TokenRow, ValidToken
    <3>2. CASE Cleanup
      BY <2>3, <3>2
      DEF Cleanup, CleanupSessions, CleanupTokens, CleanupFails, DeleteExpiredSessions,
          DeleteExpiredTokens, ValidToken, tables
    <3> QED BY <1>2, <3>1, <3>2 DEF IpWindowLapses, Crash, authVars, tables
  <2>4. \A t \in Requests : At(t, "register.email")' => At(t, "register.email")
    BY <1>2, RequestsAside DEF At, DoneHandler, NewHandler
  <2> QED BY <2>1, <2>2, <2>3, <2>4 DEF Stranded, ValidToken
<1> QED BY <1>1, <1>2 DEF Next

(* Once the one verification token of an address can no longer be          *)
(* presented, the address is never verified, whatever its holder calls:    *)
(* register answers 409 and no operation issues a second token.            *)
THEOREM StrandedForGood ==
  ASSUME NEW u \in Users
  PROVE  Spec => [](Stranded(u) => []Stranded(u))
<1>1. AuthInv /\ MailInv /\ Stranded(u) /\ [Next]_authVars => Stranded(u)'
  BY StrandedNext
<1> QED BY <1>1, Invariance, MailHeld, PTL DEF Spec

-----------------------------------------------------------------------------
(* The addresses that can still be verified *)

(* The handler of verifyEmail reads its token, of the right type and user. *)
LEMMA VerifyNext ==
  ASSUME AuthInv, TokenInv, VerifyInv, [Next]_authVars
  PROVE  VerifyInv'
<1>1. TokensGrow /\ \A t \in Requests : Issued(t) => Issued(t)'
  BY NextTokens, NextIssued
<1>2. ASSUME NEW q \in Requests, req'[q] = req[q], At(q, "verifyEmail.consume")'
      PROVE  Held(q, "email_verification")'
  <2>1. Held(q, "email_verification")
    BY <1>2 DEF At, VerifyInv
  <2> QED BY <1>1, <1>2, <2>1, StillHeld
<1>3. ASSUME NEW r \in Requests, Call(r) \/ Step(r) \/ DeviceFails(r),
             At(r, "verifyEmail.consume")'
      PROVE  Held(r, "email_verification")'
  <2>1. ASSUME NEW t \in Requests, VerifyEmail(r, t)
        PROVE  Held(r, "email_verification")'
    BY <1>1, <1>3, <2>1, Types
    DEF TokenInv, VerifyEmail, ValidToken, Suspend, Return, DoneHandler, NewHandler, tables,
        At, SpentPCs, Held
  <2>2. CASE \E u \in Users : Register(r, u)
    BY <1>3, <2>2, Types DEF Register, Return, Suspend, DoneHandler, NewHandler, At
  <2>3. CASE RegisterToken(r) \/ VerifyEmailConsume(r) \/ ForgotToken(r)
    <3>1. PICK pc \in {"register.email", "verifyEmail.mark", "forgot.email"} : Goto(r, pc)
      BY <2>3 DEF RegisterToken, VerifyEmailConsume, ForgotToken
    <3>2. req'[r].pc = pc
      BY <3>1, Types DEF Goto, Handler
    <3> QED BY <1>3, <3>1, <3>2 DEF At
  <2>4. Heads(r) /\ req'[r].pc \in VerifyingPCs
    BY <1>3, HandlerHeads DEF At, VerifyingPCs
  <2> QED BY <2>1, <2>2, <2>3, <2>4 DEF Heads
<1>4. ASSUME NEW r \in Requests, Call(r) \/ Step(r) \/ DeviceFails(r)
      PROVE  VerifyInv'
  BY <1>2, <1>3, <1>4, HandlerGoes DEF Goes, VerifyInv
<1>5. CASE RowLapses \/ (\E d \in Devices : IpWindowLapses(d)) \/ Cleanup \/ Crash
             \/ UNCHANGED authVars
  BY <1>2, <1>5, RequestsAside DEF VerifyInv, At, DoneHandler, NewHandler
<1> QED BY <1>4, <1>5 DEF Next

(* Nobody is verifying an address at the start.                            *)
LEMMA VerifyInit ==
  ASSUME Init
  PROVE  VerifyInv
BY DEF Init, RequestsInit, NewHandler, VerifyInv, At

(* The token that verifyEmail holds is the one it was called with.         *)
LEMMA VerifyHeld == Spec => []VerifyInv
BY VerifyInit, VerifyNext, Invariance, TokensHeld, PTL DEF Spec

(* What the handler at one of these awaits does next, if it does anything. *)
LEMMA NextOfVerifying ==
  ASSUME AuthInv, NEW r \in Requests, Call(r) \/ Step(r) \/ DeviceFails(r)
  PROVE  /\ At(r, "register.token") => RegisterToken(r)
         /\ At(r, "register.email") => RegisterEmail(r)
         /\ At(r, "verifyEmail.consume") => VerifyEmailConsume(r)
         /\ At(r, "verifyEmail.mark") => VerifyEmailMark(r)
<1>1. CASE Call(r)
  <2>1. PICK op : Receive(r, op)
    BY <1>1
    DEF Call, RegistrationCalls, SignInCalls, PasswordCalls, SessionCalls, Register, VerifyEmail,
        SetupPassword, SetupMfa, Login, VerifyMfaSetup, VerifyMfaDb, VerifyMfa, ForgotPassword,
        ResetPassword, ChangePassword, Logout, RevokeSession, RevokeAllOthers
  <2> QED BY <2>1, CallIsNew DEF At
<1>2. CASE RegistrationSteps(r)
  BY <1>2
  DEF RegistrationSteps, RegisterToken, RegisterEmail, VerifyEmailConsume, VerifyEmailMark,
      VerifyEmailIssue, SetupPasswordConsume, SetupPasswordSet, SetupPasswordSession,
      SetupMfaSecret, SetupMfaCode, At
<1>3. CASE SignInSteps(r) \/ DeviceFails(r)
  BY <1>3
  DEF SignInSteps, LoginIncrement, LoginReread, LoginLock, LoginReset, LoginSession, MfaCheck,
      MfaElevate, DeviceLookup, DeviceInsert, DeviceFails, At
<1>4. CASE PasswordSteps(r) \/ SessionSteps(r)
  BY <1>4
  DEF PasswordSteps, SessionSteps, ForgotToken, ForgotEmail, ResetConsume, ResetUpdate,
      ResetRevoke, ChangeCheck, ChangeUpdate, RevokeDelete, RevokeAllDelete, At
<1> QED BY <1>1, <1>2, <1>3, <1>4 DEF Step

(* A token that still verifies the address of u, whoever has it; and an    *)
(* address that has none, nor a handler on its way to verify it.           *)
Verifies(t, u) == ValidToken(t, "email_verification") /\ tokens[t].user = u
Lost(u) ==
  /\ users[u] # None /\ ~users[u].email_verified
  /\ \A r \in Requests : req[r].user = u => req[r].pc \notin VerifyingPCs
  /\ \A t \in Requests : ~Verifies(t, u)

(* Only the e-mail strands an address unless it is lost: a token that no   *)
(* handler is about to mail can be presented once it is delivered.         *)
LEMMA StrandedOrLost ==
  OnlyMailStrands <=> (faults = 0 /\ lapses = 0 => \A u \in Users : ~Lost(u))
BY DEF OnlyMailStrands, Stranded, Lost, Verifies

(* A handler on its way to verify an address passes it on: to the token it *)
(* issues, to its own next await, or to the row.                           *)
LEMMA VerifyingPasses ==
  ASSUME AuthInv, NEW u \in Users, users[u] # None, ~users'[u].email_verified,
         NEW r \in Requests, Call(r) \/ Step(r) \/ DeviceFails(r),
         NEW q \in Requests, req[q].user = u, req[q].pc \in VerifyingPCs
  PROVE  ~Lost(u)'
<1>1. CASE q # r
  BY <1>1, HandlerGoes DEF Goes, Lost
<1>2. CASE q = r /\ At(r, "register.token")
  <2>1. RegisterToken(r)
    BY <1>2, NextOfVerifying
  <2>2. Verifies(r, u)'
    <3>1. tokens'[r] = [user |-> u, type |-> "email_verification", delivered |-> FALSE,
                        consumed |-> FALSE, lapsed |-> FALSE]
      BY <1>2, <2>1, Types DEF RegisterToken, CreateToken, TokensTable
    <3>2. tokens'[r] \in TokenRow
      BY <3>1 DEF TokenRow, TokenTypes
    <3>3. /\ tokens'[r].user = u /\ tokens'[r].type = "email_verification"
          /\ tokens'[r].consumed = FALSE /\ tokens'[r].lapsed = FALSE
      BY <3>1
    <3>4. tokens'[r] # None
      BY <3>2, RowAssumption
    <3> QED BY <3>3, <3>4 DEF Verifies, ValidToken
  <2> QED BY <2>2 DEF Lost
<1>3. CASE q = r /\ At(r, "verifyEmail.consume")
  <2>1. VerifyEmailConsume(r)
    BY <1>3, NextOfVerifying
  <2>2. req'[r].user = u /\ req'[r].pc = "verifyEmail.mark"
    BY <1>3, <2>1, Types DEF VerifyEmailConsume, Goto, Handler
  <2> QED BY <2>2 DEF VerifyingPCs, Lost
<1>4. CASE q = r /\ At(r, "verifyEmail.mark")
  <2>1. VerifyEmailMark(r)
    BY <1>4, NextOfVerifying
  <2>2. users'[u].email_verified
    <3>1. users[u] \in UserRow
      BY Types DEF UsersTable
    <3> QED BY <1>4, <2>1, <3>1, Types DEF VerifyEmailMark, MarkVerified, UsersTable, UserRow
  <2> QED BY <2>2
<1> QED BY <1>1, <1>2, <1>3, <1>4 DEF VerifyingPCs, At

(* A token that can verify an address can until a handler consumes it to   *)
(* mark the address.                                                       *)
LEMMA TokenPasses ==
  ASSUME AuthInv, TokenInv, VerifyInv, NEW u \in Users,
         NEW r \in Requests, Call(r) \/ Step(r) \/ DeviceFails(r),
         NEW t \in Requests, Verifies(t, u)
  PROVE  ~Lost(u)'
<1>1. /\ tokens[t] # None /\ tokens[t].user = u /\ tokens[t].type = "email_verification"
      /\ ~tokens[t].consumed /\ ~tokens[t].lapsed
      /\ Issued(t)
  BY DEF Verifies, ValidToken, TokenInv
<1>2. SUFFICES Verifies(t, u)' \/ (VerifyEmailConsume(r) /\ req[r].user = u)
  <2>1. ASSUME VerifyEmailConsume(r), req[r].user = u
        PROVE  req'[r].user = u /\ req'[r].pc \in VerifyingPCs
    BY <2>1, Types DEF VerifyEmailConsume, Goto, Handler, VerifyingPCs
  <2> QED BY <2>1 DEF Lost
<1>3. ASSUME tokens'[t] = tokens[t] PROVE Verifies(t, u)'
  BY <1>1, <1>3 DEF Verifies, ValidToken
<1>4. CASE RegisterEmail(r) \/ ForgotEmail(r)
  <2>1. CASE tokens'[t] # tokens[t]
    <3>1. tokens'[t] = [tokens[t] EXCEPT !.delivered = TRUE] /\ tokens[t] \in TokenRow
      BY <1>1, <1>4, <2>1, Types DEF RegisterEmail, ForgotEmail, DeliverToken, TokensTable
    <3>2. tokens'[t] \in TokenRow
      BY <3>1 DEF TokenRow
    <3> QED BY <1>1, <3>1, <3>2, RowAssumption DEF Verifies, ValidToken, TokenRow
  <2> QED BY <1>3, <2>1
<1>5. CASE RegisterToken(r) \/ VerifyEmailIssue(r) \/ ForgotToken(r)
  <2>1. t # r
    BY <1>1, <1>5 DEF RegisterToken, VerifyEmailIssue, ForgotToken, At, Issued
  <2>2. tokens'[t] = tokens[t]
    BY <1>5, <2>1, Types DEF RegisterToken, VerifyEmailIssue, ForgotToken, CreateToken, TokensTable
  <2> QED BY <1>3, <2>2
<1>6. CASE SetupPasswordConsume(r) \/ ResetConsume(r)
  <2>1. req[r].ref # t
    BY <1>1, <1>6 DEF SetupPasswordConsume, ResetConsume, At, TokenInv, SetupPCs, ResetPCs, Held
  <2>2. tokens'[t] = tokens[t]
    BY <1>6, <2>1, Types DEF SetupPasswordConsume, ResetConsume, Consume, TokensTable
  <2> QED BY <1>3, <2>2
<1>7. CASE VerifyEmailConsume(r)
  <2>1. CASE req[r].ref = t
    BY <1>1, <1>7, <2>1 DEF VerifyEmailConsume, At, VerifyInv, Held
  <2>2. CASE req[r].ref # t
    <3>1. tokens'[t] = tokens[t]
      BY <1>7, <2>2, Types DEF VerifyEmailConsume, Consume, TokensTable
    <3> QED BY <1>3, <3>1
  <2> QED BY <1>7, <2>1, <2>2
<1>8. CASE tokens' = tokens
  BY <1>3, <1>8
<1> QED BY <1>4, <1>5, <1>6, <1>7, <1>8, TokenWriters

(* The registration of an address begins its verification.                 *)
LEMMA RegisteredVerifying ==
  ASSUME AuthInv, NEW u \in Users, users[u] = None, users'[u] # None,
         NEW r \in Requests, Call(r) \/ Step(r) \/ DeviceFails(r)
  PROVE  ~Lost(u)'
<1>1. Register(r, u)
  <2>1. CASE \E v \in Users : Register(r, v)
    BY <2>1, Types DEF Register, tables, CreateUser, UsersTable
  <2>2. CASE VerifyEmailMark(r) \/ SetupPasswordSet(r) \/ SetupMfaSecret(r) \/ LoginIncrement(r)
             \/ LoginLock(r) \/ LoginReset(r) \/ ResetUpdate(r) \/ ChangeUpdate(r)
    <3>1. req[r].user \in Users /\ users[req[r].user] # None
      BY <2>2, Known
      DEF VerifyEmailMark, SetupPasswordSet, SetupMfaSecret, LoginIncrement, LoginLock, LoginReset,
          ResetUpdate, ChangeUpdate, At, LocalsOK, InFlight
    <3> QED
      BY <2>2, <3>1, Types
      DEF VerifyEmailMark, SetupPasswordSet, SetupMfaSecret, LoginIncrement, LoginLock, LoginReset,
          ResetUpdate, ChangeUpdate, MarkVerified, SetPassword, SetMfaSecret,
          IncrementFailedAttempts, LockAccount, ResetFailedAttempts, UpdatePassword, UsersTable
  <2> QED BY <2>1, <2>2, UserWriters
<1>2. req'[r].pc = "register.token" /\ req'[r].user = u
  BY <1>1, Types DEF Register, Suspend
<1> QED BY <1>2 DEF VerifyingPCs, Lost

(* No row goes back on what has been verified.                             *)
LEMMA NextVerified ==
  ASSUME AuthInv, [Next]_authVars, NEW u \in Users, users[u] # None, users[u].email_verified
  PROVE  users'[u] # None /\ users'[u].email_verified
<1>1. users[u] \in UserRow
  BY Types DEF UsersTable
<1>2. CASE \E r \in Requests : Call(r) \/ Step(r) \/ DeviceFails(r)
  <2>1. PICK r \in Requests : Call(r) \/ Step(r) \/ DeviceFails(r)
    BY <1>2
  <2>2. CASE users' = users
    BY <2>2
  <2>3. CASE \E v \in Users : Register(r, v)
    BY <2>3, Types DEF Register, tables, CreateUser, UsersTable
  <2>4. CASE VerifyEmailMark(r)
    <3>1. req[r].user \in Users /\ users[req[r].user] # None /\ MarkVerified(req[r].user)
      BY <2>4, Known DEF VerifyEmailMark, At, LocalsOK, InFlight
    <3> QED BY <3>1, Types, MarkVerifiedEffect DEF UsersAdvance
  <2>5. CASE SetupPasswordSet(r) \/ ResetUpdate(r) \/ ChangeUpdate(r)
    <3>1. /\ req[r].user \in Users /\ users[req[r].user] # None
          /\ \E p \in Passwords : SetPassword(req[r].user, p) \/ UpdatePassword(req[r].user, p)
      BY <2>5, Known
      DEF SetupPasswordSet, ResetUpdate, ChangeUpdate, At, LocalsOK, InFlight, PasswordPCs
    <3> QED BY <3>1, Types, VerificationKept
  <2>6. CASE SetupMfaSecret(r) \/ LoginIncrement(r) \/ LoginLock(r) \/ LoginReset(r)
    <3>1. req[r].user \in Users /\ users[req[r].user] # None /\ r \in Secrets
      BY <2>6, Known, AuthAssumption
      DEF SetupMfaSecret, LoginIncrement, LoginLock, LoginReset, At, LocalsOK, InFlight,
          Secrets, Requests
    <3> QED
      BY <2>6, <3>1, Types, VerificationKept
      DEF SetupMfaSecret, LoginIncrement, LoginLock, LoginReset
  <2> QED BY <2>1, <2>2, <2>3, <2>4, <2>5, <2>6, UserWriters
<1>3. CASE RowLapses \/ (\E d \in Devices : IpWindowLapses(d)) \/ Cleanup \/ Crash
             \/ UNCHANGED authVars
  BY <1>3, AccountsAside
<1> QED BY <1>2, <1>3 DEF Next

(* Failures are not forgotten.                                             *)
LEMMA NoFaultBefore ==
  ASSUME AuthInv, [Next]_authVars, faults' = 0
  PROVE  faults = 0
<1>1. ASSUME NEW r \in Requests, Call(r) \/ Step(r)
      PROVE  faults' = faults
  BY <1>1
  DEF Call, Receive, RegistrationCalls, Register, VerifyEmail, SetupPassword, SetupMfa,
      SignInCalls, Login, VerifyMfaSetup, VerifyMfaDb, VerifyMfa,
      PasswordCalls, ForgotPassword, ResetPassword, ChangePassword,
      SessionCalls, Logout, RevokeSession, RevokeAllOthers,
      Step, Quiet, RegistrationSteps, RegisterToken, RegisterEmail,
      VerifyEmailConsume, VerifyEmailMark, VerifyEmailIssue,
      SetupPasswordConsume, SetupPasswordSet, SetupPasswordSession, SetupMfaSecret, SetupMfaCode,
      SignInSteps, LoginIncrement, LoginReread, LoginLock, LoginReset, LoginSession,
      MfaCheck, MfaElevate, DeviceLookup, DeviceInsert,
      PasswordSteps, ForgotToken, ForgotEmail, ResetConsume, ResetUpdate, ResetRevoke,
      ChangeCheck, ChangeUpdate, SessionSteps, RevokeDelete, RevokeAllDelete
<1>2. ASSUME NEW r \in Requests, DeviceFails(r)
      PROVE  faults' = faults + 1
  BY <1>2 DEF DeviceFails
<1>3. RowLapses \/ (\E d \in Devices : IpWindowLapses(d)) \/ CleanupSessions \/ CleanupTokens
        \/ UNCHANGED authVars => faults' = faults
  BY DEF RowLapses, IpWindowLapses, CleanupSessions, CleanupTokens, authVars, process
<1>4. CASE Crash \/ CleanupFails
  BY <1>4, Types DEF Crash, CleanupFails
<1> QED BY <1>1, <1>2, <1>3, <1>4, Types DEF Next, Cleanup

(* A step of a handler lets no deadline pass.                              *)
LEMMA HandlerQuiet ==
  ASSUME AuthInv, NEW r \in Requests, Call(r) \/ Step(r) \/ DeviceFails(r)
  PROVE  lapses' = lapses
BY DEF Call, Receive, RegistrationCalls, Register, VerifyEmail, SetupPassword, SetupMfa,
      SignInCalls, Login, VerifyMfaSetup, VerifyMfaDb, VerifyMfa,
      PasswordCalls, ForgotPassword, ResetPassword, ChangePassword,
      SessionCalls, Logout, RevokeSession, RevokeAllOthers,
      Step, Quiet, RegistrationSteps, RegisterToken, RegisterEmail,
      VerifyEmailConsume, VerifyEmailMark, VerifyEmailIssue,
      SetupPasswordConsume, SetupPasswordSet, SetupPasswordSession, SetupMfaSecret, SetupMfaCode,
      SignInSteps, LoginIncrement, LoginReread, LoginLock, LoginReset, LoginSession,
      MfaCheck, MfaElevate, DeviceLookup, DeviceInsert, DeviceFails,
      PasswordSteps, ForgotToken, ForgotEmail, ResetConsume, ResetUpdate, ResetRevoke,
      ChangeCheck, ChangeUpdate, SessionSteps, RevokeDelete, RevokeAllDelete

(* No step of a handler, and no deletion of expired rows, strands an       *)
(* account.                                                                *)
LEMMA VerifiableNext ==
  ASSUME AuthInv, TokenInv, VerifyInv, OnlyMailStrands, [Next]_authVars
  PROVE  OnlyMailStrands'
<1> SUFFICES ASSUME faults' = 0, lapses' = 0, NEW u \in Users, Lost(u)'
             PROVE  FALSE
  BY DEF OnlyMailStrands, Stranded, Lost, Verifies
<1>1. users'[u] # None /\ ~users'[u].email_verified
  BY DEF Lost
<1>2. CASE \E r \in Requests : Call(r) \/ Step(r) \/ DeviceFails(r)
  <2>1. PICK r \in Requests : Call(r) \/ Step(r) \/ DeviceFails(r)
    BY <1>2
  <2>2. users[u] # None
    BY <1>1, <2>1, RegisteredVerifying
  <2>3. ~users[u].email_verified
    BY <1>1, <2>2, NextVerified
  <2>4. faults = 0 /\ lapses = 0
    BY <2>1, HandlerQuiet, NoFaultBefore DEF Next
  <2>5. \/ \E q \in Requests : req[q].user = u /\ req[q].pc \in VerifyingPCs
        \/ \E t \in Requests : Verifies(t, u)
    BY <2>2, <2>3, <2>4, StrandedOrLost DEF Lost
  <2> QED BY <1>1, <2>1, <2>2, <2>5, VerifyingPasses, TokenPasses
<1>3. CASE CleanupSessions \/ CleanupTokens \/ UNCHANGED authVars
  <2>1. users' = users /\ req' = req /\ faults' = faults /\ lapses' = lapses
    BY <1>3
    DEF CleanupSessions, CleanupTokens, DeleteExpiredSessions, DeleteExpiredTokens,
        authVars, tables, process
  <2>2. ASSUME NEW t \in Requests, ValidToken(t, "email_verification")
        PROVE  tokens'[t] = tokens[t]
    BY <1>3, <2>2
    DEF CleanupSessions, CleanupTokens, DeleteExpiredSessions, DeleteExpiredTokens,
        ExpiredTokens, ValidToken, authVars, tables
  <2>3. ~Lost(u)
    BY <2>1, StrandedOrLost
  <2> QED BY <1>1, <2>1, <2>2, <2>3 DEF Lost, Verifies, ValidToken
<1>4. ~RowLapses /\ ~(\E d \in Devices : IpWindowLapses(d)) /\ ~Crash /\ ~CleanupFails
  BY Types DEF RowLapses, IpWindowLapses, Tick, Crash, CleanupFails
<1> QED BY <1>2, <1>3, <1>4 DEF Next, Cleanup

(* Every account there is at the start is complete.                        *)
LEMMA VerifiableInit ==
  ASSUME Init
  PROVE  OnlyMailStrands
<1>1. EnrolledRow.email_verified
  BY DEF EnrolledRow
<1> QED BY <1>1 DEF Init, TablesInit, OnlyMailStrands, Stranded

(* The three awaits of register and the three of verifyEmail never drop an *)
(* address between them, however many clicks and registrations race: only  *)
(* a failure, an expiry or an e-mail that was not sent strands one (and    *)
(* then for good).                                                         *)
THEOREM OnlyMailStrandsAddresses == Spec => []OnlyMailStrands
BY VerifiableInit, VerifiableNext, Invariance, TokensHeld, VerifyHeld, PTL DEF Spec

-----------------------------------------------------------------------------
(* What a handler has left to do *)

(* The awaits still before a handler, the present one included, when it    *)
(* takes the longest way: those of setupMfa are one per recovery code.     *)
LastAwaits   == {"register.email", "verifyEmail.issue", "setupPassword.session", "login.lock",
                 "login.session", "mfa.insert", "forgot.email", "reset.revoke", "change.update",
                 "revoke.delete", "revokeAll.delete"}
SecondAwaits == {"register.token", "verifyEmail.mark", "setupPassword.set", "login.reread",
                 "login.reset", "mfa.device", "forgot.token", "reset.update", "change.user"}
ThirdAwaits  == {"verifyEmail.consume", "setupPassword.consume", "login.incr", "mfa.elevate",
                 "reset.consume"}
AwaitsLeft(h) ==
  CASE h.pc = "done"            -> 0
    [] h.pc \in LastAwaits      -> 1
    [] h.pc \in SecondAwaits    -> 2
    [] h.pc \in ThirdAwaits     -> 3
    [] h.pc = "mfa.user"        -> 4
    [] h.pc = "setupMfa.code"   -> CodesPerSetup - h.arg
    [] h.pc = "setupMfa.secret" -> CodesPerSetup + 1
    [] h.pc = "new"             -> CodesPerSetup + 5

(* The handler of setupMfa counts the codes it has stored.                 *)
CodesCounted(h) ==
  /\ h.pc = "setupMfa.secret" => h.arg = 0
  /\ h.pc = "setupMfa.code" => h.arg \in 0 .. CodesPerSetup - 1

(* Every query a handler runs brings it nearer to its answer, and nothing  *)
(* takes it further away.                                                  *)
HandlersAdvance ==
  \A r \in Requests :
    /\ Call(r) \/ Step(r) \/ DeviceFails(r) => AwaitsLeft(req'[r]) < AwaitsLeft(req[r])
    /\ AwaitsLeft(req'[r]) <= AwaitsLeft(req[r])

(* Nearer is a matter of natural numbers.                                  *)
LEMMA LeftNatural ==
  ASSUME NEW h \in Handler, CodesCounted(h)
  PROVE  /\ AwaitsLeft(h) \in Nat
         /\ h.pc # "done" => AwaitsLeft(h) > 0
         /\ h.pc \notin {"new", "done"} => AwaitsLeft(h) \in 1 .. CodesPerSetup + 4
<1>1. h.pc \in PCs /\ CodesPerSetup \in Nat \ {0}
  BY AuthAssumption DEF Handler
<1>2. h.pc = "setupMfa.code" => CodesPerSetup - h.arg \in 1 .. CodesPerSetup
  BY <1>1 DEF CodesCounted
<1> QED
  BY <1>1, <1>2 DEF AwaitsLeft, PCs, LastAwaits, SecondAwaits, ThirdAwaits

(* A handler that has answered has nothing left to do.                     *)
LEMMA DoneLeft ==
  DoneHandler.pc = "done" /\ CodesCounted(DoneHandler) /\ AwaitsLeft(DoneHandler) = 0
<1>1. DoneHandler.pc = "done"
  BY DEF DoneHandler, NewHandler
<1> QED BY <1>1 DEF CodesCounted, AwaitsLeft, LastAwaits, SecondAwaits, ThirdAwaits

(* A step that ends its handler, or takes it from one await to a later one.*)
Nearer(r) ==
  /\ CodesCounted(req'[r])
  /\ AwaitsLeft(req'[r]) < AwaitsLeft(req[r])

(* A handler returns.                                                      *)
LEMMA ReturnNearer ==
  ASSUME AuthInv, NEW r \in Requests, CodesCounted(req[r]), req[r].pc # "done", Return(r)
  PROVE  Nearer(r)
<1>1. req[r] \in Handler /\ req'[r] = DoneHandler
  BY Types DEF Return
<1>2. AwaitsLeft(req[r]) > 0
  BY <1>1, LeftNatural
<1> QED BY <1>1, <1>2, DoneLeft DEF Nearer

(* A call is received and its handler suspends.                            *)
LEMMA SuspendNearer ==
  ASSUME AuthInv, NEW r \in Requests, req[r].pc = "new",
         NEW pc \in PCs \ {"new", "setupMfa.code"}, NEW u, NEW ref, NEW arg, NEW aux,
         pc = "setupMfa.secret" => arg = 0,
         Suspend(r, pc, u, ref, arg, aux)
  PROVE  Nearer(r)
<1>1. req'[r].pc = pc /\ req'[r].arg = arg
  BY Types DEF Suspend
<1>2. AwaitsLeft(req[r]) = CodesPerSetup + 5 /\ CodesPerSetup \in Nat \ {0}
  BY AuthAssumption DEF AwaitsLeft, LastAwaits, SecondAwaits, ThirdAwaits
<1> QED
  BY <1>1, <1>2 DEF Nearer, CodesCounted, AwaitsLeft, PCs, LastAwaits, SecondAwaits, ThirdAwaits

(* A handler goes on from one await to a later one.                        *)
LEMMA GotoNearer ==
  ASSUME AuthInv, NEW r \in Requests, NEW pc, Goto(r, pc), CodesCounted(req[r]),
         \/ req[r].pc \in SecondAwaits /\ pc \in LastAwaits
         \/ req[r].pc \in ThirdAwaits /\ pc \in LastAwaits \cup SecondAwaits
         \/ req[r].pc = "mfa.user" /\ pc = "mfa.elevate"
         \/ req[r].pc = "setupMfa.secret" /\ pc = "setupMfa.code"
  PROVE  Nearer(r)
<1>1. req'[r].pc = pc /\ req'[r].arg = req[r].arg
  BY Types DEF Goto, Handler
<1>2. CodesPerSetup \in Nat \ {0}
  BY AuthAssumption
<1> QED
  BY <1>1, <1>2 DEF Nearer, CodesCounted, AwaitsLeft, LastAwaits, SecondAwaits, ThirdAwaits

(* The calls: each finds its request new.                                  *)
LEMMA CallsNearer ==
  ASSUME AuthInv, NEW r \in Requests, CodesCounted(req[r]), Call(r)
  PROVE  Nearer(r)
<1>1. CASE RegistrationCalls(r)
  BY <1>1, CallIsNew, ReturnNearer, SuspendNearer
  DEF RegistrationCalls, Register, VerifyEmail, SetupPassword, SetupMfa, PCs
<1>2. CASE SignInCalls(r)
  <2>1. ASSUME NEW u \in Users, NEW p \in Passwords, NEW d \in Devices, Login(r, u, p, d)
        PROVE  Nearer(r)
    BY <2>1, CallIsNew, ReturnNearer, SuspendNearer DEF Login, PCs
  <2>2. ASSUME NEW s \in SessionIds, NEW c \in Secrets,
               VerifyMfaSetup(r, s, c) \/ VerifyMfaDb(r, s, c)
        PROVE  Nearer(r)
    BY <2>2, CallIsNew, ReturnNearer, SuspendNearer DEF VerifyMfaSetup, VerifyMfaDb, VerifyMfa, PCs
  <2> QED BY <1>2, <2>1, <2>2 DEF SignInCalls
<1>3. CASE PasswordCalls(r)
  BY <1>3, CallIsNew, ReturnNearer, SuspendNearer
  DEF PasswordCalls, ForgotPassword, ResetPassword, ChangePassword, PCs
<1>4. CASE SessionCalls(r)
  BY <1>4, CallIsNew, ReturnNearer, SuspendNearer
  DEF SessionCalls, Logout, RevokeSession, RevokeAllOthers, PCs
<1> QED BY <1>1, <1>2, <1>3, <1>4 DEF Call

(* The steps: awaits follow one another in one direction only.             *)
LEMMA StepsNearer ==
  ASSUME AuthInv, NEW r \in Requests, CodesCounted(req[r]), Step(r) \/ DeviceFails(r)
  PROVE  Nearer(r)
<1>1. CASE SetupMfaCode(r)
  <2>1. CASE req[r].arg + 1 < CodesPerSetup
    <3>1. req'[r].pc = "setupMfa.code" /\ req'[r].arg = req[r].arg + 1
      BY <1>1, <2>1, Types DEF SetupMfaCode, At, Handler
    <3>2. req[r].pc = "setupMfa.code" /\ req[r].arg \in 0 .. CodesPerSetup - 1
      BY <1>1 DEF SetupMfaCode, At, CodesCounted
    <3> QED
      BY <2>1, <3>1, <3>2, AuthAssumption
      DEF Nearer, CodesCounted, AwaitsLeft, LastAwaits, SecondAwaits, ThirdAwaits
  <2>2. CASE Return(r)
    BY <1>1, <2>2, ReturnNearer DEF SetupMfaCode, At
  <2> QED BY <1>1, <2>1, <2>2 DEF SetupMfaCode
<1>2. CASE RegistrationSteps(r) /\ ~SetupMfaCode(r)
  BY <1>2, ReturnNearer, GotoNearer
  DEF RegistrationSteps, RegisterToken, RegisterEmail, VerifyEmailConsume, VerifyEmailMark,
      VerifyEmailIssue, SetupPasswordConsume, SetupPasswordSet, SetupPasswordSession,
      SetupMfaSecret, At, LastAwaits, SecondAwaits, ThirdAwaits
<1>3. CASE SignInSteps(r)
  BY <1>3, ReturnNearer, GotoNearer
  DEF SignInSteps, LoginIncrement, LoginReread, LoginLock, LoginReset, LoginSession,
      MfaCheck, MfaElevate, DeviceLookup, DeviceInsert, At, LastAwaits, SecondAwaits, ThirdAwaits
<1>4. CASE PasswordSteps(r)
  BY <1>4, ReturnNearer, GotoNearer
  DEF PasswordSteps, ForgotToken, ForgotEmail, ResetConsume, ResetUpdate, ResetRevoke,
      ChangeCheck, ChangeUpdate, At, LastAwaits, SecondAwaits, ThirdAwaits
<1>5. CASE SessionSteps(r) \/ DeviceFails(r)
  BY <1>5, ReturnNearer DEF SessionSteps, RevokeDelete, RevokeAllDelete, DeviceFails, At
<1> QED BY <1>1, <1>2, <1>3, <1>4, <1>5 DEF Step

(* Every step of the service, of its clock or of its process.              *)
LEMMA AdvanceNext ==
  ASSUME AuthInv, \A q \in Requests : CodesCounted(req[q]), [Next]_authVars
  PROVE  (\A q \in Requests : CodesCounted(req'[q])) /\ HandlersAdvance
<1>1. ASSUME NEW q \in Requests
      PROVE  AwaitsLeft(req[q]) \in Nat
  BY <1>1, LeftNatural, Types
<1>2. ASSUME NEW q \in Requests, Call(q) \/ Step(q) \/ DeviceFails(q)
      PROVE  Nearer(q)
  BY <1>2, CallsNearer, StepsNearer
<1>3. ASSUME NEW q \in Requests
      PROVE  req'[q] = req[q] \/ req'[q] = DoneHandler \/ Nearer(q)
  <2>1. ASSUME NEW r \in Requests, Call(r) \/ Step(r) \/ DeviceFails(r)
        PROVE  req'[q] = req[q] \/ Nearer(q)
    BY <1>2, <2>1, HandlerGoes DEF Goes
  <2> QED BY <2>1, RequestsAside DEF Next
<1>4. req' \in [Requests -> Handler]
  BY NextInv DEF AuthInv, TypeOK, RequestsOK
<1>5. ASSUME NEW q \in Requests
      PROVE  CodesCounted(req'[q]) /\ AwaitsLeft(req'[q]) <= AwaitsLeft(req[q])
  <2>1. CASE req'[q] = req[q]
    BY <1>1, <2>1
  <2>2. CASE req'[q] = DoneHandler
    BY <1>1, <2>2, DoneLeft
  <2>3. CASE Nearer(q)
    <3>1. CodesCounted(req'[q]) /\ AwaitsLeft(req'[q]) < AwaitsLeft(req[q])
      BY <2>3 DEF Nearer
    <3>2. AwaitsLeft(req'[q]) \in Nat
      BY <1>4, <3>1, LeftNatural
    <3> QED BY <1>1, <3>1, <3>2
  <2> QED BY <1>3, <2>1, <2>2, <2>3
<1> QED BY <1>2, <1>5 DEF HandlersAdvance, Nearer

(* However requests interleave, each is answered after a bounded number of *)
(* awaits of its own: every query it runs brings it nearer to its answer,  *)
(* no step of another request, of the clock or of the cleanup job takes it *)
(* further away, and no handler loops (that of setupMfa over its codes     *)
(* included).                                                              *)
THEOREM HandlersAnswer ==
  Spec => /\ [](\A r \in Requests : InFlight(r) => AwaitsLeft(req[r]) \in 1 .. CodesPerSetup + 4)
          /\ [][HandlersAdvance]_authVars
<1> DEFINE Counted == \A q \in Requests : CodesCounted(req[q])
           Bounded == \A r \in Requests :
                        InFlight(r) => AwaitsLeft(req[r]) \in 1 .. CodesPerSetup + 4
<1>1. Init => Counted
  BY DEF Init, RequestsInit, NewHandler, CodesCounted
<1>2. AuthInv /\ Counted /\ [Next]_authVars => Counted' /\ HandlersAdvance
  BY AdvanceNext
<1>3. AuthInv /\ Counted => Bounded
  BY Types, LeftNatural DEF InFlight
<1> HIDE DEF Counted, Bounded
<1> QED BY <1>1, <1>2, <1>3, Invariance, PTL DEF Spec, Bounded

-----------------------------------------------------------------------------
(* The devices, step by step *)

(* A device is recorded only by the handler that did not find it.          *)
LEMMA DeviceWriters ==
  ASSUME NEW r \in Requests, Call(r) \/ Step(r) \/ DeviceFails(r)
  PROVE  devices' = devices \/ DeviceInsert(r)
<1>1. CASE RegistrationCalls(r) \/ RegistrationSteps(r)
  BY <1>1
  DEF RegistrationCalls, RegistrationSteps, tables, Register, RegisterToken, RegisterEmail,
      VerifyEmail, VerifyEmailConsume, VerifyEmailMark, VerifyEmailIssue,
      SetupPassword, SetupPasswordConsume, SetupPasswordSet, SetupPasswordSession,
      SetupMfa, SetupMfaSecret, SetupMfaCode
<1>2. CASE SignInCalls(r) \/ SignInSteps(r) \/ DeviceFails(r)
  BY <1>2
  DEF SignInCalls, SignInSteps, tables, Login, LoginIncrement, LoginReread, LoginLock, LoginReset,
      LoginSession, VerifyMfaSetup, VerifyMfaDb, VerifyMfa, MfaCheck, MfaElevate,
      DeviceLookup, DeviceFails
<1>3. CASE PasswordCalls(r) \/ PasswordSteps(r)
  BY <1>3
  DEF PasswordCalls, PasswordSteps, tables, ForgotPassword, ForgotToken, ForgotEmail,
      ResetPassword, ResetConsume, ResetUpdate, ResetRevoke, ChangePassword, ChangeCheck,
      ChangeUpdate
<1>4. CASE SessionCalls(r) \/ SessionSteps(r)
  BY <1>4 DEF SessionCalls, SessionSteps, tables, Logout, RevokeSession, RevokeDelete,
              RevokeAllOthers, RevokeAllDelete
<1> QED BY <1>1, <1>2, <1>3, <1>4 DEF Call, Step

(* A device that is known stays known.                                     *)
LEMMA InsertKeepsKnown ==
  ASSUME AuthInv, NEW v \in Users, NEW e \in Devices \cup {None}, InsertDevice(v, e)
  PROVE  /\ KnownDevice(v, e)'
         /\ \A u \in Users, d \in Devices \cup {None} : KnownDevice(u, d) => KnownDevice(u, d)'
<1> DEFINE Keys == Devices \cup {None}
           Row  == [devices[v] EXCEPT ![e] = devices[v][e] + 1]
<1>1. /\ devices \in [Users -> [Keys -> Nat]] /\ e \in Keys
      /\ devices' = [devices EXCEPT ![v] = Row]
  BY Types DEF InsertDevice
<1> HIDE DEF Keys
<1>2. /\ Row[e] = devices[v][e] + 1 /\ devices[v][e] \in Nat
      /\ \A d \in Keys : d # e => Row[d] = devices[v][d]
  BY <1>1
<1> HIDE DEF Row
<1>3. \A u \in Users : devices'[u] = IF u = v THEN Row ELSE devices[u]
  BY <1>1
<1>4. devices'[v][e] > 0
  BY <1>2, <1>3
<1>5. ASSUME NEW u \in Users, NEW d \in Keys, devices[u][d] > 0
      PROVE  devices'[u][d] > 0
  BY <1>2, <1>3, <1>4, <1>5
<1> QED BY <1>4, <1>5 DEF KnownDevice, Keys

(* No step of the service forgets a device.                                *)
LEMMA KnownStays ==
  ASSUME AuthInv, [Next]_authVars, NEW u \in Users, NEW d \in Devices \cup {None},
         KnownDevice(u, d)
  PROVE  KnownDevice(u, d)'
<1>1. CASE devices' = devices
  BY <1>1 DEF KnownDevice
<1>2. ASSUME NEW r \in Requests, DeviceInsert(r)  PROVE KnownDevice(u, d)'
  <2>1. /\ InsertDevice(req[r].user, req[r].aux)
        /\ req[r].user \in Users /\ req[r].aux \in Devices \cup {None}
    BY <1>2, Known DEF DeviceInsert, At, LocalsOK, MfaPCs, InFlight
  <2> QED BY <2>1, InsertKeepsKnown
<1>3. RowLapses \/ Cleanup \/ (\E e \in Devices : IpWindowLapses(e)) \/ Crash
        \/ UNCHANGED authVars => devices' = devices
  BY DEF RowLapses, TokenLapses, SessionLapses, LockLapses, Cleanup, CleanupSessions,
         CleanupTokens, CleanupFails, DeleteExpiredSessions, DeleteExpiredTokens,
         IpWindowLapses, Crash, authVars, tables
<1> QED BY <1>1, <1>2, <1>3, DeviceWriters DEF Next

(* The steps of a handler that holds a session it may elevate.             *)
LEMMA MfaSteps ==
  ASSUME AuthInv, NEW r \in Requests, Call(r) \/ Step(r) \/ DeviceFails(r),
         req[r].pc \in MfaPCs
  PROVE  MfaCheck(r) \/ MfaElevate(r) \/ DeviceLookup(r) \/ DeviceInsert(r) \/ DeviceFails(r)
<1>1. ~Call(r)
  BY CallIsNew
  DEF MfaPCs, Call, RegistrationCalls, Register, VerifyEmail, SetupPassword, SetupMfa,
      SignInCalls, Login, VerifyMfaSetup, VerifyMfaDb, VerifyMfa,
      PasswordCalls, ForgotPassword, ResetPassword, ChangePassword,
      SessionCalls, Logout, RevokeSession, RevokeAllOthers
<1> QED
  BY <1>1
  DEF MfaPCs, Step, At, RegistrationSteps, RegisterToken, RegisterEmail,
      VerifyEmailConsume, VerifyEmailMark, VerifyEmailIssue,
      SetupPasswordConsume, SetupPasswordSet, SetupPasswordSession, SetupMfaSecret, SetupMfaCode,
      SignInSteps, LoginIncrement, LoginReread, LoginLock, LoginReset, LoginSession,
      PasswordSteps, ForgotToken, ForgotEmail, ResetConsume, ResetUpdate, ResetRevoke,
      ChangeCheck, ChangeUpdate, SessionSteps, RevokeDelete, RevokeAllDelete

(* A session that is there was there, for the same user and from the same  *)
(* device, and authenticated unless a handler has just elevated it; or its *)
(* request has just opened it.                                             *)
SessionsGrow ==
  \A s \in SessionIds : sessions'[s] # None =>
    \/ /\ sessions[s] # None
       /\ sessions'[s].user = sessions[s].user /\ sessions'[s].device = sessions[s].device
       /\ sessions'[s].state = "authenticated" =>
            \/ sessions[s].state = "authenticated"
            \/ \E r \in Requests : MfaElevate(r) /\ s = req[r].ref
    \/ s \in Requests /\ InFlight(s) /\ sessions'[s].state # "authenticated"

(* Every step of the service.                                              *)
LEMMA NextSessions ==
  ASSUME AuthInv, [Next]_authVars
  PROVE  SessionsGrow
<1> SUFFICES ASSUME NEW s \in SessionIds, sessions'[s] # None
             PROVE  \/ /\ sessions[s] # None
                       /\ sessions'[s].user = sessions[s].user
                       /\ sessions'[s].device = sessions[s].device
                       /\ sessions'[s].state = "authenticated" =>
                            \/ sessions[s].state = "authenticated"
                            \/ \E r \in Requests : MfaElevate(r) /\ s = req[r].ref
                    \/ s \in Requests /\ InFlight(s) /\ sessions'[s].state # "authenticated"
  BY DEF SessionsGrow
<1>1. sessions[s] # None => sessions[s] \in SessionRow
  BY Types DEF SessionsTable
<1>2. ASSUME sessions[s] \in SessionRow
      PROVE  /\ [sessions[s] EXCEPT !.lapsed = TRUE].user = sessions[s].user
             /\ [sessions[s] EXCEPT !.lapsed = TRUE].device = sessions[s].device
             /\ [sessions[s] EXCEPT !.lapsed = TRUE].state = sessions[s].state
             /\ [sessions[s] EXCEPT !.state = "authenticated"].user = sessions[s].user
             /\ [sessions[s] EXCEPT !.state = "authenticated"].device = sessions[s].device
  BY <1>2 DEF SessionRow
<1>3. CASE sessions'[s] = sessions[s]
  BY <1>3
<1>4. CASE ~ \E r \in Requests : Call(r) \/ Step(r) \/ DeviceFails(r)
  BY <1>1, <1>2, <1>3, <1>4, ClockSessions
<1>5. ASSUME NEW r \in Requests, Call(r) \/ Step(r) \/ DeviceFails(r),
             req[r].pc = "mfa.elevate", s = req[r].ref
      PROVE  MfaElevate(r)
  BY <1>5, MfaSteps DEF MfaPCs, MfaCheck, DeviceLookup, DeviceInsert, DeviceFails, At
<1>6. ASSUME NEW r \in Requests, Call(r) \/ Step(r) \/ DeviceFails(r), SessionChange(r, s)
      PROVE  \/ /\ sessions[s] # None
                /\ sessions'[s].user = sessions[s].user
                /\ sessions'[s].device = sessions[s].device
                /\ sessions'[s].state = "authenticated" =>
                     \/ sessions[s].state = "authenticated"
                     \/ \E q \in Requests : MfaElevate(q) /\ s = req[q].ref
             \/ s \in Requests /\ InFlight(s) /\ sessions'[s].state # "authenticated"
  BY <1>1, <1>2, <1>3, <1>5, <1>6 DEF SessionChange
<1> QED BY <1>4, <1>6, HandlerSessions

(* The handler that holds a session has its device.                        *)
HasDevice(r) ==
  req[r].pc \in MfaPCs /\ sessions[req[r].ref] # None
    => sessions[req[r].ref].device = req[r].aux

(* A handler that keeps its locals still has the device.                   *)
LEMMA StillHasDevice ==
  ASSUME AuthInv, SessionsGrow, NEW q \in Requests, HasDevice(q),
         req[q].pc \in MfaPCs, req'[q].ref = req[q].ref, req'[q].aux = req[q].aux
  PROVE  HasDevice(q)'
<1>1. req[q].ref \in SessionIds /\ (req[q].ref \in Requests => req[req[q].ref].pc = "done")
  BY Known DEF LocalsOK, KnowledgeOK
<1> QED BY <1>1 DEF HasDevice, SessionsGrow, InFlight

(* Every step of the service.                                              *)
LEMMA NextHasDevice ==
  ASSUME AuthInv, DeviceInv, [Next]_authVars, NEW q \in Requests
  PROVE  HasDevice(q)'
<1>1. SessionsGrow /\ HasDevice(q)
  BY NextSessions DEF DeviceInv, HasDevice
<1>2. CASE req'[q] = req[q]
  BY <1>1, <1>2, StillHasDevice DEF HasDevice
<1>3. ASSUME Call(q) \/ Step(q) \/ DeviceFails(q)
      PROVE  HasDevice(q)'
  <2>1. CASE MfaCheck(q) \/ MfaElevate(q) \/ DeviceLookup(q)
    <3>1. req[q].pc \in MfaPCs
      BY <2>1 DEF MfaCheck, MfaElevate, DeviceLookup, At, MfaPCs
    <3>2. CASE Return(q)
      BY <3>2, Types DEF Return, DoneHandler, NewHandler, HasDevice, MfaPCs
    <3>3. ASSUME NEW pc, Goto(q, pc)  PROVE HasDevice(q)'
      BY <1>1, <3>1, <3>3, Types, StillHasDevice DEF Goto, Handler
    <3> QED BY <2>1, <3>2, <3>3 DEF MfaCheck, MfaElevate, DeviceLookup
  <2>2. ASSUME NEW s \in SessionIds, NEW c \in Secrets,
               VerifyMfaSetup(q, s, c) \/ VerifyMfaDb(q, s, c)
        PROVE  HasDevice(q)'
    BY <2>2, Types
    DEF VerifyMfaSetup, VerifyMfaDb, VerifyMfa, Suspend, Return, DoneHandler, NewHandler,
        tables, HasDevice, MfaPCs
  <2>3. CASE req'[q].pc \notin MfaPCs
    BY <2>3 DEF HasDevice
  <2> QED BY <1>3, <2>1, <2>2, <2>3, HandlerGoes DEF Goes
<1>4. ASSUME NEW r \in Requests, Call(r) \/ Step(r) \/ DeviceFails(r)
      PROVE  HasDevice(q)'
  BY <1>2, <1>3, <1>4, HandlerGoes DEF Goes
<1>5. CASE Crash
  BY <1>2, <1>5 DEF Crash, DoneHandler, NewHandler, HasDevice, MfaPCs
<1>6. RowLapses \/ (\E d \in Devices : IpWindowLapses(d)) \/ Cleanup \/ UNCHANGED authVars
        => req' = req
  BY DEF RowLapses, IpWindowLapses, Cleanup, CleanupSessions, CleanupTokens, CleanupFails,
         authVars, process
<1> QED BY <1>2, <1>4, <1>5, <1>6 DEF Next

(* The handler that has elevated a session s is still to record its device.*)
Recording(r, s) == req[r].pc \in {"mfa.device", "mfa.insert"} /\ req[r].ref = s

(* Without failures it goes on until the device is known.                  *)
LEMMA RecordingEnds ==
  ASSUME AuthInv, DeviceInv, [Next]_authVars, faults' = 0,
         NEW r \in Requests, NEW s \in SessionIds, Recording(r, s), sessions[s] # None
  PROVE  Recording(r, s)' \/ devices'[sessions[s].user][sessions[s].device] > 0
<1>1. /\ sessions[s].user = req[r].user /\ sessions[s].device = req[r].aux
      /\ req[r].user \in Users /\ req[r].aux \in Devices \cup {None}
  BY Known DEF DeviceInv, Recording, LocalsOK, KnowledgeOK, MfaPCs, InFlight
<1>2. CASE req'[r] = req[r]
  BY <1>2 DEF Recording
<1>3. CASE DeviceLookup(r)
  BY <1>1, <1>3, Types DEF DeviceLookup, Goto, Handler, Recording, KnownDevice, tables
<1>4. CASE DeviceInsert(r)
  <2>1. \A v \in Users, e \in Devices \cup {None} : InsertDevice(v, e) => devices'[v][e] > 0
    BY InsertKeepsKnown DEF KnownDevice
  <2>2. InsertDevice(req[r].user, req[r].aux)
    BY <1>4 DEF DeviceInsert
  <2> QED BY <1>1, <2>1, <2>2
<1>5. ~DeviceFails(r) /\ ~Crash
  BY Types DEF DeviceFails, Crash
<1>6. ASSUME NEW q \in Requests, Call(q) \/ Step(q) \/ DeviceFails(q)
      PROVE  req'[r] = req[r] \/ DeviceLookup(r) \/ DeviceInsert(r)
  <2>1. CASE q # r
    BY <1>6, <2>1, HandlerGoes DEF Goes
  <2>2. CASE q = r
    BY <1>5, <1>6, <2>2, MfaSteps DEF Recording, MfaPCs, MfaCheck, MfaElevate, At
  <2> QED BY <2>1, <2>2
<1>7. RowLapses \/ (\E d \in Devices : IpWindowLapses(d)) \/ Cleanup \/ UNCHANGED authVars
        => req' = req
  BY DEF RowLapses, IpWindowLapses, Cleanup, CleanupSessions, CleanupTokens, CleanupFails,
         authVars, process
<1> QED BY <1>2, <1>3, <1>4, <1>5, <1>6, <1>7 DEF Next

(* Every step of the service preserves DeviceInv.                          *)
LEMMA DeviceNext ==
  ASSUME AuthInv, DeviceInv, [Next]_authVars
  PROVE  DeviceInv'
<1>1. \A q \in Requests : HasDevice(q)'
  BY NextHasDevice
<1>2. ASSUME NEW s \in SessionIds, faults' = 0,
             sessions'[s] # None, sessions'[s].state = "authenticated"
      PROVE  \/ devices'[sessions'[s].user][sessions'[s].device] > 0
             \/ \E r \in Requests : Recording(r, s)'
  <2>1. /\ sessions[s] # None
        /\ sessions'[s].user = sessions[s].user /\ sessions'[s].device = sessions[s].device
        /\ \/ sessions[s].state = "authenticated"
           \/ \E r \in Requests : MfaElevate(r) /\ s = req[r].ref
    BY <1>2, NextSessions DEF SessionsGrow
  <2>2. ASSUME NEW r \in Requests, MfaElevate(r), s = req[r].ref
        PROVE  Recording(r, s)'
    BY <2>2, Types DEF MfaElevate, Goto, Handler, Recording
  <2>3. CASE sessions[s].state = "authenticated"
    <3>1. sessions[s].user \in Users /\ sessions[s].device \in Devices \cup {None}
      BY <2>1, Types, SessionFields
    <3>2. \/ devices[sessions[s].user][sessions[s].device] > 0
          \/ \E r \in Requests : Recording(r, s)
      BY <1>2, <2>1, <2>3, NoFaultBefore
      DEF DeviceInv, AuthenticatedDeviceKnown, KnownDevice, Recording
    <3>3. ASSUME devices[sessions[s].user][sessions[s].device] > 0
          PROVE  devices'[sessions[s].user][sessions[s].device] > 0
      BY <3>1, <3>3, KnownStays DEF KnownDevice
    <3> QED BY <1>2, <2>1, <3>2, <3>3, RecordingEnds
  <2> QED BY <2>1, <2>2, <2>3
<1>3. AuthenticatedDeviceKnown'
  BY <1>2 DEF AuthenticatedDeviceKnown, KnownDevice, Recording
<1> QED BY <1>1, <1>3 DEF DeviceInv, HasDevice

(* Users who are signed in at the start are on a known device.             *)
LEMMA DeviceInit ==
  ASSUME Init
  PROVE  DeviceInv
<1>1. \A r \in Requests : req[r].pc = "new"
  BY DEF Init, RequestsInit, NewHandler
<1>2. ASSUME NEW s \in SessionIds, sessions[s] # None
      PROVE  KnownDevice(sessions[s].user, sessions[s].device)
  <2>1. /\ s \in SignedIn /\ s \in Users
        /\ sessions[s].user = s /\ sessions[s].device = None
    BY <1>2, AuthAssumption DEF Init, TablesInit
  <2>2. devices[s][None] = 1
    BY <2>1 DEF Init, TablesInit
  <2> QED BY <2>1, <2>2 DEF KnownDevice
<1> QED BY <1>1, <1>2 DEF DeviceInv, MfaPCs, AuthenticatedDeviceKnown

(* Without failures, a user who completed TOTP is on a known device, or    *)
(* the handler that elevated the session is about to record it.            *)
THEOREM DevicesKnown == Spec => []AuthenticatedDeviceKnown
<1>1. DeviceInv => AuthenticatedDeviceKnown
  BY DEF DeviceInv
<1> QED BY <1>1, DeviceInit, DeviceNext, Invariance, PTL DEF Spec

-----------------------------------------------------------------------------
(* The refinement: what a step does to the abstract variables              *)

Returned == \A q \in Requests : req[q].pc = "done" => req'[q].pc = "done"

(* The accounts are where they were.                                       *)
AccountsKept == (\A u \in Users : Phase(u)' = Phase(u)) /\ Factor' = Factor

(* A step that ends sessions, or does nothing a client could see.          *)
LEMMA Retires ==
  ASSUME AuthInv, Returned, AccountsKept,
         \A s \in SessionIds :
           sessions'[s] = None \/ (sessions[s] # None /\ Session(s)' = Session(s))
  PROVE  Lifecycle!Retire
<1>1. \A s \in SessionIds : s \in Spent => s \in Spent'
  BY DEF Spent, Returned
<1>2. Spent \subseteq Spent' /\ Spent' \subseteq SessionIds
  BY <1>1 DEF Spent
<1>3. \A s \in SessionIds : Session(s)' = IF s \in Spent' THEN None ELSE Session(s)
  BY DEF Spent, Session, Returned, AuthInv, RowsOK
<1>4. \A u \in Users : Phase(u)' = Phase(u)
  BY DEF AccountsKept
<1>5. Factor' = Factor
  BY DEF AccountsKept
<1>6. [s \in SessionIds |-> Session(s)']
        = [s \in SessionIds |-> IF s \in Spent' THEN None ELSE Session(s)]
  BY <1>3
<1>7. [s \in SessionIds |-> IF s \in Spent' THEN None ELSE Session(s)]
        = [s \in SessionIds |-> IF s \in Spent' THEN None ELSE [q \in SessionIds |-> Session(q)][s]]
  OBVIOUS
<1>8. [u \in Users |-> Phase(u)'] = [u \in Users |-> Phase(u)]
  BY <1>4
<1> QED BY <1>2, <1>5, <1>6, <1>7, <1>8 DEF Lifecycle!Retire

(* A step of an account leaves the sessions and the ids alone.             *)
SessionsAside ==
  /\ \A s \in SessionIds : Session(s)' = Session(s)
  /\ Spent' = Spent

(* One account moves to the next phase.                                    *)
LEMMA Advances ==
  ASSUME NEW u \in Users, NEW p,
         \A v \in Users : Phase(v)' = IF v = u THEN p ELSE Phase(v),
         Factor' = Factor, SessionsAside
  PROVE  /\ Phase(u) = "absent" /\ p = "pending" => Lifecycle!Register(u)
         /\ Phase(u) = "pending" /\ p = "verified" => Lifecycle!Verify(u)
         /\ Phase(u) = "verified" /\ p = "active" => Lifecycle!Activate(u)
<1>1. [v \in Users |-> Phase(v)'] = [[v \in Users |-> Phase(v)] EXCEPT ![u] = p]
  OBVIOUS
<1>2. [s \in SessionIds |-> Session(s)'] = [s \in SessionIds |-> Session(s)] /\ Spent' = Spent
  BY DEF SessionsAside
<1>3. [v \in Users |-> Phase(v)][u] = Phase(u)
  OBVIOUS
<1> QED BY <1>1, <1>2, <1>3 DEF Lifecycle!Register, Lifecycle!Verify, Lifecycle!Activate

(* An active account gets its factor.                                      *)
LEMMA GainsFactor ==
  ASSUME NEW u \in Users, Phase(u) = "active", \A v \in Users : Phase(v)' = Phase(v),
         Factor' = Factor \cup {u}, SessionsAside
  PROVE  Lifecycle!AddFactor(u)
<1>1. [v \in Users |-> Phase(v)'] = [v \in Users |-> Phase(v)]
  OBVIOUS
<1>2. [s \in SessionIds |-> Session(s)'] = [s \in SessionIds |-> Session(s)] /\ Spent' = Spent
  BY DEF SessionsAside
<1>3. [v \in Users |-> Phase(v)][u] = "active"
  OBVIOUS
<1> QED BY <1>1, <1>2, <1>3 DEF Lifecycle!AddFactor

(* A session opens.                                                        *)
LEMMA Opens ==
  ASSUME NEW t \in SessionIds, NEW u \in Users, Phase(u) = "active",
         AccountsKept, Session(t) = None, t \notin Spent, Spent' = Spent,
         \A s \in SessionIds :
           Session(s)' = IF s = t THEN [user |-> u, full |-> FALSE] ELSE Session(s)
  PROVE  Lifecycle!Open(t, u)
<1> DEFINE row == [user |-> u, full |-> FALSE]
<1> HIDE DEF row
<1>1. [s \in SessionIds |-> Session(s)']
        = [[s \in SessionIds |-> Session(s)] EXCEPT ![t] = row]
  BY DEF row
<1>2. [v \in Users |-> Phase(v)'] = [v \in Users |-> Phase(v)] /\ Factor' = Factor
  BY DEF AccountsKept
<1>3. [v \in Users |-> Phase(v)][u] = "active" /\ [s \in SessionIds |-> Session(s)][t] = None
  OBVIOUS
<1> QED BY <1>1, <1>2, <1>3 DEF Lifecycle!Open, row

(* Abstract sessions with the same fields are the same.                    *)
LEMMA SameSession ==
  ASSUME NEW c \in [user : Users, full : BOOLEAN], NEW d \in [user : Users, full : BOOLEAN],
         c.user = d.user, c.full = d.full
  PROVE  c = d
OBVIOUS

(* An abstract session is elevated.                                        *)
LEMMA MadeFull ==
  ASSUME NEW row \in [user : Users, full : BOOLEAN]
  PROVE  [row EXCEPT !.full = TRUE] = [user |-> row.user, full |-> TRUE]
<1> DEFINE a == [row EXCEPT !.full = TRUE]
           b == [user |-> row.user, full |-> TRUE]
<1>1. a \in [user : Users, full : BOOLEAN] /\ b \in [user : Users, full : BOOLEAN]
  OBVIOUS
<1>2. a.user = b.user /\ a.full = b.full
  OBVIOUS
<1>3. a = b
  <2> HIDE DEF a, b
  <2> QED BY <1>1, <1>2, SameSession
<1> QED BY <1>3

(* A session is elevated.                                                  *)
LEMMA Elevates ==
  ASSUME NEW t \in SessionIds, Session(t) \in [user : Users, full : BOOLEAN],
         Session(t).user \in Factor, AccountsKept, Spent' = Spent,
         \A s \in SessionIds :
           Session(s)' = IF s = t THEN [user |-> Session(t).user, full |-> TRUE] ELSE Session(s)
  PROVE  Lifecycle!Elevate(t)
<1>1. Session(t) # None
  BY LifecycleAssumption
<1> DEFINE M == [s \in SessionIds |-> Session(s)]
<1>2. M[t] = Session(t)
  OBVIOUS
<1>3. [s \in SessionIds |-> Session(s)'] = [M EXCEPT ![t] = [Session(t) EXCEPT !.full = TRUE]]
  BY MadeFull
<1>4. [M EXCEPT ![t].full = TRUE] = [M EXCEPT ![t] = [Session(t) EXCEPT !.full = TRUE]]
  BY <1>2
<1>5. [v \in Users |-> Phase(v)'] = [v \in Users |-> Phase(v)] /\ Factor' = Factor
  BY DEF AccountsKept
<1> QED BY <1>1, <1>2, <1>3, <1>4, <1>5 DEF Lifecycle!Elevate

-----------------------------------------------------------------------------
(* The refinement: what each step of the service is in the abstract        *)

(* A handler that has returned takes no step.                              *)
LEMMA HandlerReturned ==
  ASSUME AuthInv, NEW r \in Requests, Call(r) \/ Step(r) \/ DeviceFails(r)
  PROVE  Returned /\ req[r].pc # "done"
<1>1. ASSUME Call(r)  PROVE req[r].pc # "done"
  BY <1>1, CallIsNew
  DEF Call, RegistrationCalls, Register, VerifyEmail, SetupPassword, SetupMfa,
      SignInCalls, Login, VerifyMfaSetup, VerifyMfaDb, VerifyMfa,
      PasswordCalls, ForgotPassword, ResetPassword, ChangePassword,
      SessionCalls, Logout, RevokeSession, RevokeAllOthers
<1>2. ASSUME Step(r) \/ DeviceFails(r)  PROVE req[r].pc # "done"
  BY <1>2
  DEF Step, At, DeviceFails, RegistrationSteps, RegisterToken, RegisterEmail,
      VerifyEmailConsume, VerifyEmailMark, VerifyEmailIssue,
      SetupPasswordConsume, SetupPasswordSet, SetupPasswordSession, SetupMfaSecret, SetupMfaCode,
      SignInSteps, LoginIncrement, LoginReread, LoginLock, LoginReset, LoginSession,
      MfaCheck, MfaElevate, DeviceLookup, DeviceInsert,
      PasswordSteps, ForgotToken, ForgotEmail, ResetConsume, ResetUpdate, ResetRevoke,
      ChangeCheck, ChangeUpdate, SessionSteps, RevokeDelete, RevokeAllDelete
<1>3. req[r].pc # "done"
  BY <1>1, <1>2
<1> QED BY <1>3, HandlerGoes DEF Goes, Returned

(* A handler that does not return spends no id.                            *)
LEMMA SpendsNone ==
  ASSUME AuthInv, NEW r \in Requests, req[r].pc # "done", req'[r].pc # "done",
         \A q \in Requests : q # r => req'[q] = req[q], sessions' = sessions
  PROVE  SessionsAside
BY DEF SessionsAside, Spent, Session

(* Users who do not change are where they were in the lifecycle.           *)
LEMMA AccountsSame ==
  ASSUME users' = users
  PROVE  AccountsKept
BY DEF AccountsKept, Phase, Factor

(* The counter, the lock and a later password are not in the lifecycle.    *)
LEMMA ColumnsAside ==
  ASSUME users \in UsersTable, NEW v \in Users, users[v] # None,
         \/ IncrementFailedAttempts(v) \/ ResetFailedAttempts(v) \/ LockAccount(v)
         \/ users' = [users EXCEPT ![v].lock = "lapsed"]
         \/ \E p \in Passwords : UpdatePassword(v, p)
  PROVE  AccountsKept
<1>1. users[v] \in UserRow
  BY DEF UsersTable
<1>2. /\ users'[v] \in UserRow
      /\ users'[v].account_status = users[v].account_status
      /\ users'[v].email_verified = users[v].email_verified
      /\ users'[v].mfa_secret = users[v].mfa_secret
      /\ \A u \in Users : u # v => users'[u] = users[u]
  BY <1>1 DEF UsersTable, UserRow, IncrementFailedAttempts, ResetFailedAttempts, LockAccount,
              UpdatePassword
<1>3. users'[v] # None
  BY <1>2, RowAssumption
<1>4. \A u \in Users : Phase(u)' = Phase(u)
  BY <1>2, <1>3 DEF Phase
<1>5. Factor' = Factor
  BY <1>2, <1>3 DEF Factor
<1> QED BY <1>4, <1>5 DEF AccountsKept

(* A user is registered.                                                   *)
LEMMA CreateUserAdvances ==
  ASSUME users \in UsersTable, NEW u \in Users, users[u] = None, CreateUser(u), SessionsAside
  PROVE  Lifecycle!Register(u)
<1>1. users'[u] = PendingRow /\ \A v \in Users : v # u => users'[v] = users[v]
  BY DEF CreateUser, UsersTable
<1>2. PendingRow # None
  <2>1. PendingRow \in UserRow
    BY DEF PendingRow, UserRow
  <2> QED BY <2>1, RowAssumption
<1>3. /\ PendingRow.account_status # "active" /\ ~PendingRow.email_verified
      /\ PendingRow.mfa_secret = None
  BY DEF PendingRow
<1>4. /\ Phase(u) = "absent"
      /\ \A v \in Users : Phase(v)' = IF v = u THEN "pending" ELSE Phase(v)
  BY <1>1, <1>2, <1>3 DEF Phase
<1>5. Factor' = Factor
  BY <1>1, <1>2, <1>3 DEF Factor
<1> QED BY <1>4, <1>5, Advances

(* An e-mail is verified, or was.                                          *)
LEMMA MarkVerifiedAdvances ==
  ASSUME AuthInv, NEW u \in Users, users[u] # None, MarkVerified(u), SessionsAside
  PROVE  AccountsKept \/ Lifecycle!Verify(u)
<1>1. users[u] \in UserRow
  BY Types DEF UsersTable
<1>2. /\ users'[u] \in UserRow
      /\ users'[u].email_verified
      /\ users'[u].account_status = users[u].account_status
      /\ users'[u].mfa_secret = users[u].mfa_secret
      /\ \A v \in Users : v # u => users'[v] = users[v]
  BY <1>1, Types DEF UserRow, MarkVerified, UsersTable
<1>3. users'[u] # None
  BY <1>2, RowAssumption
<1>4. Factor' = Factor
  BY <1>2, <1>3 DEF Factor
<1>5. CASE Phase(u) = "pending"
  <2>1. \A v \in Users : Phase(v)' = IF v = u THEN "verified" ELSE Phase(v)
    BY <1>2, <1>3, <1>5 DEF Phase
  <2> QED BY <1>4, <1>5, <2>1, Advances
<1>6. CASE Phase(u) # "pending"
  BY <1>2, <1>3, <1>4, <1>6 DEF Phase, AccountsKept
<1> QED BY <1>5, <1>6

(* An account is activated, or was.                                        *)
LEMMA SetPasswordAdvances ==
  ASSUME AuthInv, NEW u \in Users, users[u] # None, users[u].email_verified,
         NEW p \in Passwords, SetPassword(u, p), SessionsAside
  PROVE  AccountsKept \/ Lifecycle!Activate(u)
<1>1. users[u] \in UserRow
  BY Types DEF UsersTable
<1>2. /\ users'[u] \in UserRow
      /\ users'[u].account_status = "active"
      /\ users'[u].mfa_secret = users[u].mfa_secret
      /\ \A v \in Users : v # u => users'[v] = users[v]
  BY <1>1, Types DEF UserRow, SetPassword, UsersTable
<1>3. users'[u] # None
  BY <1>2, RowAssumption
<1>4. Factor' = Factor
  BY <1>2, <1>3 DEF Factor
<1>5. \A v \in Users : Phase(v)' = IF v = u THEN "active" ELSE Phase(v)
  BY <1>2, <1>3 DEF Phase
<1>6. Phase(u) \in {"verified", "active"}
  BY DEF Phase
<1>7. CASE Phase(u) = "verified"
  BY <1>4, <1>5, <1>7, Advances
<1>8. CASE Phase(u) = "active"
  BY <1>4, <1>5, <1>8 DEF AccountsKept
<1> QED BY <1>6, <1>7, <1>8

(* An account gets a factor.                                               *)
LEMMA SetMfaSecretAdvances ==
  ASSUME AuthInv, NEW u \in Users, users[u] # None, users[u].account_status = "active",
         NEW m \in Secrets, SetMfaSecret(u, m), SessionsAside
  PROVE  Lifecycle!AddFactor(u)
<1>1. users[u] \in UserRow
  BY Types DEF UsersTable
<1>2. /\ users'[u] \in UserRow
      /\ users'[u].account_status = "active"
      /\ users'[u].mfa_secret = m
      /\ \A v \in Users : v # u => users'[v] = users[v]
  BY <1>1, Types DEF UserRow, SetMfaSecret, UsersTable
<1>3. users'[u] # None /\ m # None
  BY <1>2, RowAssumption, AuthAssumption DEF Secrets
<1>4. Factor' = Factor \cup {u}
  BY <1>2, <1>3 DEF Factor
<1>5. Phase(u) = "active" /\ \A v \in Users : Phase(v)' = Phase(v)
  BY <1>2, <1>3 DEF Phase
<1> QED BY <1>4, <1>5, GainsFactor

(* The row of a session and what the lifecycle sees of it.                 *)
LEMMA AbstractSession ==
  ASSUME NEW s \in SessionIds, sessions[s] \in SessionRow
  PROVE  /\ Session(s) \in [user : Users, full : BOOLEAN]
         /\ Session(s) = [user |-> sessions[s].user, full |-> sessions[s].state = "authenticated"]
BY RowAssumption DEF Session, SessionRow

(* The step of a handler, when no account is written.                      *)
LEMMA HandlerRetires ==
  ASSUME AuthInv, NEW r \in Requests, Call(r) \/ Step(r) \/ DeviceFails(r), AccountsKept,
         \A s \in SessionIds :
           sessions'[s] = None \/ (sessions[s] # None /\ Session(s)' = Session(s))
  PROVE  Lifecycle!Retire
BY HandlerReturned, Retires

(* A session is opened by a handler that returns.                          *)
LEMMA OpenImplements ==
  ASSUME AuthInv, NEW r \in Requests, InFlight(r), Return(r), AccountsKept,
         req[r].pc \in ActivePCs, NEW state \in {"pre_mfa", "mfa_setup"},
         NEW d \in Devices \cup {None}, CreateSession(r, req[r].user, state, d)
  PROVE  Lifecycle!Open(r, req[r].user)
<1> DEFINE row == [user |-> req[r].user, state |-> state, device |-> d, lapsed |-> FALSE]
<1>1. /\ req[r].user \in Users /\ users[req[r].user] # None
      /\ users[req[r].user].account_status = "active"
  BY Known DEF LocalsOK, KnowledgeOK
<1>2. /\ row \in SessionRow /\ row.state # "authenticated" /\ row.user = req[r].user
  BY <1>1 DEF SessionRow
<1> HIDE DEF row
<1>3. /\ sessions' = [sessions EXCEPT ![r] = row] /\ r \in SessionIds /\ sessions[r] = None
      /\ row # None
  BY <1>2, NoSessionYet, RowAssumption DEF CreateSession, row
<1>4. /\ sessions'[r] = row
      /\ \A s \in SessionIds : s # r => sessions'[s] = sessions[s]
      /\ req'[r].pc = "done" /\ \A q \in Requests : q # r => req'[q] = req[q]
  BY <1>3, Types, ReturnEffect DEF SessionsTable, Moves
<1>5. Phase(req[r].user) = "active" /\ Session(r) = None /\ r \notin Spent
  BY <1>1, <1>3 DEF Phase, Session, Spent, InFlight
<1>6. Spent' = Spent
  BY <1>3, <1>4, <1>5 DEF Spent
<1>7. \A s \in SessionIds :
        Session(s)' = IF s = r THEN [user |-> req[r].user, full |-> FALSE] ELSE Session(s)
  <2>1. (row.state = "authenticated") = FALSE
    BY <1>2
  <2>2. Session(r)' = [user |-> row.user, full |-> row.state = "authenticated"]
    BY <1>3, <1>4 DEF Session
  <2>3. Session(r)' = [user |-> req[r].user, full |-> FALSE]
    BY <1>2, <2>1, <2>2
  <2>4. \A s \in SessionIds : s # r => Session(s)' = Session(s)
    BY <1>4 DEF Session
  <2> QED BY <2>3, <2>4
<1> QED BY <1>1, <1>3, <1>5, <1>6, <1>7, Opens

(* A session is elevated, if it is still there and was not.                *)
LEMMA ElevateImplements ==
  ASSUME AuthInv, NEW r \in Requests, MfaElevate(r)
  PROVE  Lifecycle!Retire \/ Lifecycle!Elevate(req[r].ref)
<1> DEFINE t == req[r].ref
<1>1. /\ req[r].pc = "mfa.elevate" /\ UpdateState(t, "authenticated") /\ users' = users
      /\ Goto(r, "mfa.device")
  BY DEF MfaElevate, At
<1>2. t \in SessionIds /\ users[req[r].user] # None /\ req[r].user \in Users
  BY <1>1, Known DEF LocalsOK, MfaPCs, InFlight
<1>3. AccountsKept
  BY <1>1, AccountsSame
<1>4. Call(r) \/ Step(r) \/ DeviceFails(r)
  BY DEF Step, SignInSteps
<1>5. CASE sessions[t] = None
  <2>1. sessions' = sessions
    BY <1>1, <1>5 DEF UpdateState
  <2>2. \A s \in SessionIds :
          sessions'[s] = None \/ (sessions[s] # None /\ Session(s)' = Session(s))
    BY <2>1 DEF Session
  <2> QED BY <1>3, <1>4, <2>2, HandlerRetires
<1>6. CASE sessions[t] # None
  <2>1. sessions[t] \in SessionRow /\ sessions' = [sessions EXCEPT ![t].state = "authenticated"]
    BY <1>1, <1>2, <1>6, Types DEF UpdateState, SessionsTable
  <2>2. /\ sessions'[t] \in SessionRow /\ sessions'[t].user = sessions[t].user
        /\ sessions'[t].state = "authenticated"
        /\ \A s \in SessionIds : s # t => sessions'[s] = sessions[s]
    BY <1>2, <2>1, Types DEF SessionRow, SessionsTable
  <2>3. sessions'[t] # None
    BY <2>2, RowAssumption
  <2>4. sessions[t].user \in Factor
    BY <1>1, <1>2, <1>6, Known DEF KnowledgeOK, MfaPCs, Factor
  <2>5. /\ Session(t) \in [user : Users, full : BOOLEAN]
        /\ Session(t).user = sessions[t].user
    BY <1>2, <2>1, AbstractSession
  <2>6. \A s \in SessionIds :
          Session(s)' = IF s = t THEN [user |-> Session(t).user, full |-> TRUE] ELSE Session(s)
    BY <2>2, <2>3, <2>5 DEF Session
  <2>7. Spent' = Spent
    <3>1. \A q \in Requests : req'[q].pc = "done" <=> req[q].pc = "done"
      BY <1>1, Types, GotoEffect DEF Moves, PCs
    <3>2. \A s \in SessionIds : sessions'[s] = None <=> sessions[s] = None
      BY <1>6, <2>2, <2>3
    <3> QED BY <3>1, <3>2 DEF Spent
  <2> QED BY <1>2, <1>3, <2>4, <2>5, <2>6, <2>7, Elevates
<1> QED BY <1>5, <1>6

(* Every session is as it was, or ended.                                   *)
LEMMA SessionsEnded ==
  ASSUME \A s \in SessionIds : sessions'[s] = None \/ sessions'[s] = sessions[s]
  PROVE  \A s \in SessionIds :
           sessions'[s] = None \/ (sessions[s] # None /\ Session(s)' = Session(s))
BY DEF Session

(* A handler that writes no account.                                       *)
LEMMA SessionsImplement ==
  ASSUME AuthInv, NEW r \in Requests, Call(r) \/ Step(r) \/ DeviceFails(r), AccountsKept
  PROVE  Lifecycle!Next
<1>1. CASE SetupPasswordSession(r)
  <2>1. req[r].pc \in ActivePCs /\ InFlight(r) /\ Return(r)
        /\ CreateSession(r, req[r].user, "mfa_setup", None)
    BY <1>1 DEF SetupPasswordSession, At, ActivePCs, InFlight
  <2>2. Lifecycle!Open(r, req[r].user) /\ r \in SessionIds /\ req[r].user \in Users
    BY <2>1, Known, OpenImplements DEF LocalsOK, SessionIds
  <2> QED BY <2>2 DEF Lifecycle!Next
<1>2. CASE LoginSession(r)
  <2>1. req[r].pc \in ActivePCs /\ InFlight(r) /\ Return(r) /\ req[r].arg \in Devices
        /\ CreateSession(r, req[r].user, "pre_mfa", req[r].arg)
    BY <1>2, Known DEF LoginSession, At, ActivePCs, InFlight, LocalsOK
  <2>2. Lifecycle!Open(r, req[r].user) /\ r \in SessionIds /\ req[r].user \in Users
    BY <2>1, Known, OpenImplements DEF LocalsOK, SessionIds
  <2> QED BY <2>2 DEF Lifecycle!Next
<1>3. CASE MfaElevate(r)
  <2>1. req[r].ref \in SessionIds
    BY <1>3, Known DEF MfaElevate, At, LocalsOK, MfaPCs
  <2> QED BY <1>3, <2>1, ElevateImplements DEF Lifecycle!Next
<1>4. CASE \/ sessions' = sessions
           \/ ResetRevoke(r) \/ RevokeDelete(r) \/ RevokeAllDelete(r)
           \/ \E s \in SessionIds : Logout(r, s)
  <2>1. \A s \in SessionIds : sessions'[s] = None \/ sessions'[s] = sessions[s]
    BY <1>4 DEF ResetRevoke, RevokeDelete, RevokeAllDelete, Logout, DeleteSessions
  <2> QED BY <2>1, SessionsEnded, HandlerRetires DEF Lifecycle!Next
<1> QED BY <1>1, <1>2, <1>3, <1>4, SessionWriters

(* A handler that writes an account and goes on touches nothing else.      *)
LEMMA WritesAside ==
  ASSUME AuthInv, NEW r \in Requests, Call(r) \/ Step(r) \/ DeviceFails(r),
         req'[r].pc # "done", sessions' = sessions
  PROVE  SessionsAside
BY HandlerReturned, HandlerGoes, SpendsNone DEF Goes

(* A handler that goes on has not returned.                                *)
LEMMA GoesOnNotDone ==
  ASSUME AuthInv, NEW r \in Requests, NEW pc \in PCs, pc # "done", Goto(r, pc)
  PROVE  req'[r].pc # "done"
BY Types, GotoEffect

(* Every call and every step of a handler.                                 *)
LEMMA HandlerImplements ==
  ASSUME AuthInv, NEW r \in Requests, Call(r) \/ Step(r) \/ DeviceFails(r)
  PROVE  Lifecycle!Next
<1>1. CASE users' = users
  BY <1>1, AccountsSame, SessionsImplement
<1>2. ASSUME NEW u \in Users, Register(r, u)
      PROVE  Lifecycle!Next
  <2>1. CASE users[u] # None
    BY <1>1, <1>2, <2>1 DEF Register, tables
  <2>2. CASE users[u] = None
    <3>1. /\ CreateUser(u) /\ sessions' = sessions
          /\ req' = [req EXCEPT ![r] = [pc |-> "register.token", user |-> u, ref |-> None,
                                       arg |-> None, aux |-> None]]
      BY <1>2, <2>2 DEF Register, Suspend
    <3>2. req'[r].pc # "done"
      BY <3>1, Types
    <3> QED BY <2>2, <3>1, <3>2, Types, WritesAside, CreateUserAdvances DEF Lifecycle!Next
  <2> QED BY <2>1, <2>2
<1>3. CASE VerifyEmailMark(r)
  <2>1. /\ MarkVerified(req[r].user) /\ sessions' = sessions /\ Goto(r, "verifyEmail.issue")
        /\ req[r].user \in Users /\ users[req[r].user] # None
    BY <1>3, Known DEF VerifyEmailMark, At, LocalsOK, InFlight
  <2>2. SessionsAside
    BY <2>1, GoesOnNotDone, WritesAside DEF PCs
  <2> QED BY <2>1, <2>2, MarkVerifiedAdvances, SessionsImplement DEF Lifecycle!Next
<1>4. CASE SetupPasswordSet(r)
  <2>1. /\ SetPassword(req[r].user, req[r].arg) /\ sessions' = sessions
        /\ Goto(r, "setupPassword.session")
        /\ req[r].user \in Users /\ users[req[r].user] # None
        /\ users[req[r].user].email_verified /\ req[r].arg \in Passwords
    BY <1>4, Known
    DEF SetupPasswordSet, At, LocalsOK, KnowledgeOK, InFlight, VerifiedPCs, PasswordPCs
  <2>2. SessionsAside
    BY <2>1, GoesOnNotDone, WritesAside DEF PCs
  <2> QED BY <2>1, <2>2, SetPasswordAdvances, SessionsImplement DEF Lifecycle!Next
<1>5. CASE SetupMfaSecret(r)
  <2>1. /\ SetMfaSecret(req[r].user, r) /\ sessions' = sessions /\ Goto(r, "setupMfa.code")
        /\ req[r].user \in Users /\ users[req[r].user] # None
        /\ users[req[r].user].account_status = "active" /\ r \in Secrets
    BY <1>5, Known, AuthAssumption
    DEF SetupMfaSecret, At, LocalsOK, KnowledgeOK, InFlight, ActivePCs, Secrets, Requests
  <2>2. SessionsAside
    BY <2>1, GoesOnNotDone, WritesAside DEF PCs
  <2> QED BY <2>1, <2>2, SetMfaSecretAdvances DEF Lifecycle!Next
<1>6. CASE LoginIncrement(r) \/ LoginLock(r) \/ LoginReset(r)
  <2>1. req[r].user \in Users /\ users[req[r].user] # None
    BY <1>6, Known DEF LoginIncrement, LoginLock, LoginReset, At, LocalsOK, InFlight
  <2> QED BY <1>6, <2>1, Types, ColumnsAside, SessionsImplement
          DEF LoginIncrement, LoginLock, LoginReset
<1>7. CASE ResetUpdate(r)
  <2>1. /\ req[r].user \in Users /\ users[req[r].user] # None /\ req[r].arg \in Passwords
        /\ UpdatePassword(req[r].user, req[r].arg)
    BY <1>7, Known DEF ResetUpdate, At, LocalsOK, InFlight, PasswordPCs
  <2> QED BY <2>1, Types, ColumnsAside, SessionsImplement
<1>8. CASE ChangeUpdate(r)
  <2>1. /\ req[r].user \in Users /\ users[req[r].user] # None /\ req[r].aux \in Passwords
        /\ UpdatePassword(req[r].user, req[r].aux)
    BY <1>8, Known DEF ChangeUpdate, At, LocalsOK, InFlight
  <2> QED BY <2>1, Types, ColumnsAside, SessionsImplement
<1> QED BY <1>1, <1>2, <1>3, <1>4, <1>5, <1>6, <1>7, <1>8, UserWriters

(* The clock, the job and a crash only retire sessions and ids.            *)
LEMMA ClockImplements ==
  ASSUME AuthInv, RowLapses \/ Cleanup
  PROVE  Lifecycle!Next
<1>1. req' = req
  BY DEF RowLapses, Cleanup, CleanupSessions, CleanupTokens, CleanupFails
<1>2. ASSUME AccountsKept,
             \A s \in SessionIds :
               sessions'[s] = None \/ (sessions[s] # None /\ Session(s)' = Session(s))
      PROVE  Lifecycle!Next
  BY <1>1, <1>2, Retires DEF Returned, Lifecycle!Next
<1>3. CASE \E t \in Requests : TokenLapses(t)
  BY <1>2, <1>3, AccountsSame, SessionsEnded DEF TokenLapses
<1>4. ASSUME NEW s \in SessionIds, SessionLapses(s)
      PROVE  Lifecycle!Next
  <2>1. /\ sessions[s] \in SessionRow /\ sessions[s] # None
        /\ sessions' = [sessions EXCEPT ![s].lapsed = TRUE]
    BY <1>4, Types DEF SessionLapses, SessionsTable
  <2>2. /\ sessions'[s] \in SessionRow /\ sessions'[s].user = sessions[s].user
        /\ sessions'[s].state = sessions[s].state
        /\ \A q \in SessionIds : q # s => sessions'[q] = sessions[q]
    BY <2>1, Types DEF SessionRow, SessionsTable
  <2>3. sessions'[s] # None
    BY <2>2, RowAssumption
  <2>4. \A q \in SessionIds :
          sessions'[q] = None \/ (sessions[q] # None /\ Session(q)' = Session(q))
    BY <2>1, <2>2, <2>3 DEF Session
  <2> QED BY <1>2, <1>4, <2>4, AccountsSame DEF SessionLapses
<1>5. ASSUME NEW u \in Users, LockLapses(u)
      PROVE  Lifecycle!Next
  BY <1>2, <1>5, Types, ColumnsAside, SessionsEnded DEF LockLapses
<1>6. CASE Cleanup
  <2>1. users' = users
    BY <1>6 DEF Cleanup, CleanupSessions, CleanupTokens, CleanupFails, DeleteExpiredSessions,
                DeleteExpiredTokens, tables
  <2>2. \A s \in SessionIds : sessions'[s] = None \/ sessions'[s] = sessions[s]
    BY <1>6 DEF Cleanup, CleanupSessions, CleanupTokens, CleanupFails, DeleteExpiredSessions,
                DeleteExpiredTokens, DeleteSessions, tables
  <2> QED BY <1>2, <2>1, <2>2, AccountsSame, SessionsEnded
<1> QED BY <1>3, <1>4, <1>5, <1>6 DEF RowLapses

(* A crash returns every handler, and changes no row.                      *)
LEMMA CrashImplements ==
  ASSUME AuthInv, Crash
  PROVE  Lifecycle!Next
<1>1. Returned
  BY DEF Crash, Returned, InFlight
<1>2. users' = users /\ sessions' = sessions
  BY DEF Crash, tables
<1> QED BY <1>1, <1>2, AccountsSame, SessionsEnded, Retires DEF Lifecycle!Next

(* Nothing changes that the lifecycle sees.                                *)
LEMMA StutterImplements ==
  ASSUME UNCHANGED <<users, sessions, req>>
  PROVE  UNCHANGED Lifecycle!lifecycleVars
<1>1. \A u \in Users : Phase(u)' = Phase(u)
  BY DEF Phase
<1>2. \A s \in SessionIds : Session(s)' = Session(s)
  BY DEF Session
<1>3. Factor' = Factor /\ Spent' = Spent
  BY DEF Factor, Spent
<1> QED BY <1>1, <1>2, <1>3 DEF Lifecycle!lifecycleVars

(* The initial states are initial states of the lifecycle.                 *)
LEMMA InitImplements ==
  ASSUME Init
  PROVE  Lifecycle!Init
<1>1. AuthInv
  BY InitInv
<1>2. /\ \A u \in Users : users[u] = IF u \in Enrolled THEN EnrolledRow ELSE None
      /\ EnrolledRow.account_status = "active" /\ EnrolledRow.mfa_secret = 0
      /\ SignedIn \subseteq Enrolled /\ Enrolled \subseteq Users /\ None # 0
      /\ EnrolledRow # None
  <2>1. EnrolledRow \in UserRow
    <3>1. 0 \in Secrets
      BY AuthAssumption DEF Secrets
    <3> QED BY <3>1, AuthAssumption DEF EnrolledRow, UserRow
  <2>2. EnrolledRow # None
    BY <2>1, RowAssumption
  <2>3. EnrolledRow.account_status = "active" /\ EnrolledRow.mfa_secret = 0 /\ None # 0
    BY AuthAssumption DEF EnrolledRow
  <2>4. \A u \in Users : users[u] = IF u \in Enrolled THEN EnrolledRow ELSE None
    BY DEF Init, TablesInit
  <2> QED BY <2>2, <2>3, <2>4, AuthAssumption
<1>3. \A u \in Users : Phase(u) = IF u \in Enrolled THEN "active" ELSE "absent"
  BY <1>2 DEF Phase
<1>4. Factor = Enrolled
  BY <1>2 DEF Factor
<1>5. \A s \in SessionIds :
        Session(s) \in {None} \cup [user : Factor, full : {TRUE}]
  <2> SUFFICES ASSUME NEW s \in SessionIds, sessions[s] # None
               PROVE  Session(s) \in [user : Factor, full : {TRUE}]
    BY DEF Session
  <2>1. s \in SignedIn /\ sessions[s].user = s /\ sessions[s].state = "authenticated"
    BY DEF Init, TablesInit
  <2>2. s \in Factor
    BY <1>2, <1>4, <2>1
  <2>3. Session(s) = [user |-> s, full |-> TRUE]
    BY <2>1 DEF Session
  <2> QED BY <2>2, <2>3
<1>6. Spent \subseteq SessionIds /\ \A s \in Spent : Session(s) = None
  BY DEF Spent, Session
<1>7. [u \in Users |-> Phase(u)] \in [Users -> {"absent", "active"}]
  BY <1>3
<1>8. Factor = {u \in Users : [v \in Users |-> Phase(v)][u] = "active"}
  BY <1>2, <1>3, <1>4
<1>9. [s \in SessionIds |-> Session(s)] \in
        [SessionIds -> {None} \cup [user : Factor, full : BOOLEAN]]
  BY <1>5
<1> QED BY <1>6, <1>7, <1>8, <1>9 DEF Lifecycle!Init

(* The service implements the lifecycle of the login design: whatever its  *)
(* queries interleave with, an account only moves forward, and a session   *)
(* opens, is elevated and ends as the abstract specification allows.       *)
THEOREM RefinesLifecycle == Spec => ImplementsLifecycle
<1>1. AuthInv /\ [Next]_authVars => [Lifecycle!Next]_Lifecycle!lifecycleVars
  <2>1. CASE \E d \in Devices : IpWindowLapses(d)
    BY <2>1, StutterImplements DEF IpWindowLapses, tables
  <2>2. CASE UNCHANGED authVars
    BY <2>2, StutterImplements DEF authVars, tables, process
  <2> QED BY <2>1, <2>2, HandlerImplements, ClockImplements, CrashImplements DEF Next
<1> QED BY <1>1, InitImplements, Invariance, PTL DEF Spec, ImplementsLifecycle, Lifecycle!Spec
=============================================================================
