------------------------------ MODULE AuthService ------------------------------
(***************************************************************************)
(* The database-backed auth service: every operation of authService.js     *)
(* that works on PostgreSQL, its handlers interleaving at every await, with *)
(* crashes of the API process, the cleanup job and the passing of time.    *)
(***************************************************************************)
EXTENDS Registration, SignIn, PasswordRecovery, SessionAdmin

Init == TablesInit /\ RequestsInit

(* A client calls an operation. *)
Call(r) == RegistrationCalls(r) \/ SignInCalls(r) \/ PasswordCalls(r) \/ SessionCalls(r)

(* The await of a handler in flight settles. *)
Step(r) == RegistrationSteps(r) \/ SignInSteps(r) \/ PasswordSteps(r) \/ SessionSteps(r)

Cleanup == CleanupSessions \/ CleanupTokens \/ CleanupFails

Next ==
  \/ \E r \in Requests : Call(r) \/ Step(r) \/ DeviceFails(r)
  \/ RowLapses
  \/ \E d \in Devices : IpWindowLapses(d)
  \/ Cleanup
  \/ Crash

(* The event loop resumes every handler whose await has settled, and the   *)
(* interval timer fires for as long as the process lives.  Clients, clocks *)
(* and failures are not fair.                                              *)
Fairness ==
  /\ \A r \in Requests : WF_authVars(Step(r))
  /\ WF_authVars(CleanupSessions) /\ WF_authVars(CleanupTokens)

Spec == Init /\ [][Next]_authVars /\ Fairness

-----------------------------------------------------------------------------
(* Type invariant of the tables and of the process. *)
TypeOK == TablesOK /\ RequestsOK

(* An account is active only with a verified e-mail and a password: the    *)
(* status, the flag and the hash are written by three handlers of two      *)
(* requests (verifyEmail, setupPassword) linked only by a setup token.     *)
ActiveIsVerified ==
  \A u \in Users :
    users[u] # None /\ users[u].account_status = "active"
      => users[u].email_verified /\ users[u].password # None

(* Two concurrent registrations of one address mail one token at most: the *)
(* UNIQUE constraint on primary_email, not a prior SELECT, decides.        *)
OneVerificationToken ==
  \A t1, t2 \in Requests :
    /\ tokens[t1] # None /\ tokens[t1].type = "email_verification"
    /\ tokens[t2] # None /\ tokens[t2].type = "email_verification"
    /\ tokens[t1].user = tokens[t2].user
    => t1 = t2

(* An authenticated session belongs to an active account with a TOTP       *)
(* secret: the secret is stored by setupMfa, read by one query of the      *)
(* verifying handler, and the session elevated by another.                 *)
AuthenticatedHasFactor ==
  \A s \in SessionIds :
    sessions[s] # None /\ sessions[s].state = "authenticated"
      => LET row == users[sessions[s].user] IN
         row # None /\ row.account_status = "active" /\ row.mfa_secret # None

(* Without failures, an account whose counter has reached the threshold is *)
(* locked or was, unless a login that failed is still on its way to lock   *)
(* it: increment, re-read and lock are three queries, and a concurrent     *)
(* success resets both counter and lock.                                   *)
LockoutEngages ==
  \A u \in Users :
    /\ faults = 0
    /\ users[u] # None /\ users[u].failed_attempts >= LockoutThreshold
    /\ users[u].lock = "none"
    => \E r \in Requests :
         req[r].pc \in {"login.reread", "login.lock"} /\ req[r].user = u

(* The password of an account is written only by a request that has spent  *)
(* a token of the right type issued to that very user (consumed before the *)
(* write: a crash between the two loses the write and never leaves a live  *)
(* token behind one), or by changePassword, for a user whose live session  *)
(* the request named when it arrived and whose password, as the row held   *)
(* it when it was read, the request knew.  A reset may replace the row's   *)
(* password between that read and the write.                               *)
SpentToken(r, u, type) ==
  LET t == req[r].ref IN
  t \in Requests /\ (tokens[t] # None =>
    tokens[t].consumed /\ tokens[t].user = u /\ tokens[t].type = type)

WritesSpend ==
  \A u \in Users :
    /\ users[u] # None /\ users'[u].password # users[u].password
    => \E r \in Requests :
         /\ req[r].user = u
         /\ \/ At(r, "setupPassword.set") /\ SpentToken(r, u, "password_setup")
            \/ At(r, "reset.update") /\ SpentToken(r, u, "password_reset")
            \/ At(r, "change.update")

SessionShown(r) ==   \* r names a live, authenticated session of the user it acts for
  LET s == req[r].ref IN
  s \in SessionIds /\ ValidSession(s, "authenticated") /\ sessions[s].user = req[r].user

PasswordShown(r) ==  \* r comes from the read of its user's row, and knew the password
  /\ At(r, "change.user")
  /\ req'[r].user = req[r].user /\ users[req[r].user].password = req[r].arg

ChangesVouched ==
  \A r \in Requests :
    /\ At(r, "change.user")' => req'[r] = req[r] \/ SessionShown(r)'
    /\ At(r, "change.update")' => req'[r] = req[r] \/ PasswordShown(r)

AuthorisedWrites == WritesSpend /\ ChangesVouched

PasswordWritesAuthorised == [][AuthorisedWrites]_authVars

(* A session row changes owner never, is elevated only to authenticated,   *)
(* and a deleted one stays deleted: the handler that elevates it may have  *)
(* read it before a logout, a revocation or the cleanup job removed it.    *)
SessionsElevate ==
  \A s \in SessionIds :
    /\ sessions'[s] # sessions[s]
    => \/ sessions'[s] = None
       \/ /\ sessions[s] = None
          /\ s \in Requests /\ InFlight(s) /\ req'[s] = DoneHandler
          /\ sessions'[s].state # "authenticated"
       \/ /\ sessions[s] # None
          /\ sessions'[s] \in { [sessions[s] EXCEPT !.lapsed = TRUE],
                                [sessions[s] EXCEPT !.state = "authenticated"] }

SessionsOnlyElevate == [][SessionsElevate]_authVars

(* A live session ends before its time only by the logout of its holder or *)
(* by a request acting for its owner: one user cannot end the sessions of  *)
(* another, whatever id is put in the path.                                *)
OwnersEnd ==
  \A s \in SessionIds :
    /\ sessions[s] # None /\ sessions'[s] = None /\ ~sessions[s].lapsed
    => \/ \E r \in Requests : arrived' = r /\ arrived = r - 1   \* Logout
       \/ \E r \in Requests : /\ req[r].user = sessions[s].user
                              /\ InFlight(r) /\ ~InFlight(r)'

OnlyOwnerEndsSessions == [][OwnersEnd]_authVars

(* Without failures, a user who completed TOTP is on a known device: the   *)
(* device is recorded after the session has been elevated, and its errors  *)
(* are swallowed.                                                          *)
AuthenticatedDeviceKnown ==
  \A s \in SessionIds :
    /\ faults = 0
    /\ sessions[s] # None /\ sessions[s].state = "authenticated"
    => \/ KnownDevice(sessions[s].user, sessions[s].device)
       \/ \E r \in Requests :
            req[r].pc \in {"mfa.device", "mfa.insert"} /\ req[r].ref = s

(* An account nobody can complete any more: its address is registered and  *)
(* not verified, and there is no token its holder can present, nor will    *)
(* there be, nor a handler on its way to mark it verified.                 *)
VerifyingPCs == {"register.token", "verifyEmail.consume", "verifyEmail.mark"}
Stranded(u) ==
  /\ users[u] # None /\ ~users[u].email_verified
  /\ \A r \in Requests : req[r].user = u => req[r].pc \notin VerifyingPCs
  /\ \A t \in Requests :
       ValidToken(t, "email_verification") /\ tokens[t].user = u
         => ~tokens[t].delivered /\ ~At(t, "register.email")

(* Without failures and expiry, only an e-mail that was never sent strands *)
(* an address: its token lies in the table, still good, and nobody has it. *)
(* Otherwise a registered address has its token issued or in the hands of  *)
(* its holder, or a handler that consumed it is about to mark the address: *)
(* user, token and e-mail are three awaits of register, token, mark and    *)
(* setup token three of verifyEmail, and several clicks on one link may be *)
(* under way.                                                              *)
OnlyMailStrands ==
  faults = 0 /\ lapses = 0 =>
    \A u \in Users : Stranded(u) =>
      \E t \in Requests : /\ ValidToken(t, "email_verification")
                         /\ tokens[t].user = u /\ ~tokens[t].delivered

(* A row past its deadline stays so until it is deleted, and an id whose   *)
(* row is gone, and whose request is, names no row again: a handler that   *)
(* still holds the id (consume, updateState, an e-mail that arrives late)  *)
(* writes to a row the cleanup job may have removed meanwhile.             *)
Issued(t) == req[t].pc \in {"register.email", "forgot.email", "done"}

Spent == {s \in SessionIds :
            sessions[s] = None /\ (s \in Requests => req[s].pc = "done")}

ExpiryKept ==
  /\ \A t \in Requests :
       /\ tokens[t] # None /\ tokens[t].lapsed => tokens'[t] = None \/ tokens'[t].lapsed
       /\ tokens[t] = None /\ Issued(t) => tokens'[t] = None
  /\ \A s \in SessionIds :
       /\ sessions[s] # None /\ sessions[s].lapsed => sessions'[s] = None \/ sessions'[s].lapsed
       /\ s \in Spent => sessions'[s] = None

ExpiredStaysExpired == [][ExpiryKept]_authVars

(* Every row past its deadline is deleted in the end, whatever the         *)
(* handlers that still hold its id do to it (the job of server.js).        *)
ExpiredRowsPurged ==
  /\ \A t \in Requests : (tokens[t] # None /\ tokens[t].lapsed) ~> (tokens[t] = None)
  /\ \A s \in SessionIds : (sessions[s] # None /\ sessions[s].lapsed) ~> (sessions[s] = None)

-----------------------------------------------------------------------------
(* The service implements the two state machines of the design: whatever   *)
(* its queries interleave with, an account only moves forward, and a       *)
(* session opens, is elevated and ends as AccountLifecycle allows.  An id  *)
(* is spent when the request that could have created its row has returned, *)
(* or the user who started with it has it no more, and there is no row.    *)
Phase(u) ==
  IF users[u] = None THEN "absent"
  ELSE IF users[u].account_status = "active" THEN "active"
  ELSE IF users[u].email_verified THEN "verified" ELSE "pending"

Factor == {u \in Users : users[u] # None /\ users[u].mfa_secret # None}

Session(s) ==
  IF sessions[s] = None THEN None
  ELSE [user |-> sessions[s].user, full |-> sessions[s].state = "authenticated"]

(* NULL is not an abstract session either. *)
ASSUME LifecycleAssumption == None \notin [user : Users, full : BOOLEAN]

Lifecycle == INSTANCE AccountLifecycle WITH
  phase   <- [u \in Users |-> Phase(u)],
  factor  <- Factor,
  session <- [s \in SessionIds |-> Session(s)],
  spent   <- Spent

ImplementsLifecycle == Lifecycle!Spec
=============================================================================
