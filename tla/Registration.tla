----------------------------- MODULE Registration -----------------------------
(***************************************************************************)
(* From an e-mail address to a session that may use the account: register, *)
(* verifyEmail, setupPassword and setupMfa of authService.js.  The step    *)
(* that ends the flow, verifyMfaSetup, is in module SignIn.                *)
(***************************************************************************)
EXTENDS AuthRequests

RegisterAgain(r, u) ==  \* mutant: no UNIQUE constraint on primary_email
  /\ Receive(r, "register")
  /\ CreateUser(u)
  /\ Suspend(r, "register.token", u, None, None, None)
  /\ UNCHANGED <<tokens, sessions, devices, codes, ipHits>>

(* register: INSERT the user (23505 on primary_email answers 409), then    *)
(* INSERT the token, then e-mail it.                                       *)
Register(r, u) ==
  /\ Receive(r, "register")
  /\ \/ /\ users[u] # None
        /\ Return(r)
        /\ UNCHANGED tables
     \/ /\ users[u] = None
        /\ CreateUser(u)
        /\ Suspend(r, "register.token", u, None, None, None)
        /\ UNCHANGED <<tokens, sessions, devices, codes>>
  /\ UNCHANGED ipHits

RegisterToken(r) ==
  /\ At(r, "register.token")
  /\ CreateToken(r, req[r].user, "email_verification", FALSE)
  /\ Goto(r, "register.email")
  /\ UNCHANGED <<users, sessions, devices, codes>> /\ Quiet

(* The answer is 201 whether or not the e-mail has been sent.              *)
RegisterEmail(r) ==
  /\ At(r, "register.email")
  /\ DeliverToken(r)
  /\ Return(r)
  /\ UNCHANGED <<users, sessions, devices, codes>> /\ Quiet

-----------------------------------------------------------------------------
(* verifyEmail: findValid, consume, mark verified, issue a setup token.    *)
VerifyEmail(r, t) ==
  /\ Receive(r, "verifyEmail")
  /\ TokenPresented(t)
  /\ IF ValidToken(t, "email_verification")
     THEN Suspend(r, "verifyEmail.consume", tokens[t].user, t, None, None)
     ELSE Return(r)
  /\ UNCHANGED <<tables, ipHits>>

VerifyEmailUnmarked(r) ==  \* mutant: the e-mail is never marked verified
  /\ At(r, "verifyEmail.consume")
  /\ Consume(req[r].ref)
  /\ Goto(r, "verifyEmail.issue")
  /\ UNCHANGED <<users, sessions, devices, codes>> /\ Quiet

VerifyEmailConsume(r) ==
  /\ At(r, "verifyEmail.consume")
  /\ Consume(req[r].ref)
  /\ Goto(r, "verifyEmail.mark")
  /\ UNCHANGED <<users, sessions, devices, codes>> /\ Quiet

VerifyEmailMark(r) ==
  /\ At(r, "verifyEmail.mark")
  /\ MarkVerified(req[r].user)
  /\ Goto(r, "verifyEmail.issue")
  /\ UNCHANGED <<tokens, sessions, devices, codes>> /\ Quiet

VerifyEmailIssue(r) ==
  /\ At(r, "verifyEmail.issue")
  /\ CreateToken(r, req[r].user, "password_setup", TRUE)
  /\ Return(r)
  /\ UNCHANGED <<users, sessions, devices, codes>> /\ Quiet

-----------------------------------------------------------------------------
(* setupPassword, for a password the policy accepts (one it rejects is     *)
(* answered before the first query): findValid, consume, hash and store    *)
(* the password, which activates the account, then open a session.         *)
SetupPassword(r, t, p) ==
  /\ Receive(r, "setupPassword")
  /\ TokenPresented(t)
  /\ IF ValidToken(t, "password_setup")
     THEN Suspend(r, "setupPassword.consume", tokens[t].user, t, p, None)
     ELSE Return(r)
  /\ UNCHANGED <<tables, ipHits>>

SetupPasswordConsume(r) ==
  /\ At(r, "setupPassword.consume")
  /\ Consume(req[r].ref)
  /\ Goto(r, "setupPassword.set")
  /\ UNCHANGED <<users, sessions, devices, codes>> /\ Quiet

SetupPasswordSet(r) ==
  /\ At(r, "setupPassword.set")
  /\ SetPassword(req[r].user, req[r].arg)
  /\ Goto(r, "setupPassword.session")
  /\ UNCHANGED <<tokens, sessions, devices, codes>> /\ Quiet

SetupPasswordSession(r) ==
  /\ At(r, "setupPassword.session")
  /\ CreateSession(r, req[r].user, "mfa_setup", None)
  /\ Return(r)
  /\ UNCHANGED <<users, tokens, devices, codes>> /\ Quiet

-----------------------------------------------------------------------------
(* setupMfa: store a fresh TOTP secret, then INSERT the hashes of the      *)
(* recovery codes one by one; codes of an earlier call are not deleted.    *)
SetupMfa(r, s) ==
  /\ Receive(r, "setupMfa")
  /\ IF ValidSession(s, "mfa_setup")
     THEN Suspend(r, "setupMfa.secret", sessions[s].user, s, 0, None)
     ELSE Return(r)
  /\ UNCHANGED <<tables, ipHits>>

SetupMfaSecret(r) ==
  /\ At(r, "setupMfa.secret")
  /\ SetMfaSecret(req[r].user, r)
  /\ Goto(r, "setupMfa.code")
  /\ UNCHANGED <<tokens, sessions, devices, codes>> /\ Quiet

SetupMfaCode(r) ==
  /\ At(r, "setupMfa.code")
  /\ InsertCode(req[r].user)
  /\ IF req[r].arg + 1 < CodesPerSetup
     THEN req' = [req EXCEPT ![r].arg = @ + 1]
     ELSE Return(r)
  /\ UNCHANGED <<users, tokens, sessions, devices>> /\ Quiet

-----------------------------------------------------------------------------
RegistrationCalls(r) ==
  \/ \E u \in Users : Register(r, u)
  \/ \E t \in Requests : VerifyEmail(r, t)
  \/ \E t \in Requests, p \in Passwords : SetupPassword(r, t, p)
  \/ \E s \in SessionIds : SetupMfa(r, s)

RegistrationSteps(r) ==
  \/ RegisterToken(r) \/ RegisterEmail(r)
  \/ VerifyEmailConsume(r) \/ VerifyEmailMark(r) \/ VerifyEmailIssue(r)
  \/ SetupPasswordConsume(r) \/ SetupPasswordSet(r) \/ SetupPasswordSession(r)
  \/ SetupMfaSecret(r) \/ SetupMfaCode(r)
=============================================================================
