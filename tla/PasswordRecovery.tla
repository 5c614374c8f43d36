--------------------------- MODULE PasswordRecovery ---------------------------
(***************************************************************************)
(* Replacing a password: forgotPassword, resetPassword and changePassword  *)
(* of authService.js.                                                      *)
(***************************************************************************)
EXTENDS AuthRequests

ForgotPassword(r, u) ==
  /\ Receive(r, "forgotPassword")
  /\ IF users[u] # None /\ users[u].account_status = "active"
     THEN Suspend(r, "forgot.token", u, None, None, None)
     ELSE Return(r)
  /\ UNCHANGED <<tables, ipHits>>

ForgotToken(r) ==
  /\ At(r, "forgot.token")
  /\ CreateToken(r, req[r].user, "password_reset", FALSE)
  /\ Goto(r, "forgot.email")
  /\ UNCHANGED <<users, sessions, devices, codes>> /\ Quiet

ForgotEmail(r) ==
  /\ At(r, "forgot.email")
  /\ DeliverToken(r)
  /\ Return(r)
  /\ UNCHANGED <<users, sessions, devices, codes>> /\ Quiet

-----------------------------------------------------------------------------
(* resetPassword: findValid, consume, hash and update, revoke all.         *)
ResetPassword(r, t, p) ==
  /\ Receive(r, "resetPassword")
  /\ TokenPresented(t)
  /\ IF ValidToken(t, "password_reset")
     THEN Suspend(r, "reset.consume", tokens[t].user, t, p, None)
     ELSE Return(r)
  /\ UNCHANGED <<tables, ipHits>>

ResetConsume(r) ==
  /\ At(r, "reset.consume")
  /\ Consume(req[r].ref)
  /\ Goto(r, "reset.update")
  /\ UNCHANGED <<users, sessions, devices, codes>> /\ Quiet

ResetUpdate(r) ==
  /\ At(r, "reset.update")
  /\ UpdatePassword(req[r].user, req[r].arg)
  /\ Goto(r, "reset.revoke")
  /\ UNCHANGED <<tokens, sessions, devices, codes>> /\ Quiet

ResetRevoke(r) ==
  /\ At(r, "reset.revoke")
  /\ DeleteSessions(OwnedBy(req[r].user))
  /\ Return(r)
  /\ UNCHANGED <<users, tokens, devices, codes>> /\ Quiet

-----------------------------------------------------------------------------
(* changePassword(current, new): the session, the user row and the current *)
(* password are checked, the new one is hashed and stored.  The other      *)
(* sessions are left alone.                                                *)
ChangePassword(r, s, current, new) ==
  /\ Receive(r, "changePassword")
  /\ IF ValidSession(s, "authenticated")
     THEN Suspend(r, "change.user", sessions[s].user, s, current, new)
     ELSE Return(r)
  /\ UNCHANGED <<tables, ipHits>>

ChangeCheckSkipped(r) ==  \* mutant: the current password is not asked for
  /\ At(r, "change.user")
  /\ Goto(r, "change.update")
  /\ UNCHANGED tables /\ Quiet

(* The hash read here is the one the current password is compared with; a  *)
(* reset that replaces it while the comparison and the hashing of the new  *)
(* password are awaited goes unnoticed.                                    *)
ChangeCheck(r) ==
  /\ At(r, "change.user")
  /\ IF users[req[r].user].password = req[r].arg
     THEN Goto(r, "change.update")
     ELSE Return(r)
  /\ UNCHANGED tables /\ Quiet

ChangeUpdate(r) ==
  /\ At(r, "change.update")
  /\ UpdatePassword(req[r].user, req[r].aux)
  /\ Return(r)
  /\ UNCHANGED <<tokens, sessions, devices, codes>> /\ Quiet

-----------------------------------------------------------------------------
PasswordCalls(r) ==
  \/ \E u \in Users : ForgotPassword(r, u)
  \/ \E t \in Requests, p \in Passwords : ResetPassword(r, t, p)
  \/ \E s \in SessionIds, p, q \in Passwords : ChangePassword(r, s, p, q)

PasswordSteps(r) ==
  \/ ForgotToken(r) \/ ForgotEmail(r)
  \/ ResetConsume(r) \/ ResetUpdate(r) \/ ResetRevoke(r)
  \/ ChangeCheck(r) \/ ChangeUpdate(r)
=============================================================================
