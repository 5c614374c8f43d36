----------------------------- MODULE AuthInvariant -----------------------------
(***************************************************************************)
(* The inductive invariant behind the safety theorems of AuthService: the  *)
(* safety invariants, and what they need to know of the handlers in        *)
(* flight, of their locals and of the rows they work on.                   *)
(***************************************************************************)
EXTENDS AuthService

(* A request is untouched until it is received. *)
ArrivalsOK ==
  \A r \in Requests : (r > arrived) <=> (req[r].pc = "new")

(* Tokens and sessions belong to users who exist; a setup token follows    *)
(* the verification of the e-mail, a session the activation of the         *)
(* account; a request has its session only once it has returned.           *)
RowsOK ==
  /\ \A t \in Requests : tokens[t] # None =>
       /\ users[tokens[t].user] # None
       /\ tokens[t].type = "password_setup" => users[tokens[t].user].email_verified
  /\ \A s \in SessionIds : sessions[s] # None =>
       /\ users[sessions[s].user] # None
       /\ users[sessions[s].user].account_status = "active"
  /\ \A r \in Requests : sessions[r] # None => req[r].pc = "done"

(* The awaits at which a handler holds a password, a token, or a session   *)
(* it may elevate, and those it reaches only for a verified or an active   *)
(* account.                                                                *)
PasswordPCs == {"setupPassword.consume", "setupPassword.set", "reset.consume", "reset.update"}
TokenPCs    == {"verifyEmail.consume", "setupPassword.consume", "reset.consume"}
MfaPCs      == {"mfa.user", "mfa.elevate", "mfa.device", "mfa.insert"}
VerifiedPCs == {"verifyEmail.issue", "setupPassword.consume", "setupPassword.set"}
ActivePCs   == {"setupPassword.session", "setupMfa.secret", "login.reset", "login.session"}

(* The locals of a handler are of the kind its next query expects. *)
LocalsOK(r) ==
  /\ InFlight(r) => req[r].user \in Users /\ users[req[r].user] # None
  /\ req[r].pc \in PasswordPCs => req[r].arg \in Passwords
  /\ req[r].pc \in TokenPCs => req[r].ref \in Requests
  /\ req[r].pc \in MfaPCs => req[r].ref \in SessionIds /\ req[r].aux \in Devices \cup {None}
  /\ req[r].pc \in {"login.reset", "login.session"} => req[r].arg \in Devices
  /\ req[r].pc \in {"setupMfa.secret", "setupMfa.code"} => req[r].arg \in Nat
  /\ req[r].pc = "change.user" => req[r].aux \in Passwords
  /\ req[r].pc = "change.update" => req[r].aux \in Passwords

(* What a handler has seen or done still holds at its next query: stale as *)
(* the rest of its snapshot may be, accounts only advance, and a session   *)
(* keeps its owner.                                                        *)
KnowledgeOK(r) ==
  /\ req[r].pc \in VerifiedPCs => users[req[r].user].email_verified
  /\ req[r].pc \in ActivePCs => users[req[r].user].account_status = "active"
  /\ req[r].pc \in MfaPCs =>
       /\ req[r].ref \in Requests => req[req[r].ref].pc = "done"
       /\ sessions[req[r].ref] # None => sessions[req[r].ref].user = req[r].user
  /\ req[r].pc = "mfa.elevate" => users[req[r].user].mfa_secret # None

(* The one handler that created a user issues the one verification token.  *)
VerificationToken(t) == tokens[t] # None /\ tokens[t].type = "email_verification"
OneRegistrar ==
  \A r \in Requests : req[r].pc = "register.token" =>
    /\ \A t \in Requests : VerificationToken(t) => tokens[t].user # req[r].user
    /\ \A q \in Requests :
         req[q].pc = "register.token" /\ req[q].user = req[r].user => q = r

(* Inductive: it holds at the start, and every step preserves it. *)
AuthInv ==
  /\ TypeOK
  /\ ArrivalsOK
  /\ RowsOK
  /\ \A r \in Requests : LocalsOK(r) /\ KnowledgeOK(r)
  /\ OneRegistrar
  /\ OneVerificationToken
  /\ ActiveIsVerified
  /\ AuthenticatedHasFactor
  /\ LockoutEngages

-----------------------------------------------------------------------------
(* What the writes of passwords rest on.  A request that has issued its    *)
(* token issues no other, even once the cleanup job has deleted the row:   *)
(* an id a handler holds never comes to name another token.                *)
SetupPCs == {"setupPassword.consume", "setupPassword.set"}
ResetPCs == {"reset.consume", "reset.update"}
SpentPCs == {"setupPassword.set", "reset.update"}

Held(r, type) ==
  LET t == req[r].ref IN
  /\ t \in Requests /\ Issued(t)
  /\ tokens[t] # None =>
       /\ tokens[t].user = req[r].user /\ tokens[t].type = type
       /\ req[r].pc \in SpentPCs => tokens[t].consumed

(* Every token row still names the request that issued it, and a handler   *)
(* between the check of a token and the write of the password holds the    *)
(* row it read: of its own user, of the right type, and consumed once it   *)
(* is past consume.                                                        *)
TokenInv ==
  /\ \A t \in Requests : tokens[t] # None => Issued(t)
  /\ \A r \in Requests : /\ req[r].pc \in SetupPCs => Held(r, "password_setup")
                         /\ req[r].pc \in ResetPCs => Held(r, "password_reset")

(* The handler of forgotPassword mails the token it has issued, never the  *)
(* one of a registration.                                                  *)
MailInv ==
  \A t \in Requests :
    At(t, "forgot.email") /\ tokens[t] # None => tokens[t].type = "password_reset"

(* The handler of verifyEmail consumes the token it read.                  *)
VerifyInv ==
  \A r \in Requests : At(r, "verifyEmail.consume") => Held(r, "email_verification")

(* What the device bookkeeping rests on: the handler that elevates a       *)
(* session has the device the session was opened from, so that the device  *)
(* it records is the one of the session.                                   *)
DeviceInv ==
  /\ \A r \in Requests :
       req[r].pc \in MfaPCs /\ sessions[req[r].ref] # None
         => sessions[req[r].ref].device = req[r].aux
  /\ AuthenticatedDeviceKnown
=============================================================================
