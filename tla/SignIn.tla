-------------------------------- MODULE SignIn --------------------------------
(***************************************************************************)
(* Signing in: login with its IP limit and lockout, and the TOTP step that *)
(* elevates a session (verifyMfaSetup and verifyMfaDb), with the device    *)
(* bookkeeping of checkAndRecordDevice.                                    *)
(***************************************************************************)
EXTENDS AuthRequests

(* findByEmail returned a row that may be tried: it has a password, is     *)
(* active, and is not locked.                                              *)
MayTryPassword(u) ==
  /\ users[u] # None
  /\ users[u].password # None
  /\ users[u].account_status = "active"
  /\ users[u].lock # "locked"

(* login: the limiter, findByEmail and its early returns.  The outcome of  *)
(* verifyPassword depends only on the row just read.                       *)
Login(r, u, p, d) ==
  /\ Receive(r, "login")
  /\ HitRateLimit(d)
  /\ \/ /\ RateLimited(d) \/ ~MayTryPassword(u)
        /\ Return(r)
     \/ /\ ~RateLimited(d) /\ MayTryPassword(u) /\ users[u].password = p
        /\ Suspend(r, "login.reset", u, None, d, p)
     \/ /\ ~RateLimited(d) /\ MayTryPassword(u) /\ users[u].password # p
        /\ Suspend(r, "login.incr", u, None, None, None)
  /\ UNCHANGED tables

LoginIncrement(r) ==
  /\ At(r, "login.incr")
  /\ IncrementFailedAttempts(req[r].user)
  /\ Goto(r, "login.reread")
  /\ UNCHANGED <<tokens, sessions, devices, codes>> /\ Quiet

LoginRereadLate(r) ==  \* mutant: > for >=
  /\ At(r, "login.reread")
  /\ IF users[req[r].user].failed_attempts > LockoutThreshold
     THEN Goto(r, "login.lock")
     ELSE Return(r)
  /\ UNCHANGED tables /\ Quiet

(* findById after the increment: the counter decides whether to lock. *)
LoginReread(r) ==
  /\ At(r, "login.reread")
  /\ IF users[req[r].user].failed_attempts >= LockoutThreshold
     THEN Goto(r, "login.lock")
     ELSE Return(r)
  /\ UNCHANGED tables /\ Quiet

LoginLock(r) ==
  /\ At(r, "login.lock")
  /\ LockAccount(req[r].user)
  /\ Return(r)
  /\ UNCHANGED <<tokens, sessions, devices, codes>> /\ Quiet

LoginReset(r) ==
  /\ At(r, "login.reset")
  /\ ResetFailedAttempts(req[r].user)
  /\ Goto(r, "login.session")
  /\ UNCHANGED <<tokens, sessions, devices, codes>> /\ Quiet

LoginSession(r) ==
  /\ At(r, "login.session")
  /\ CreateSession(r, req[r].user, "pre_mfa", req[r].arg)
  /\ Return(r)
  /\ UNCHANGED <<users, tokens, devices, codes>> /\ Quiet

-----------------------------------------------------------------------------
(* verifyMfaSetup takes an mfa_setup session, verifyMfaDb a pre_mfa one;   *)
(* their bodies are the same.  A code c stands for the secret it was       *)
(* computed from.                                                          *)
VerifyMfa(r, op, state, s, c) ==
  /\ Receive(r, op)
  /\ IF ValidSession(s, state)
     THEN Suspend(r, "mfa.user", sessions[s].user, s, c, sessions[s].device)
     ELSE Return(r)
  /\ UNCHANGED <<tables, ipHits>>

VerifyMfaSetup(r, s, c) == VerifyMfa(r, "verifyMfaSetup", "mfa_setup", s, c)
VerifyMfaDb(r, s, c)    == VerifyMfa(r, "verifyMfaDb", "pre_mfa", s, c)

MfaCheckOptional(r) ==  \* mutant: a user without a secret passes
  /\ At(r, "mfa.user")
  /\ IF users[req[r].user].mfa_secret \in {None, req[r].arg}
     THEN Goto(r, "mfa.elevate")
     ELSE Return(r)
  /\ UNCHANGED tables /\ Quiet

MfaCheckSkipped(r) ==  \* mutant: the handler elevates without reading the user
  /\ At(r, "mfa.user")
  /\ Goto(r, "mfa.elevate")
  /\ UNCHANGED tables /\ Quiet

(* findById, then the code is validated against the secret of that row. *)
MfaCheck(r) ==
  /\ At(r, "mfa.user")
  /\ IF users[req[r].user].mfa_secret # None /\ users[req[r].user].mfa_secret = req[r].arg
     THEN Goto(r, "mfa.elevate")
     ELSE Return(r)
  /\ UNCHANGED tables /\ Quiet

MfaElevate(r) ==
  /\ At(r, "mfa.elevate")
  /\ UpdateState(req[r].ref, "authenticated")
  /\ Goto(r, "mfa.device")
  /\ UNCHANGED <<users, tokens, devices, codes>> /\ Quiet

DeviceLookupInverted(r) ==  \* mutant: only known devices are inserted
  /\ At(r, "mfa.device")
  /\ IF KnownDevice(req[r].user, req[r].aux) THEN Goto(r, "mfa.insert") ELSE Return(r)
  /\ UNCHANGED tables /\ Quiet

(* checkAndRecordDevice: SELECT, then INSERT an unknown device.  The row   *)
(* of a known one gets a new last_seen_at, which nothing reads.            *)
DeviceLookup(r) ==
  /\ At(r, "mfa.device")
  /\ IF KnownDevice(req[r].user, req[r].aux) THEN Return(r) ELSE Goto(r, "mfa.insert")
  /\ UNCHANGED tables /\ Quiet

DeviceInsert(r) ==
  /\ At(r, "mfa.insert")
  /\ InsertDevice(req[r].user, req[r].aux)
  /\ Return(r)
  /\ UNCHANGED <<users, tokens, sessions, codes>> /\ Quiet

(* A query of the device bookkeeping rejects: the handler swallows the     *)
(* error and answers ok.                                                   *)
DeviceFails(r) ==
  /\ At(r, "mfa.device") \/ At(r, "mfa.insert")
  /\ faults < MaxFaults /\ faults' = faults + 1
  /\ Return(r)
  /\ UNCHANGED <<tables, arrived, lapses, ipHits, job>>

-----------------------------------------------------------------------------
SignInCalls(r) ==
  \/ \E u \in Users, p \in Passwords, d \in Devices : Login(r, u, p, d)
  \/ \E s \in SessionIds, c \in Secrets : VerifyMfaSetup(r, s, c) \/ VerifyMfaDb(r, s, c)

SignInSteps(r) ==
  \/ LoginIncrement(r) \/ LoginReread(r) \/ LoginLock(r)
  \/ LoginReset(r) \/ LoginSession(r)
  \/ MfaCheck(r) \/ MfaElevate(r) \/ DeviceLookup(r) \/ DeviceInsert(r)
=============================================================================
