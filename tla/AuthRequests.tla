----------------------------- MODULE AuthRequests -----------------------------
(***************************************************************************)
(* The requests in flight in the API process.  A handler of authService.js *)
(* is an async function: it runs up to its next await, and other handlers  *)
(* run while a query, a hash or an e-mail is pending.  req[r].pc names the *)
(* await whose query runs next; the other fields are the locals the        *)
(* handler still needs, read from the database earlier and possibly stale. *)
(***************************************************************************)
EXTENDS AuthTables

VARIABLES
  req,      \* [Requests -> Handler]: what each request is waiting for
  arrived,  \* number of requests received so far
  faults,   \* number of crashes and failed calls so far
  lapses,   \* number of deadlines that have passed so far
  ipHits,   \* rateLimits of authService.js, "login-ip" buckets: calls in the window
  job       \* the interval job of server.js: "idle", or between its two DELETEs

process  == <<req, arrived, faults, lapses, ipHits, job>>
authVars == <<tables, process>>

PCs == {"new", "done",
        "register.token", "register.email",
        "verifyEmail.consume", "verifyEmail.mark", "verifyEmail.issue",
        "setupPassword.consume", "setupPassword.set", "setupPassword.session",
        "setupMfa.secret", "setupMfa.code",
        "login.incr", "login.reread", "login.lock", "login.reset", "login.session",
        "mfa.user", "mfa.elevate", "mfa.device", "mfa.insert",
        "forgot.token", "forgot.email",
        "reset.consume", "reset.update", "reset.revoke",
        "change.user", "change.update",
        "revoke.delete", "revokeAll.delete"}

Handler ==
  [ pc   : PCs,
    user : Users \cup {None},                      \* the user it acts for
    ref  : Requests \cup Users \cup {None},        \* the token or session presented
    arg  : Passwords \cup Devices \cup Nat \cup Users \cup {None},
           \* password, code, device, count or target session still needed
    aux  : Passwords \cup Devices \cup {None} ]    \* a second password, or the device

NewHandler  == [pc |-> "new",  user |-> None, ref |-> None, arg |-> None, aux |-> None]
DoneHandler == [NewHandler EXCEPT !.pc = "done"]

At(r, pc)   == req[r].pc = pc
InFlight(r) == req[r].pc \notin {"new", "done"}

(* Handler r reaches its next await, or returns. *)
Goto(r, pc) == req' = [req EXCEPT ![r].pc = pc]
Return(r)   == req' = [req EXCEPT ![r] = DoneHandler]

(* Request r is received and calls operation op. *)
Receive(r, op) ==
  /\ op \in Operations
  /\ r = arrived + 1 /\ arrived' = r
  /\ UNCHANGED <<faults, lapses, job>>

(* Its handler suspends with these locals. *)
Suspend(r, pc, u, ref, arg, aux) ==
  req' = [req EXCEPT ![r] = [pc |-> pc, user |-> u, ref |-> ref, arg |-> arg, aux |-> aux]]

(* A later step of a handler only moves the handler and the tables. *)
Quiet == UNCHANGED <<arrived, faults, lapses, ipHits, job>>

RequestsInit ==
  /\ req = [r \in Requests |-> NewHandler]
  /\ arrived = 0 /\ faults = 0 /\ lapses = 0
  /\ ipHits = [d \in Devices |-> 0]
  /\ job = "idle"

RequestsOK ==
  /\ req \in [Requests -> Handler]
  /\ arrived \in 0 .. MaxRequests
  /\ faults \in 0 .. MaxFaults /\ lapses \in 0 .. MaxLapses
  /\ ipHits \in [Devices -> Nat]
  /\ job \in {"idle", "tokens"}

-----------------------------------------------------------------------------
(* hitRateLimit of the "login-ip" dimension.  Its window expires in        *)
(* IpWindowLapses; the map is memory of the process.                       *)
HitRateLimit(d) == ipHits' = [ipHits EXCEPT ![d] = @ + 1]
RateLimited(d)  == ipHits[d] + 1 > RateLimitMaxPerIp

(* The clock passes a deadline. *)
Tick == lapses < MaxLapses /\ lapses' = lapses + 1

IpWindowLapses(d) ==
  /\ Tick
  /\ ipHits[d] > 0
  /\ ipHits' = [ipHits EXCEPT ![d] = 0]
  /\ UNCHANGED <<tables, req, arrived, faults, job>>

RowLapses ==
  /\ Tick
  /\ \/ \E t \in Requests : TokenLapses(t)
     \/ \E s \in SessionIds : SessionLapses(s)
     \/ \E u \in Users : LockLapses(u)
  /\ UNCHANGED <<req, arrived, faults, ipHits, job>>

(* An await of some handler rejects: a query, a hash or an e-mail failed.  *)
(* Neither the routes nor server.js catch it, so the rejection ends the    *)
(* Node process, as a restart does: every handler in flight is lost with   *)
(* the process memory, while the tables keep what the queries wrote.       *)
Crash ==
  /\ faults < MaxFaults
  /\ faults' = faults + 1
  /\ req' = [r \in Requests |-> IF InFlight(r) THEN DoneHandler ELSE req[r]]
  /\ ipHits' = [d \in Devices |-> 0]
  /\ job' = "idle"
  /\ UNCHANGED <<tables, arrived, lapses>>

(* The interval job: sessions first, then tokens.  A run that finds        *)
(* nothing to delete is left out: it changes nothing.                      *)
CleanupSessions ==
  /\ job = "idle"
  /\ ExpiredSessions # {} \/ ExpiredTokens # {}
  /\ DeleteExpiredSessions
  /\ job' = "tokens"
  /\ UNCHANGED <<req, arrived, faults, lapses, ipHits>>

CleanupTokens ==
  /\ job = "tokens"
  /\ DeleteExpiredTokens
  /\ job' = "idle"
  /\ UNCHANGED <<req, arrived, faults, lapses, ipHits>>

(* A DELETE of the job rejects: the error is caught and logged, the run    *)
(* goes on to its next DELETE, and the row waits for the next run.         *)
CleanupFails ==
  /\ faults < MaxFaults /\ faults' = faults + 1
  /\ \/ /\ job = "idle" /\ job' = "tokens"
        /\ ExpiredSessions # {} \/ ExpiredTokens # {}
     \/ job = "tokens" /\ job' = "idle"
  /\ UNCHANGED <<tables, req, arrived, lapses, ipHits>>
=============================================================================
