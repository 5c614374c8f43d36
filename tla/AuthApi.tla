------------------------------ MODULE AuthApi -------------------------------
(* What the browser sees of the API: the requests of lib/auth-client.js, the *)
(* sessions behind them, in whichever of the two stores, and the cookie.     *)
(* Everything but the sessions is one user's; what decides whether a code,   *)
(* a password or a token is right is not in this model, so any request may   *)
(* be refused.                                                               *)
EXTENDS Naturals, FiniteSets
CONSTANTS
  None,
  MaxSessions,        \* bound: session ids drawn
  MaxSetups,          \* bound: TOTP secrets stored
  MaxInFlight         \* bound: requests of the browser in flight

ASSUME AuthApiAssumption == {MaxSessions, MaxSetups, MaxInFlight} \subseteq Nat \ {0}

VARIABLES
  sess,       \* the session rows ("db") and the session Map ("memory")
  opened,     \* how many session ids were drawn
  secret,     \* which setupMfa wrote the stored TOTP secret; 0: none did
  cookie,     \* the fm_sid cookie
  request     \* the requests in flight, and what waits for their answer
apiVars == <<sess, opened, secret, cookie, request>>

SessionIds == 1..MaxSessions
Slots == 1..MaxInFlight
Free == [status |-> "free"]

(* The functions of auth-client.js that some panel calls, and the fetch of   *)
(* verify-email-panel.tsx; startOAuthLogin makes two requests.               *)
Calls ==
  {"oauth.start", "oauth.callback", "recovery", "mfa.verify", "mfa.code", "register",
   "verify-email", "setup-password", "login", "mfa.setup", "mfa.setup.verify",
   "forgot-password", "reset-password", "change-password", "sessions", "revoke", "revoke-all"}

(* jsonFetch with credentials: the cookie is the one held when it is sent.   *)
(* by says who waits: the mounted "page", a "past" one of the same document, *)
(* or, "gone", none since the document was left.                             *)
SentBy(op, arg, next, by) ==
  [status |-> "sent", op |-> op, arg |-> arg, next |-> next, by |-> by, as |-> cookie]
Sent(op, arg, next) == SentBy(op, arg, next, "page")
FreeSlot(r) == request[r] = Free /\ \A q \in Slots : request[q] = Free => r <= q
Waiting(r, op) == request[r].status = "sent" /\ request[r].op = op

LiveDb == {s \in SessionIds : sess[s] # None /\ sess[s].store = "db"}
SignedIn(r) == request[r].as \in LiveDb /\ sess[request[r].as].state = "authenticated"
SettingUp(r) == request[r].as \in LiveDb /\ sess[request[r].as].state = "mfa_setup"

Failure(q) ==
  [status |-> "failed", value |-> None, set |-> None,
   op |-> q.op, arg |-> q.arg, next |-> q.next, by |-> q.by]

(* The answer carries a value and perhaps a cookie; or it is lost on the way *)
(* although the server did what it was asked to, and fetch rejects.          *)
Answer(r, value, set) ==
  \E lost \in BOOLEAN : request' = [request EXCEPT ![r] =
    IF lost THEN Failure(@)
    ELSE [status |-> "ok", value |-> value, set |-> set,
          op |-> @.op, arg |-> @.arg, next |-> @.next, by |-> @.by]]

(* A refusal, or no answer at all: jsonFetch throws for every status that is *)
(* not 2xx.                                                                  *)
Refuse(r) ==
  /\ request[r].status = "sent"
  /\ request' = [request EXCEPT ![r] = Failure(@)]
  /\ UNCHANGED <<sess, opened, secret, cookie>>

\* mutant: the new session takes an id that is not counted
OpenSessionUncounted(store, state) ==
  /\ opened < MaxSessions
  /\ sess' = [sess EXCEPT ![opened + 1] = [store |-> store, state |-> state]]
  /\ UNCHANGED <<opened, secret, cookie>>
OpenSession(store, state) ==
  /\ opened < MaxSessions
  /\ opened' = opened + 1
  /\ sess' = [sess EXCEPT ![opened + 1] = [store |-> store, state |-> state]]
  /\ UNCHANGED <<secret, cookie>>

-----------------------------------------------------------------------------
(* Routes that leave every session as it is.                                 *)
ServeStateless(r) ==
  /\ \/ request[r].status = "sent"
        /\ request[r].op \in {"oauth.start", "register", "verify-email", "forgot-password"}
     \/ Waiting(r, "change-password") /\ SignedIn(r)
     \/ /\ Waiting(r, "mfa.code") /\ request[r].arg # None
        /\ sess[request[r].arg] # None /\ sess[request[r].arg].store = "memory"
  /\ Answer(r, None, None)
  /\ UNCHANGED <<sess, opened, secret, cookie>>

(* OAuth and the recovery login open a session of the Map and set no cookie. *)
ServeMemoryLogin(r) ==
  /\ Waiting(r, "oauth.callback") \/ Waiting(r, "recovery")
  /\ OpenSession("memory", "pre_mfa")
  /\ Answer(r, [id |-> opened + 1, state |-> "pre_mfa"], None)

ServeLogin(r) ==
  /\ Waiting(r, "login")
  /\ OpenSession("db", "pre_mfa")
  /\ Answer(r, [id |-> opened + 1, state |-> "pre_mfa"], opened + 1)

ServeSetupPassword(r) ==
  /\ Waiting(r, "setup-password")
  /\ OpenSession("db", "mfa_setup")
  /\ Answer(r, None, opened + 1)

(* POST /mfa/verify takes the id from the body, or the empty id, and knows   *)
(* the Map only; on success it sets the cookie.                              *)
ServeMfaVerify(r) ==
  /\ Waiting(r, "mfa.verify") /\ request[r].arg # None
  /\ sess[request[r].arg] # None /\ sess[request[r].arg].store = "memory"
  /\ sess' = [sess EXCEPT ![request[r].arg].state = "authenticated"]
  /\ Answer(r, None, request[r].arg)
  /\ UNCHANGED <<opened, secret, cookie>>

ServeMfaSetup(r) ==
  /\ Waiting(r, "mfa.setup") /\ SettingUp(r) /\ secret < MaxSetups
  /\ secret' = secret + 1
  /\ Answer(r, secret', None)
  /\ UNCHANGED <<sess, opened, cookie>>

ServeMfaSetupVerify(r) ==
  /\ Waiting(r, "mfa.setup.verify") /\ SettingUp(r) /\ secret > 0
  /\ sess' = [sess EXCEPT ![request[r].as].state = "authenticated"]
  /\ Answer(r, None, None)
  /\ UNCHANGED <<opened, secret, cookie>>

ServeResetPassword(r) ==
  /\ Waiting(r, "reset-password")
  /\ sess' = [s \in SessionIds |-> IF s \in LiveDb THEN None ELSE sess[s]]
  /\ Answer(r, None, None)
  /\ UNCHANGED <<opened, secret, cookie>>

ServeSessions(r) ==
  /\ Waiting(r, "sessions") /\ SignedIn(r)
  /\ Answer(r, LiveDb, None)
  /\ UNCHANGED <<sess, opened, secret, cookie>>

(* DELETE of one session, or of all but the caller's.                        *)
ServeRevoke(r) ==
  /\ request[r].status = "sent" /\ SignedIn(r)
  /\ \E gone \in SUBSET LiveDb :
       /\ \/ Waiting(r, "revoke") /\ gone = {request[r].arg}
          \/ Waiting(r, "revoke-all") /\ gone = LiveDb \ {request[r].as}
       /\ sess' = [s \in SessionIds |-> IF s \in gone THEN None ELSE sess[s]]
       /\ Answer(r, gone, None)
  /\ UNCHANGED <<opened, secret, cookie>>

Serve(r) ==
  \/ Refuse(r) \/ ServeStateless(r) \/ ServeMemoryLogin(r) \/ ServeLogin(r)
  \/ ServeSetupPassword(r) \/ ServeMfaVerify(r) \/ ServeMfaSetup(r)
  \/ ServeMfaSetupVerify(r) \/ ServeResetPassword(r) \/ ServeSessions(r)
  \/ ServeRevoke(r)

(* The session ends for a reason this browser does not see: a deadline, the  *)
(* cleanup, another device, a restart.  That other sessions end as well      *)
(* would show nowhere but in answers that may be refused anyway.             *)
SessionEnds ==
  /\ cookie # None /\ sess[cookie] # None
  /\ sess' = [sess EXCEPT ![cookie] = None]
  /\ UNCHANGED <<opened, secret, cookie, request>>

(* GET /session: the state of the cookie's session in either store.          *)
SessionState ==
  IF cookie = None THEN None
  ELSE IF sess[cookie] = None THEN None ELSE sess[cookie].state
=============================================================================
