------------------------------ MODULE ApiServer -----------------------------
(* The API process: the routes over the in-memory service, the passkey       *)
(* service and the webhook's idempotency store, a browser's cookie, and the  *)
(* death of the process, which empties the Maps and keeps the tables.  Of    *)
(* the database-backed service (AuthService) only the ids it puts in the     *)
(* cookie appear here.  The passkey routes and the webhook are modelled as   *)
(* their modules have them; createServer mounts neither (the first answer    *)
(* 501 without a service, the second is in no route table).                  *)
EXTENDS MemoryAuth, Passkeys
CONSTANTS
  DatabaseSessions, \* ids of sessions of the database-backed service
  Events,           \* the provider's webhook events, sent any number of times
  Traffics,         \* bound: the sets of routes ("auth", "passkey", "webhook")
                    \* that are called in one behaviour
  MaxCalls,         \* bound: requests
  MaxCrashes        \* bound: restarts

ASSUME ApiServerAssumption ==
  /\ {MaxCalls, MaxCrashes} \subseteq Nat
  /\ DatabaseSessions \cap (Nat \cup {None}) = {}

VARIABLES
  eventKeys,        \* InMemoryIdempotencyStore
  accepts,          \* history: how often each event was answered 202
  cookie,           \* the fm_sid cookie of one browser
  traffic,          \* the routes called in this behaviour
  calls, crashes
apiVars == <<eventKeys, accepts, cookie, traffic, calls, crashes>>
vars == <<memVars, passkeyVars, apiVars>>

Init ==
  /\ MemoryInit /\ PasskeysInit
  /\ eventKeys = {} /\ accepts = [e \in Events |-> 0]
  /\ cookie = None /\ calls = 0 /\ crashes = 0
  /\ traffic \in Traffics

(* A request reaches its handler. *)
Arrives(routes) ==
  /\ routes \in traffic
  /\ calls < MaxCalls /\ calls' = calls + 1
  /\ UNCHANGED <<traffic, crashes>>

(* validateOrigin: what is not a safe method must name an allowed origin;    *)
(* a request refused with 403 reaches no handler.                            *)
ValidateOrigin(method, allowed) == method \in {"GET", "HEAD", "OPTIONS"} \/ allowed

Request(method, routes) ==
  /\ Arrives(routes)
  /\ \E allowed \in BOOLEAN : ValidateOrigin(method, allowed)

-----------------------------------------------------------------------------
OAuthRoutes ==
  /\ Request("GET", "auth")
  /\ \/ \E p \in Providers : StartOAuth(p)
     \/ \E st \in StateIds, p \in Providers, ip \in Ips :
          CallbackThrottled(st, p, ip) \/ \E c \in Codes : CallbackAccepted(st, p, c, ip)
  /\ UNCHANGED <<passkeyVars, eventKeys, accepts, cookie>>

RecoveryRoute ==
  /\ Request("POST", "auth")
  /\ \E ip \in Ips :
       \/ RecoveryRight(ip)
       \/ \E email \in RecoveryEmails :
            \/ RecoveryThrottled(email, ip) \/ RecoveryLocked(email, ip)
            \/ RecoveryWrong(email, ip)
  /\ UNCHANGED <<passkeyVars, eventKeys, accepts, cookie>>

(* POST /mfa/verify names the session in its body and calls verifyMfa only;  *)
(* the cookie is set when the code was right.                                *)
\* mutant: the cookie is set before the code is checked
MfaVerifyRouteEarlyCookie(s) ==
  /\ Request("POST", "auth")
  /\ VerifyMfaWrong(s) \/ VerifyMfaRight(s)
  /\ cookie' = s
  /\ UNCHANGED <<passkeyVars, eventKeys, accepts>>
MfaVerifyRoute(s) ==
  /\ Request("POST", "auth")
  /\ \/ VerifyMfaWrong(s) /\ UNCHANGED cookie
     \/ VerifyMfaRight(s) /\ cookie' = s
  /\ UNCHANGED <<passkeyVars, eventKeys, accepts>>

(* POST /setup-password and POST /login put the mfa_setup or pre_mfa session *)
(* that the database-backed service has just opened in the cookie, whatever  *)
(* the cookie named before.                                                  *)
DatabaseSignInRoutes ==
  /\ Request("POST", "auth")
  /\ cookie' \in DatabaseSessions
  /\ UNCHANGED <<memVars, passkeyVars, eventKeys, accepts>>

(* GET /session by cookie, and the data endpoints behind withAuthRequired,   *)
(* by cookie, bearer token or query: both end in getSession.                 *)
SessionLookup(s) ==
  /\ Request("GET", "auth") /\ GetExpired(s)
  /\ UNCHANGED <<passkeyVars, eventKeys, accepts, cookie>>

(* POST /logout deletes the row of that id, if any (Logout of SessionAdmin), *)
(* and clears the cookie; the session Map is not touched.                    *)
LogoutRoute ==
  /\ Request("POST", "auth") /\ cookie # None
  /\ cookie' = None
  /\ UNCHANGED <<memVars, passkeyVars, eventKeys, accepts>>

PasskeyRoutes ==
  /\ Request("POST", "passkey")
  /\ \/ \E u \in Holders, type \in {"registration", "assertion"} : GenerateOptions(u, type)
     \/ \E v \in Ceremonies : VerifyStart(v)
  /\ UNCHANGED <<memVars, eventKeys, accepts, cookie>>

(* postSnapshotReadyWebhook with a valid signature, which it asks for in     *)
(* place of an origin: an event is answered 202 once and 409 after that.     *)
\* mutant: the key is looked up and not added
PostSnapshotReadyWebhookForgets(e) ==
  /\ Arrives("webhook") /\ e \notin eventKeys
  /\ accepts' = [accepts EXCEPT ![e] = @ + 1]
  /\ UNCHANGED <<memVars, passkeyVars, cookie, eventKeys>>
PostSnapshotReadyWebhook(e) ==
  /\ Arrives("webhook") /\ e \notin eventKeys
  /\ eventKeys' = eventKeys \cup {e}
  /\ accepts' = [accepts EXCEPT ![e] = @ + 1]
  /\ UNCHANGED <<memVars, passkeyVars, cookie>>

-----------------------------------------------------------------------------
(* Nothing catches what an async handler throws - a body that is no JSON, a  *)
(* query that fails - so the process ends and its Maps with it.              *)
Crash ==
  /\ crashes < MaxCrashes /\ crashes' = crashes + 1
  /\ Restart /\ CeremoniesLost
  /\ eventKeys' = {}
  /\ UNCHANGED <<accepts, cookie, traffic, calls>>

(* Time reaches the tables as ChallengeLapses.                               *)
Environment ==
  /\ \/ "auth" \in traffic /\ Tick /\ UNCHANGED passkeyVars
     \/ /\ UNCHANGED memVars
        /\ \/ \E c \in ChallengeIds : ChallengeLapses(c)
           \/ \E k \in Credentials, c \in ChallengeIds, t \in {"registration", "assertion"} :
                challenges[c] # NoRow /\ challenges[c].type = t /\ Signs(k, c, t)
           \/ \E v \in Ceremonies : VerifyStep(v)
  /\ UNCHANGED apiVars

Next ==
  \/ OAuthRoutes \/ RecoveryRoute \/ DatabaseSignInRoutes \/ LogoutRoute \/ PasskeyRoutes
  \/ \E s \in SessionIds : MfaVerifyRoute(s) \/ SessionLookup(s)
  \/ \E e \in Events : PostSnapshotReadyWebhook(e)
  \/ Crash \/ Environment

Spec == Init /\ [][Next]_vars

-----------------------------------------------------------------------------
MemoryTypeOK ==
  /\ now \in 1..MaxTime
  /\ issued \in [states : 0..MaxStates, sessions : 0..MaxSessions]
  /\ oauthStates \in [StateIds -> {None} \cup [provider : Providers, expiresAt : Nat]]
  /\ sessions \in [SessionIds -> {None} \cup
       [user : Users, state : {"pre_mfa", "authenticated"}, expiresAt : Nat]]
  /\ usersById \subseteq Users
  /\ lockouts \in [LockKeys -> {None} \cup [fails : Nat, lockedUntil : Nat]]
  /\ rateLimits \in [Buckets -> {None} \cup [count : Nat, expiresAt : Nat]]
  /\ guesses \in [LockKeys -> Seq(Nat)] /\ admissions \in [Buckets -> Seq(Nat)]

Response == [credential : Credentials, challenge : ChallengeIds,
             type : {"registration", "assertion"}, counter : Nat]
CeremonyType ==
  {Idle}
  \cup [pc : {"register.delete", "register.upsert", "assert.credential"},
        user : Holders, response : Response]
  \cup [pc : {"assert.delete", "assert.update"},
        user : Holders, response : Response, seen : Nat]
PasskeyTypeOK ==
  /\ challenges \in [ChallengeIds -> {NoRow} \cup
       [user : Holders, type : {"registration", "assertion"}, lapsed : BOOLEAN]]
  /\ drawn \in 0..MaxChallenges
  /\ credentials \in [Credentials -> {NoRow} \cup [user : Holders, signCount : Nat]]
  /\ counters \in [Credentials -> Nat]
  /\ responses \subseteq Response /\ accepted \subseteq ChallengeIds
  /\ ceremony \in [Ceremonies -> CeremonyType]

(* Types, and what the queries rely on: ids that were never drawn name no    *)
(* entry, and a verification that is about to write a count read a row.      *)
TypeOK ==
  /\ MemoryTypeOK /\ PasskeyTypeOK
  /\ eventKeys \subseteq Events /\ accepts \in [Events -> Nat]
  /\ cookie \in SessionIds \cup DatabaseSessions \cup {None}
  /\ calls \in 0..MaxCalls /\ crashes \in 0..MaxCrashes
  /\ \A i \in StateIds : i > issued.states => oauthStates[i] = None
  /\ \A s \in SessionIds : s > issued.sessions => sessions[s] = None /\ cookie # s
  /\ \A v \in Ceremonies : ceremony[v].pc \in {"assert.delete", "assert.update"}
       => credentials[ceremony[v].response.credential] # NoRow

(* An event is accepted at most once in each life of the process, however    *)
(* often and in whatever order it is delivered.                              *)
AcceptedOncePerLife == \A e \in Events : accepts[e] <= crashes + 1

(* An in-memory session that the cookie names is fully signed in, over       *)
(* sign-out, expiry, restarts and the other sign-in routes: /mfa/verify sets *)
(* the cookie after the code was right, and no other route sets it to an id  *)
(* of the Map.  The sessions a cookie names while the second step is still   *)
(* to come are those of the database, and the middleware asks for them.      *)
MemoryCookieElevated ==
  cookie \in SessionIds /\ sessions[cookie] # None => sessions[cookie].state = "authenticated"

-----------------------------------------------------------------------------
(* The Maps implement the contract of the database-backed sessions too: a    *)
(* session opens half signed in, is elevated by a code and, once it is       *)
(* dropped, expired or forgotten by a restart, never comes back.  Every user *)
(* the service makes is active and has a TOTP secret from the start          *)
(* (upsertUserByEmail); an id is spent when it was drawn and names no entry. *)
MemorySession(s) ==
  IF sessions[s] = None THEN None
  ELSE [user |-> sessions[s].user, full |-> sessions[s].state = "authenticated"]
SpentSessions == {s \in SessionIds : s <= issued.sessions /\ sessions[s] = None}

ASSUME SessionAssumption ==
  None \notin [user : Users, full : BOOLEAN]
            \cup [user : Users, state : {"pre_mfa", "authenticated"}, expiresAt : Nat]

Lifecycle == INSTANCE AccountLifecycle WITH
  phase   <- [u \in Users |-> "active"],
  factor  <- Users,
  session <- [s \in SessionIds |-> MemorySession(s)],
  spent   <- SpentSessions

ImplementsLifecycle == Lifecycle!Spec
=============================================================================
