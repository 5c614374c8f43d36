------------------------------ MODULE WebAuth -------------------------------
(* One browser tab: the router, the panels and the API's side of them.       *)
EXTENDS SecuritySettings
CONSTANTS
  Targets,      \* bound: the pages behind the login that are visited
  Devices,      \* the user's other devices, signed in when this one is
  MaxActs       \* bound: links followed, steps back, requests made and
                \* password changes typed

(* None is no name, no state and no number; a session is drawn before each   *)
(* of the devices has its own.                                               *)
ASSUME WebAuthAssumption ==
  /\ MaxActs \in Nat
  /\ None \notin Nat \cup {"none yet", "pre_mfa", "mfa_setup", "authenticated"}
  /\ None \notin [store : {"db", "memory"}, state : {"pre_mfa", "mfa_setup", "authenticated"}]
  /\ IsFiniteSet(Devices) /\ 1 + Cardinality(Devices) <= MaxSessions

VARIABLES acts
vars == <<apiVars, routerVars, panelVars, securityVars, acts>>

(* A tab is opened on some page; the browser may hold the cookie of a        *)
(* session, and the user may have sessions on other devices.                 *)
PublicPages ==
  [name : {"/", "/login", "/mfa"}, query : {None}]
  \cup [name : {"/mfa/setup", "/register", "/forgot-password", "/reset-password"}, query : {None}]
  \cup [name : {"/verify-email", "/setup-password"}, query : {None, "token"}]
Entries == PublicPages \cup [name : Targets, query : {None}]

Init ==
  /\ \E held \in {None, "pre_mfa", "mfa_setup", "authenticated"} :
       /\ cookie = (IF held = None THEN None ELSE 1)
       /\ opened = IF held = "authenticated" THEN 1 + Cardinality(Devices) ELSE 1
       /\ sess = [s \in SessionIds |->
            IF s > opened \/ held = None THEN None
            ELSE [store |-> "db", state |-> IF s = 1 THEN held ELSE "authenticated"]]
  /\ secret = 0 /\ request = [r \in Slots |-> Free]
  /\ page = To("blank", None) /\ (\E to \in Entries : nav = Start(to))
  /\ panel = FirstState(page) /\ legacyId = None
  /\ revoked = {} /\ overlapped = FALSE /\ acts = 0

Act == acts < MaxActs /\ acts' = acts + 1

MountPage ==
  /\ MountableWith(FirstRequest(nav.to))
  /\ panel' = FirstState(nav.to)
  /\ revoked' = {} /\ overlapped' = FALSE
  /\ UNCHANGED legacyId

Route ==
  \/ (FetchSessionState \/ RouterRedirects) /\ UNCHANGED <<panelVars, securityVars>>
  \/ MountPage

(* The links of the panels, and the address bar.                             *)
Leave ==
  /\ nav = None /\ Act
  /\ \E to \in Entries : Load(to)
  /\ panel' = FirstState(page')
  /\ revoked' = {} /\ overlapped' = FALSE
  /\ UNCHANGED legacyId

(* The back button stays in the document.                                    *)
GoBack ==
  /\ nav = None /\ Act
  /\ \E to \in Entries : to # page /\ nav' = Start(to)
  /\ UNCHANGED <<apiVars, page, panelVars, securityVars>>

PanelStep ==
  /\ \/ HandleOAuth \/ HandleLoginSubmit
     \/ MfaType \/ ToggleRecoveryMode \/ LoadDemoCode \/ MfaSubmit
     \/ MfaSetupType \/ CopyAllCodes \/ MfaSetupSubmit
     \/ SubmitAddress \/ RegisterAgain
     \/ TypePassword \/ SetupPasswordSubmit \/ ResetPasswordSubmit
  /\ UNCHANGED securityVars
SecurityStep ==
  \/ HandleRevokeAll \/ TypeInChangePassword \/ ChangePasswordSubmit
  \/ \E s \in SessionIds : HandleRevoke(s)

Continue(r) ==
  \/ /\ \/ OAuthStarted(r) \/ OAuthCalledBack(r) \/ LoginAnswered(r) \/ MfaVerified(r)
        \/ DemoCodeLoaded(r) \/ SetupLoaded(r) \/ MfaSetupVerified(r) \/ EmailVerified(r)
        \/ Registered(r) \/ Forgotten(r) \/ PasswordSetUp(r) \/ PasswordReset(r)
     /\ UNCHANGED securityVars
  \/ RevokeAnswered(r) \/ SessionsLoaded(r) \/ PasswordChanged(r)
  \/ Dropped(r) /\ UNCHANGED securityVars

ApiStep ==
  /\ SessionEnds \/ \E r \in Slots : Serve(r)
  /\ UNCHANGED <<routerVars, panelVars, securityVars>>

Next ==
  \/ Leave \/ GoBack
  \/ PanelStep /\ IF request' = request THEN UNCHANGED acts ELSE Act
  \/ SecurityStep /\ Act
  \/ (Route \/ ApiStep) /\ UNCHANGED acts
  \/ \E r \in Slots : Continue(r) /\ UNCHANGED acts

Spec == Init /\ [][Next]_vars

-----------------------------------------------------------------------------
(* The flag each handler sets, and the requests it waits for meanwhile.      *)
FormPages ==
  {"/login", "/mfa", "/mfa/setup", "/register", "/forgot-password",
   "/setup-password", "/reset-password"}
Submits ==
  {"oauth.start", "oauth.callback", "recovery", "login", "mfa.verify", "mfa.setup.verify",
   "register", "forgot-password", "setup-password", "reset-password"}

(* A form is pending exactly while one request of its own is awaited, and    *)
(* there is never a second one: every path of a handler clears the flag, and *)
(* the controls that start another are disabled until then.  For the list of *)
(* sessions the same holds of revokingAll and submitting.                    *)
PendingWhileCalling ==
  /\ page.name \in FormPages =>
       LET mine == UNION {Awaited(op) : op \in Submits}
       IN Cardinality(mine) = IF panel.pending THEN 1 ELSE 0
  /\ SecurityPage =>
       /\ Cardinality(Awaited("revoke-all")
            \cup {r \in Awaited("sessions") : request[r].arg = "revoke-all"})
          = IF panel.revokingAll THEN 1 ELSE 0
       /\ Cardinality(Awaited("change-password")) = IF panel.submitting THEN 1 ELSE 0

(* Typing a character into a box changes no other box, wherever the cursor   *)
(* was put (updateDigit).  Clearing one does, which is why this is said of   *)
(* typing only.                                                              *)
TypingKeepsOthers ==
  page.name \in {"/mfa", "/mfa/setup"} =>
    \A i, j \in 1..CodeLength : \A d \in Digits :
      Box(UpdateDigit(panel.code, i, d), j) = IF j = i THEN d ELSE Box(panel.code, j)

(* The state a page may be in.                                               *)
PanelType(name) ==
  CASE name = "/login" -> [pending : BOOLEAN, error : BOOLEAN]
    [] name = "/mfa" ->
         [code : Codes, recovery : BOOLEAN, pending : BOOLEAN, error : BOOLEAN]
    [] name = "/mfa/setup" ->
         [code : Codes, setup : 1..MaxSetups \cup {None}, loadError : BOOLEAN,
          copied : BOOLEAN, pending : BOOLEAN, error : BOOLEAN]
    [] name \in {"/register", "/forgot-password"} ->
         [done : BOOLEAN, pending : BOOLEAN, error : BOOLEAN]
    [] name = "/verify-email" -> [status : {"loading", "success", "error"}]
    [] name = "/setup-password" ->
         [password : Texts, confirm : Texts, pending : BOOLEAN, error : BOOLEAN]
    [] name = "/reset-password" ->
         [password : Texts, confirm : Texts, done : BOOLEAN, pending : BOOLEAN, error : BOOLEAN]
    [] name = "/settings/security" ->
         [sessions : SUBSET SessionIds, loading : BOOLEAN, revoking : SessionIds \cup {None},
          revokingAll : BOOLEAN, error : BOOLEAN, current : BOOLEAN, password : Texts,
          confirm : Texts, submitting : BOOLEAN, done : BOOLEAN, changeError : BOOLEAN]
    [] OTHER -> [mounted : {TRUE}]
PageType ==
  Entries \cup {To("blank", None)}
  \cup [name : PagesBehindLogin \cup {"/login", "/mfa"}, query : PagesBehindLogin \cup {None}]

(* Types, and: a session that is named has been drawn; what waits for an     *)
(* answer waits for one of the requests of its page.                         *)
TypeOK ==
  /\ sess \in [SessionIds -> {None} \cup
       [store : {"db", "memory"}, state : {"pre_mfa", "mfa_setup", "authenticated"}]]
  /\ opened \in 0..MaxSessions /\ secret \in 0..MaxSetups
  /\ {cookie, legacyId} \subseteq SessionIds \cup {None}
  /\ \A s \in SessionIds : s > opened => sess[s] = None /\ cookie # s /\ legacyId # s
  /\ \A r \in Slots : request[r] # Free =>
       /\ request[r].status \in {"sent", "ok", "failed"}
       /\ request[r].op \in Calls
       /\ request[r].by \in {"page", "past", "gone"}
  /\ page \in PageType /\ panel \in PanelType(page.name)
  /\ revoked \subseteq SessionIds /\ overlapped \in BOOLEAN
  /\ acts \in 0..MaxActs

-----------------------------------------------------------------------------
(* The API of this model keeps the contract of both services behind it: the  *)
(* sessions the tab can meet open, are elevated and end as AccountLifecycle  *)
(* allows.  They are those of one user, whose account is active and who has  *)
(* an authenticator; an id is spent when it was drawn and names no session.  *)
ContractSession(s) ==
  IF sess[s] = None THEN None
  ELSE [user |-> "holder", full |-> sess[s].state = "authenticated"]
SpentIds == {s \in SessionIds : s <= opened /\ sess[s] = None}

ASSUME ContractAssumption == None \notin [user : {"holder"}, full : BOOLEAN]

Lifecycle == INSTANCE AccountLifecycle WITH
  Users   <- {"holder"},
  phase   <- [u \in {"holder"} |-> "active"],
  factor  <- {"holder"},
  session <- [s \in SessionIds |-> ContractSession(s)],
  spent   <- SpentIds

ImplementsLifecycle == Lifecycle!Spec
=============================================================================
