----------------------------- MODULE AuthPanels -----------------------------
(* The panels of components/auth: the state each keeps, the controls it      *)
(* offers, what its handlers do when the user presses one, and what they do  *)
(* when the answer arrives.  A handler sets the pending flag, waits for one  *)
(* request (for OAuth, two in a row) and clears the flag in its finally.     *)
(* Whether a password is shown or hidden is layout.                          *)
EXTENDS WebRouter, SequencesExt
CONSTANTS
  CodeLength,         \* boxes of the one-time code
  Digits,             \* the characters typed into them
  Passwords,          \* texts for the password fields
  Acceptable          \* those that meet the policy of the panels

ASSUME AuthPanelsAssumption ==
  /\ CodeLength \in Nat \ {0} /\ Digits # {} /\ None \notin Digits
  /\ Acceptable \subseteq Passwords

VARIABLES
  panel,      \* the useState values of the mounted page
  legacyId    \* sessionStorage: legacy_session_id
panelVars == <<panel, legacyId>>

NoText == "no text"
Texts == Passwords \cup {NoText}
Blank == " "
Codes == UNION {[1..n -> Digits \cup {Blank}] : n \in 0..CodeLength}
FullCodes == [1..CodeLength -> Digits]

(* useState of SessionsSection and ChangePasswordSection.                    *)
SecurityPanel ==
  [sessions |-> {}, loading |-> TRUE, revoking |-> None, revokingAll |-> FALSE,
   error |-> FALSE, current |-> FALSE, password |-> NoText, confirm |-> NoText,
   submitting |-> FALSE, done |-> FALSE, changeError |-> FALSE]

(* useState of each panel when it mounts.  verify-email fails at once when   *)
(* the link has no token.                                                    *)
FirstState(to) ==
  CASE to.name = "/login" -> [pending |-> FALSE, error |-> FALSE]
    [] to.name = "/mfa" -> [code |-> <<>>, recovery |-> FALSE, pending |-> FALSE, error |-> FALSE]
    [] to.name = "/mfa/setup" ->
         [code |-> <<>>, setup |-> None, loadError |-> FALSE, copied |-> FALSE,
          pending |-> FALSE, error |-> FALSE]
    [] to.name \in {"/register", "/forgot-password"} ->
         [done |-> FALSE, pending |-> FALSE, error |-> FALSE]
    [] to.name = "/verify-email" ->
         [status |-> IF to.query = "token" THEN "loading" ELSE "error"]
    [] to.name = "/setup-password" ->
         [password |-> NoText, confirm |-> NoText, pending |-> FALSE, error |-> FALSE]
    [] to.name = "/reset-password" ->
         [password |-> NoText, confirm |-> NoText, done |-> FALSE,
          pending |-> FALSE, error |-> FALSE]
    [] to.name = "/settings/security" -> SecurityPanel
    [] OTHER -> [mounted |-> TRUE]

(* useEffect: what a panel asks for when it mounts.                          *)
FirstRequest(to) ==
  CASE to.name = "/mfa/setup" -> Sent("mfa.setup", None, None)
    [] to.name = "/verify-email" /\ to.query = "token" -> Sent("verify-email", None, None)
    [] to.name = "/settings/security" -> Sent("sessions", "mount", None)
    [] OTHER -> Free

On(name) == page.name = name
Keep == UNCHANGED <<apiVars, routerVars, legacyId>>
Change(p) == panel' = p /\ Keep

(* A handler up to its await.                                                *)
Ask(op, arg, next, p) ==
  /\ \E r \in Slots : FreeSlot(r) /\ request' = [request EXCEPT ![r] = Sent(op, arg, next)]
  /\ panel' = p
  /\ UNCHANGED <<sess, opened, secret, cookie, routerVars, legacyId>>

(* A handler after its await, up to its end or its next request.  What it    *)
(* sets is lost when its page has gone from the document; where it pushes is *)
(* gone to all the same.                                                     *)
Arrived(r, op) ==
  request[r].status \in {"ok", "failed"} /\ request[r].by # "gone" /\ request[r].op = op
Ok(r) == request[r].status = "ok"
Then(r, op, arg) == SentBy(op, arg, request[r].next, request[r].by)
Resume(r, p, push, then) ==
  /\ panel' = IF request[r].by = "page" THEN p ELSE panel
  /\ nav' = IF push = None THEN nav ELSE Start(push)
  /\ request' = [request EXCEPT ![r] = then]
  /\ cookie' = IF request[r].set = None THEN cookie ELSE request[r].set
  /\ UNCHANGED <<sess, opened, secret, page>>
Settled(r) == [panel EXCEPT !.pending = FALSE, !.error = ~Ok(r)]

(* The answer to a document that was left; its cookie may still be kept.     *)
Dropped(r) ==
  /\ request[r].status \in {"ok", "failed"} /\ request[r].by = "gone"
  /\ request' = [request EXCEPT ![r] = Free]
  /\ cookie' \in {cookie} \cup ({request[r].set} \ {None})
  /\ UNCHANGED <<sess, opened, secret, routerVars, panelVars>>

-----------------------------------------------------------------------------
(* login-panel.tsx                                                           *)
\* mutant: the buttons stay enabled while a request is under way
LoginControlsAlways == {"google", "apple", "submit"}
LoginControls == IF panel.pending THEN {} ELSE {"google", "apple", "submit"}
NextPath(query) == IF query = None THEN To("/dashboard", None) ELSE To(query, None)

HandleOAuth ==
  /\ On("/login") /\ LoginControls \cap {"google", "apple"} # {}
  /\ Ask("oauth.start", None, page.query, [panel EXCEPT !.pending = TRUE, !.error = FALSE])

OAuthStarted(r) ==
  /\ Arrived(r, "oauth.start")
  /\ IF Ok(r) THEN Resume(r, panel, None, Then(r, "oauth.callback", None))
     ELSE Resume(r, Settled(r), None, Free)
  /\ UNCHANGED legacyId

OAuthCalledBack(r) ==
  /\ Arrived(r, "oauth.callback")
  /\ Resume(r, Settled(r), IF Ok(r) THEN To("/mfa", request[r].next) ELSE None, Free)
  /\ UNCHANGED legacyId

(* The address decides between the two logins.                               *)
HandleLoginSubmit ==
  /\ On("/login") /\ "submit" \in LoginControls
  /\ \E op \in {"recovery", "login"} :
       Ask(op, None, page.query, [panel EXCEPT !.pending = TRUE, !.error = FALSE])

LoginTarget(state, query) ==
  CASE state = "authenticated" -> NextPath(query)
    [] state = "mfa_setup" -> To("/mfa/setup", None)
    [] OTHER -> To("/mfa", query)
LoginAnswered(r) ==
  /\ Arrived(r, "recovery") \/ Arrived(r, "login")
  /\ IF Ok(r)
     THEN /\ legacyId' = request[r].value.id
          /\ Resume(r, Settled(r), LoginTarget(request[r].value.state, request[r].next), Free)
     ELSE Resume(r, Settled(r), None, Free) /\ UNCHANGED legacyId

-----------------------------------------------------------------------------
(* The boxes of the one-time code, in mfa-panel.tsx and mfa-setup-panel.tsx. *)
(* The code is one string: padded, one character set or taken out, joined    *)
(* and trimmed.  Clearing a box thus moves the ones after it.                *)
Padded(code) == [i \in 1..CodeLength |-> IF i <= Len(code) THEN code[i] ELSE Blank]
TrimEnd(code) ==
  SubSeq(code, 1, Max({0} \cup {i \in 1..Len(code) : code[i] # Blank}))

\* mutant: the code is not padded first
UpdateDigitUnpadded(code, i, digit) ==
  TrimEnd(IF digit = None THEN IF i > Len(code) THEN code ELSE RemoveAt(code, i)
          ELSE IF i > Len(code) THEN Append(code, digit) ELSE ReplaceAt(code, i, digit))
UpdateDigit(code, i, digit) ==
  TrimEnd(IF digit = None THEN RemoveAt(Padded(code), i) ELSE ReplaceAt(Padded(code), i, digit))
Box(code, i) == IF i <= Len(code) THEN code[i] ELSE Blank

(* mfa-panel.tsx: the boxes or, in recovery mode, one free text.             *)
MfaControls ==
  IF panel.pending THEN {}
  ELSE {"submit", "toggle", "demo"} \cup (IF panel.recovery THEN {"text"} ELSE {"boxes"})

MfaType ==
  /\ On("/mfa")
  /\ \/ /\ "boxes" \in MfaControls
        /\ \E i \in 1..CodeLength, d \in Digits \cup {None} :
             Change([panel EXCEPT !.code = UpdateDigit(@, i, d)])
     \/ /\ "text" \in MfaControls
        /\ \E text \in FullCodes \cup {<<>>} : Change([panel EXCEPT !.code = text])

ToggleRecoveryMode ==
  /\ On("/mfa") /\ "toggle" \in MfaControls
  /\ Change([panel EXCEPT !.code = <<>>, !.error = FALSE, !.recovery = ~@])

(* loadDemoCode does not set the pending flag, so it can be pressed again    *)
(* and its answer comes at any time.                                         *)
LoadDemoCode ==
  /\ On("/mfa") /\ "demo" \in MfaControls
  /\ Ask("mfa.code", legacyId, None, [panel EXCEPT !.error = FALSE])
DemoCodeLoaded(r) ==
  /\ Arrived(r, "mfa.code")
  /\ \E value \in FullCodes :
       Resume(r, IF Ok(r) THEN [panel EXCEPT !.code = value]
                 ELSE [panel EXCEPT !.error = TRUE], None, Free)
  /\ UNCHANGED legacyId

(* The id of the last login, if it is still there, else the cookie.          *)
MfaSubmit ==
  /\ On("/mfa") /\ "submit" \in MfaControls
  /\ Ask("mfa.verify", legacyId, page.query, [panel EXCEPT !.pending = TRUE, !.error = FALSE])
MfaVerified(r) ==
  /\ Arrived(r, "mfa.verify")
  /\ legacyId' = IF Ok(r) THEN None ELSE legacyId
  /\ Resume(r, Settled(r), IF Ok(r) THEN NextPath(request[r].next) ELSE None, Free)

-----------------------------------------------------------------------------
(* mfa-setup-panel.tsx: nothing but the error or the waiting text until the  *)
(* answer to setupMfa is there.                                              *)
MfaSetupControls ==
  IF panel.loadError \/ panel.setup = None THEN {}
  ELSE {"copy"} \cup
       (IF panel.pending THEN {}
        ELSE {"boxes"} \cup
             (IF Len(SelectSeq(panel.code, LAMBDA c : c # Blank)) = CodeLength
              THEN {"submit"} ELSE {}))

SetupLoaded(r) ==
  /\ Arrived(r, "mfa.setup")
  /\ Resume(r, IF Ok(r) THEN [panel EXCEPT !.setup = request[r].value]
               ELSE [panel EXCEPT !.loadError = TRUE], None, Free)
  /\ UNCHANGED legacyId

MfaSetupType ==
  /\ On("/mfa/setup") /\ "boxes" \in MfaSetupControls
  /\ \E i \in 1..CodeLength, d \in Digits \cup {None} :
       Change([panel EXCEPT !.code = UpdateDigit(@, i, d)])

(* The clipboard may refuse; a timer takes "Copied!" back.                   *)
CopyAllCodes ==
  /\ On("/mfa/setup")
  /\ \/ "copy" \in MfaSetupControls /\ Change([panel EXCEPT !.copied = TRUE])
     \/ "copy" \in MfaSetupControls /\ Change([panel EXCEPT !.error = TRUE])
     \/ panel.copied /\ Change([panel EXCEPT !.copied = FALSE])

MfaSetupSubmit ==
  /\ On("/mfa/setup") /\ "submit" \in MfaSetupControls
  /\ Ask("mfa.setup.verify", None, None, [panel EXCEPT !.pending = TRUE, !.error = FALSE])
MfaSetupVerified(r) ==
  /\ Arrived(r, "mfa.setup.verify")
  /\ Resume(r, Settled(r), IF Ok(r) THEN To("/dashboard", None) ELSE None, Free)
  /\ UNCHANGED legacyId

-----------------------------------------------------------------------------
(* register-panel.tsx and forgot-password-panel.tsx: a form that gives way   *)
(* to a text once it is done; the latter is done whatever the answer.        *)
RegisterControls ==
  IF panel.done THEN {"again"} ELSE IF panel.pending THEN {} ELSE {"submit"}
ForgotPasswordControls == IF panel.done \/ panel.pending THEN {} ELSE {"submit"}
SubmitAddress ==
  /\ \/ On("/register") /\ "submit" \in RegisterControls
     \/ On("/forgot-password") /\ "submit" \in ForgotPasswordControls
  /\ Ask(IF On("/register") THEN "register" ELSE "forgot-password", None, None,
         [panel EXCEPT !.pending = TRUE, !.error = FALSE])
Registered(r) ==
  /\ Arrived(r, "register")
  /\ Resume(r, [Settled(r) EXCEPT !.done = Ok(r)], None, Free)
  /\ UNCHANGED legacyId
Forgotten(r) ==
  /\ Arrived(r, "forgot-password")
  /\ Resume(r, [panel EXCEPT !.pending = FALSE, !.done = TRUE], None, Free)
  /\ UNCHANGED legacyId
RegisterAgain ==
  On("/register") /\ "again" \in RegisterControls /\ Change([panel EXCEPT !.done = FALSE])

(* verify-email-panel.tsx                                                    *)
EmailVerified(r) ==
  /\ Arrived(r, "verify-email")
  /\ Resume(r, [panel EXCEPT !.status = IF Ok(r) THEN "success" ELSE "error"],
            IF Ok(r) THEN To("/setup-password", "token") ELSE None, Free)
  /\ UNCHANGED legacyId

-----------------------------------------------------------------------------
(* setup-password-panel.tsx validates when it is submitted, reset-password-  *)
(* panel.tsx before it lets itself be submitted.                             *)
Valid == panel.password \in Acceptable /\ panel.password = panel.confirm
SetupPasswordControls ==
  IF panel.pending THEN {}
  ELSE {"fields"} \cup (IF NoText \in {panel.password, panel.confirm} THEN {} ELSE {"submit"})
ResetPasswordControls ==
  IF panel.done \/ panel.pending THEN {} ELSE {"fields"} \cup (IF Valid THEN {"submit"} ELSE {})

TypePassword ==
  /\ \/ On("/setup-password") /\ "fields" \in SetupPasswordControls
     \/ On("/reset-password") /\ "fields" \in ResetPasswordControls
  /\ \E text \in Texts :
       Change([panel EXCEPT !.password = text]) \/ Change([panel EXCEPT !.confirm = text])

SetupPasswordSubmit ==
  /\ On("/setup-password") /\ "submit" \in SetupPasswordControls
  /\ IF Valid /\ page.query = "token"
     THEN Ask("setup-password", None, None, [panel EXCEPT !.pending = TRUE, !.error = FALSE])
     ELSE Change([panel EXCEPT !.error = TRUE])
PasswordSetUp(r) ==
  /\ Arrived(r, "setup-password")
  /\ Resume(r, Settled(r), IF Ok(r) THEN To("/mfa/setup", None) ELSE None, Free)
  /\ UNCHANGED legacyId

ResetPasswordSubmit ==
  /\ On("/reset-password") /\ "submit" \in ResetPasswordControls
  /\ Ask("reset-password", None, None, [panel EXCEPT !.pending = TRUE, !.error = FALSE])
PasswordReset(r) ==
  /\ Arrived(r, "reset-password")
  /\ Resume(r, [Settled(r) EXCEPT !.done = Ok(r)], None, Free)
  /\ UNCHANGED legacyId
=============================================================================
