-------------------------- MODULE SecuritySettings --------------------------
(* security-panel.tsx: the list of sessions, each revocable, and the change  *)
(* of the password.  Revoking waits for two requests in a row, the DELETE    *)
(* and a fresh list, and several may be under way at once.                   *)
EXTENDS AuthPanels
CONSTANTS Long          \* texts of at least eight characters

VARIABLES
  revoked,      \* history: sessions this page was told it revoked
  overlapped    \* history: a list was asked for while another was awaited
securityVars == <<revoked, overlapped>>

SecurityPage == On("/settings/security")
Awaited(op) == {r \in Slots : /\ request[r] # Free /\ request[r].by = "page"
                              /\ request[r].op = op}

(* Rows are there when no list is awaited, so far as the flag knows; the     *)
(* button above them whenever there is more than one.                        *)
RevokableRows ==
  IF panel.loading THEN {} ELSE panel.sessions \ {panel.revoking}
RevokeAllEnabled == Cardinality(panel.sessions) > 1 /\ ~panel.revokingAll

HandleRevoke(s) ==
  /\ SecurityPage /\ s \in RevokableRows
  /\ Ask("revoke", s, None, [panel EXCEPT !.revoking = s, !.error = FALSE])
  /\ UNCHANGED securityVars

HandleRevokeAll ==
  /\ SecurityPage /\ RevokeAllEnabled
  /\ Ask("revoke-all", None, None, [panel EXCEPT !.revokingAll = TRUE, !.error = FALSE])
  /\ UNCHANGED securityVars

(* The finally of the handler that started with op.                          *)
Finished(p, op) ==
  CASE op = "revoke" -> [p EXCEPT !.revoking = None]
    [] op = "revoke-all" -> [p EXCEPT !.revokingAll = FALSE]
    [] OTHER -> p

\* mutant: the list is not asked for again
RevokeAnsweredOnce(r) ==
  /\ Arrived(r, "revoke") \/ Arrived(r, "revoke-all")
  /\ Resume(r, [Finished(panel, request[r].op) EXCEPT !.error = ~Ok(r)], None, Free)
  /\ revoked' = IF Ok(r) /\ request[r].by = "page"
                THEN revoked \cup request[r].value ELSE revoked
  /\ UNCHANGED <<overlapped, legacyId>>
(* loadSessions begins where the DELETE succeeded.                           *)
RevokeAnswered(r) ==
  /\ Arrived(r, "revoke") \/ Arrived(r, "revoke-all")
  /\ IF Ok(r)
     THEN /\ Resume(r, [panel EXCEPT !.loading = TRUE, !.error = FALSE], None,
                    Then(r, "sessions", request[r].op))
          /\ IF request[r].by = "page"
             THEN /\ revoked' = revoked \cup request[r].value
                  /\ overlapped' = (overlapped \/ Awaited("sessions") # {})
             ELSE UNCHANGED securityVars
     ELSE /\ Resume(r, [Finished(panel, request[r].op) EXCEPT !.error = TRUE], None, Free)
          /\ UNCHANGED securityVars
  /\ UNCHANGED legacyId

(* loadSessions catches its own error, and the handler that called it ends.  *)
SessionsLoaded(r) ==
  /\ Arrived(r, "sessions")
  /\ LET p == [panel EXCEPT !.loading = FALSE]
     IN Resume(r, IF Ok(r) THEN [Finished(p, request[r].arg) EXCEPT !.sessions = request[r].value]
                  ELSE [Finished(p, request[r].arg) EXCEPT !.error = TRUE], None, Free)
  /\ UNCHANGED <<legacyId, securityVars>>

-----------------------------------------------------------------------------
(* The fields stay enabled while the request is under way.                   *)
CanSubmit ==
  /\ panel.current /\ panel.password \in Long /\ panel.password = panel.confirm
  /\ ~panel.submitting

TypeInChangePassword ==
  /\ SecurityPage
  /\ \E current \in BOOLEAN, password, confirm \in Texts :
       Change([panel EXCEPT !.current = current, !.password = password, !.confirm = confirm])
  /\ UNCHANGED securityVars

ChangePasswordSubmit ==
  /\ SecurityPage /\ CanSubmit
  /\ Ask("change-password", None, None,
         [panel EXCEPT !.submitting = TRUE, !.changeError = FALSE, !.done = FALSE])
  /\ UNCHANGED securityVars

PasswordChanged(r) ==
  /\ Arrived(r, "change-password")
  /\ Resume(r, IF Ok(r)
               THEN [panel EXCEPT !.submitting = FALSE, !.done = TRUE, !.current = FALSE,
                                  !.password = NoText, !.confirm = NoText]
               ELSE [panel EXCEPT !.submitting = FALSE, !.changeError = TRUE], None, Free)
  /\ UNCHANGED <<legacyId, securityVars>>

-----------------------------------------------------------------------------
(* When everything asked for has been answered, no session is listed that    *)
(* this page was told it revoked; except that two lists under way at once    *)
(* may arrive in either order (handleRevoke, loadSessions).                  *)
RevokedGoneWhenQuiet ==
  SecurityPage /\ Awaited("revoke") \cup Awaited("revoke-all") \cup Awaited("sessions") = {}
               /\ ~overlapped /\ ~panel.error
    => panel.sessions \cap revoked = {}
=============================================================================
