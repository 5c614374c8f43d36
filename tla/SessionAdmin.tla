----------------------------- MODULE SessionAdmin -----------------------------
(***************************************************************************)
(* Ending sessions: logoutDb, revokeSession and revokeAllOtherSessions of  *)
(* authService.js.  getSessionDb and listSessions only read.               *)
(***************************************************************************)
EXTENDS AuthRequests

(* logoutDb: DELETE by the id in the cookie, whatever state it is in. *)
Logout(r, s) ==
  /\ Receive(r, "logout")
  /\ DeleteSessions({s})
  /\ Return(r)
  /\ UNCHANGED <<users, tokens, devices, codes, ipHits>>

(* revokeSession: the cookie must hold an authenticated session. *)
RevokeSession(r, s, target) ==
  /\ Receive(r, "revokeSession")
  /\ IF ValidSession(s, "authenticated")
     THEN Suspend(r, "revoke.delete", sessions[s].user, s, target, None)
     ELSE Return(r)
  /\ UNCHANGED <<tables, ipHits>>

RevokeDeleteAny(r) ==  \* mutant: delete(target), with no ownership test
  /\ At(r, "revoke.delete")
  /\ DeleteSessions({req[r].arg})
  /\ Return(r)
  /\ UNCHANGED <<users, tokens, devices, codes>> /\ Quiet

(* deleteIfOwned(user_id, target) *)
RevokeDelete(r) ==
  /\ At(r, "revoke.delete")
  /\ DeleteSessions(OwnedBy(req[r].user) \cap {req[r].arg})
  /\ Return(r)
  /\ UNCHANGED <<users, tokens, devices, codes>> /\ Quiet

RevokeAllOthers(r, s) ==
  /\ Receive(r, "revokeAllOtherSessions")
  /\ IF ValidSession(s, "authenticated")
     THEN Suspend(r, "revokeAll.delete", sessions[s].user, s, None, None)
     ELSE Return(r)
  /\ UNCHANGED <<tables, ipHits>>

(* revokeAllExcept(user_id, own session) *)
RevokeAllDelete(r) ==
  /\ At(r, "revokeAll.delete")
  /\ DeleteSessions(OwnedBy(req[r].user) \ {req[r].ref})
  /\ Return(r)
  /\ UNCHANGED <<users, tokens, devices, codes>> /\ Quiet

-----------------------------------------------------------------------------
SessionCalls(r) ==
  \E s \in SessionIds :
    \/ Logout(r, s)
    \/ \E target \in SessionIds : RevokeSession(r, s, target)
    \/ RevokeAllOthers(r, s)

SessionSteps(r) == RevokeDelete(r) \/ RevokeAllDelete(r)
=============================================================================
