--------------------------- MODULE AccountLifecycle ---------------------------
(***************************************************************************)
(* What the auth service promises of an account and its sessions, with no  *)
(* requests, tokens or queries: the "two state machines" of the login      *)
(* design.  An account is registered, verified and activated in that       *)
(* order; a session opens only for an active account, is elevated at most  *)
(* once and only when the account has a second factor, and once it has     *)
(* ended it never comes back.                                              *)
(***************************************************************************)
CONSTANTS Users, SessionIds, None

VARIABLES
  phase,    \* [Users -> {"absent", "pending", "verified", "active"}]
  factor,   \* the users with a second factor
  session,  \* [SessionIds -> [user, full] or None]
  spent     \* the ids that can open no session any more

lifecycleVars == <<phase, factor, session, spent>>

Register(u) ==
  /\ phase[u] = "absent"
  /\ phase' = [phase EXCEPT ![u] = "pending"]
  /\ UNCHANGED <<factor, session, spent>>

Verify(u) ==
  /\ phase[u] = "pending"
  /\ phase' = [phase EXCEPT ![u] = "verified"]
  /\ UNCHANGED <<factor, session, spent>>

Activate(u) ==
  /\ phase[u] = "verified"
  /\ phase' = [phase EXCEPT ![u] = "active"]
  /\ UNCHANGED <<factor, session, spent>>

AddFactor(u) ==
  /\ phase[u] = "active"
  /\ factor' = factor \cup {u}
  /\ UNCHANGED <<phase, session, spent>>

Open(s, u) ==
  /\ phase[u] = "active"
  /\ session[s] = None /\ s \notin spent
  /\ session' = [session EXCEPT ![s] = [user |-> u, full |-> FALSE]]
  /\ UNCHANGED <<phase, factor, spent>>

Elevate(s) ==
  /\ session[s] # None /\ session[s].user \in factor
  /\ session' = [session EXCEPT ![s].full = TRUE]
  /\ UNCHANGED <<phase, factor, spent>>

(* Sign-out, revocation and expiry end any number of sessions at once; an  *)
(* attempt to open one may also come to nothing.                           *)
Retire ==
  /\ spent \subseteq spent' /\ spent' \subseteq SessionIds
  /\ session' = [s \in SessionIds |-> IF s \in spent' THEN None ELSE session[s]]
  /\ UNCHANGED <<phase, factor>>

Next ==
  \/ \E u \in Users : Register(u) \/ Verify(u) \/ Activate(u) \/ AddFactor(u)
  \/ \E s \in SessionIds, u \in Users : Open(s, u)
  \/ \E s \in SessionIds : Elevate(s)
  \/ Retire

(* Some accounts are complete already, and their users may be signed in, *)
(* or half way there.                                                    *)
Init ==
  /\ phase \in [Users -> {"absent", "active"}]
  /\ factor = {u \in Users : phase[u] = "active"}
  /\ spent \subseteq SessionIds
  /\ session \in [SessionIds -> {None} \cup [user : factor, full : BOOLEAN]]
  /\ \A s \in spent : session[s] = None

Spec == Init /\ [][Next]_lifecycleVars
=============================================================================
