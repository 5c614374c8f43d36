------------------------------ MODULE AuthClaims ------------------------------
(***************************************************************************)
(* What the comments of the code and the design document of the login      *)
(* system (docs/superpowers/specs/2026-03-29-login-system-design.md) say   *)
(* of the auth service, and the code does not do.  Every property below is *)
(* refuted by a run of its own; README.md tells the counterexamples, and   *)
(* the divergences that need no interleaving.                              *)
(***************************************************************************)
EXTENDS AuthService

(* "Tokens are single-use: once consumed_at is set they are invalid"       *)
(* (tokenRepository.js:5).  No two handlers act on one token: both may     *)
(* have found it valid before either consumed it.                          *)
Spending(r) == req[r].pc \in {"verifyEmail.mark", "verifyEmail.issue",
                              "setupPassword.set", "setupPassword.session",
                              "reset.update", "reset.revoke"}
TokenSingleUse ==
  \A r1, r2 \in Requests :
    Spending(r1) /\ Spending(r2) /\ req[r1].ref = req[r2].ref => r1 = r2

(* "Account (login): 5 failed attempts, Lock 15 minutes" (design:370): a   *)
(* lock that is set ends only when its time has passed.                    *)
LockHolds ==
  [][\A u \in Users : users[u] # None /\ users[u].lock = "locked"
                        => users'[u].lock # "none"]_authVars

(* "Revoke ALL sessions for this user (force re-login)" (design:229): a    *)
(* login that checked a password a reset has replaced since opens a        *)
(* session only while that reset is still to revoke it, with the others.   *)
ResetForcesRelogin ==
  [][\A q \in Requests :
       LoginSession(q) /\ users[req[q].user].password # req[q].aux
         => \E r \in Requests : At(r, "reset.revoke") /\ req[r].user = req[q].user]_authVars
=============================================================================
