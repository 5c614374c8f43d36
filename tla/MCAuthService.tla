----------------------------- MODULE MCAuthService -----------------------------
(* Small instances of AuthService for TLC. *)
EXTENDS AuthClaims, AuthInvariant
=============================================================================
