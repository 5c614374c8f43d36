------------------------------ MODULE MCWebAuth -----------------------------
(* A small instance of WebAuth for TLC. *)
EXTENDS WebAuth
=============================================================================
