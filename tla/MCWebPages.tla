----------------------------- MODULE MCWebPages -----------------------------
(* A small instance of WebPages for TLC. *)
EXTENDS WebPages
=============================================================================
