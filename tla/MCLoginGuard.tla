---------------------------- MODULE MCLoginGuard ----------------------------
(* LoginGuard on a small instance. *)
EXTENDS LoginGuard
=============================================================================
