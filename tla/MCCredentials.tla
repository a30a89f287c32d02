---------------------------- MODULE MCCredentials ----------------------------
(* Credentials with symmetric sets of values, for model checking. *)
EXTENDS Credentials, TLC

Symmetry == Permutations(Requests) \cup Permutations(Values)
=============================================================================
