----------------------------- MODULE MCSessions -----------------------------
(* SerialSessions with symmetric sets of values, for model checking. *)
EXTENDS SerialSessions, TLC

Symmetry == Permutations(Users) \cup Permutations(SessionIds)
               \cup Permutations(Tokens) \cup Permutations(Requests)
=============================================================================
