----------------------------- MODULE MCBindings -----------------------------
(* SerialBindings with concrete owners, for model checking. *)
EXTENDS SerialBindings, TLC

CONSTANTS t1, t2, p1, p2

\* p1 belongs to t1 and every other property to t2.
MCOwnerOf == [p \in Properties |-> IF p = p1 THEN t1 ELSE t2]

Symmetry == Permutations(Requests) \cup Permutations(BindingIds)
=============================================================================
