------------------------------- MODULE Tables -------------------------------
(***************************************************************************)
(* A database table as a function from the primary keys stored in it to    *)
(* the committed rows.                                                     *)
(***************************************************************************)

EmptyTable == [key \in {} |-> {}]

IsTable(table, Keys, Rows) ==
    /\ DOMAIN table \subseteq Keys
    /\ table \in [DOMAIN table -> Rows]

\* INSERT of a new key, or UPDATE of a stored one.
Put(table, key, row) ==
    [k \in DOMAIN table \cup {key} |-> IF k = key THEN row ELSE table[k]]
=============================================================================
