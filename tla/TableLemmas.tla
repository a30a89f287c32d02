----------------------------- MODULE TableLemmas -----------------------------
(* What Put does to a table, for any keys and rows. *)
EXTENDS Tables, TLAPS

\* Storing a row of the table's type keeps it a table.
LEMMA PutIsTable ==
    ASSUME NEW K, NEW R, NEW f, IsTable(f, K, R), NEW k \in K, NEW v \in R
    PROVE  IsTable(Put(f, k, v), K, R)
BY DEF IsTable, Put

\* Storing the row that is stored already changes nothing.
LEMMA PutSame ==
    ASSUME NEW K, NEW R, NEW f, IsTable(f, K, R), NEW k \in DOMAIN f
    PROVE  Put(f, k, f[k]) = f
BY DEF IsTable, Put

\* EXCEPT on a stored key is Put.
LEMMA PutExcept ==
    ASSUME NEW K, NEW R, NEW f, IsTable(f, K, R), NEW k \in DOMAIN f, NEW v
    PROVE  [f EXCEPT ![k] = v] = Put(f, k, v)
BY DEF IsTable, Put
=============================================================================
