--------------------------- MODULE MCPropertyStore ---------------------------
(***************************************************************************)
(* PropertyStore for TLC, from an empty table with requests that create,   *)
(* or from two properties of one tenant with requests that change.         *)
(***************************************************************************)
EXTENDS PropertyStore

CONSTANTS t1, p1, p2, g1, r1

VARIABLE creating   \* the requests create

Stored == [id \in {p1, p2} |->
              [tenant |-> t1, place |-> IF id = p1 THEN g1 ELSE None, active |-> TRUE]]

MCInit ==
    \/ Init /\ creating = TRUE
    \/ /\ rows = Stored /\ trail = Stored
       /\ writes = [r \in Requests |-> EmptyTable]
       /\ req = [r \in Requests |-> Idle]
       /\ creating = FALSE

Starts(r) == req[r].kind = None /\ req'[r].kind # None

\* Bounds: what requests do in each scene, and on which rows.  A bulk deactivation is
\* of two rows, an update changes the place at most, or nothing of p1, at most one
\* request is of the other tenant, which creates no batches, and a second request
\* starts while the first one runs.
Scene ==
    /\ \A r \in Requests \ {r1} : Starts(r) => req[r1].kind # None
    /\ \A r \in Requests : Starts(r) =>
           /\ creating <=> req'[r].kind \in Creating
           /\ ~creating => ToSet(req'[r].todo) \subseteq {p1, p2}
           /\ req'[r].tenant = t1 \/ (r # r1 /\ (creating => Len(req'[r].todo) = 1))
           /\ req'[r].kind = "bulkDeactivate" => Len(req'[r].todo) = 2
           /\ req'[r].kind = "update"
                  => /\ req'[r].object.place \in {g1, None}
                     /\ req'[r].object.active = req'[r].seen.active
                     /\ req'[r].object = req'[r].seen => req'[r].todo = <<p1>>

MCNext == Next /\ Scene /\ UNCHANGED creating

mcvars == <<vars, creating>>
MCSpec == MCInit /\ [][MCNext]_mcvars /\ Fairness
=============================================================================
