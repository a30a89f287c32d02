---------------------------- MODULE PropertyStore ----------------------------
(***************************************************************************)
(* The properties of the tenants (table properties): single and bulk       *)
(* creation, update, activation, deactivation and bulk deactivation.       *)
(*                                                                         *)
(* Handlers run in a thread pool, each in one transaction at READ          *)
(* COMMITTED.  A bulk request writes several rows before it commits, so    *)
(* here a written row and its place stay locked until the commit, others   *)
(* wait for them, and two requests may wait for each other: PostgreSQL     *)
(* then fails one of them.                                                 *)
(***************************************************************************)
EXTENDS Naturals, FiniteSets, Sequences, SequencesExt, Tables

CONSTANTS Tenants,      \* tenants.id
          PropertyIds,  \* properties.id, a bound on the rows stored
          Places,       \* values of google_place_id
          MaxBatch,     \* a bound on the items of a bulk request
          Requests,     \* requests in progress at the same time
          None          \* no place, or an unused field

ASSUME PropertyConstants == MaxBatch \in Nat \ {0} /\ None \notin Places \cup PropertyIds

VARIABLES
    rows,    \* properties: the committed rows
    trail,   \* after_value of the audit row that was committed last, per property
    writes,  \* the row versions each transaction has written and not committed
    req      \* what each request executes

vars == <<rows, trail, writes, req>>

Row == [tenant : Tenants, place : Places \cup {None}, active : BOOLEAN]

Creating  == {"create", "bulkCreate"}
Switching == {"activate", "deactivate", "bulkDeactivate"}
Kinds     == Creating \cup Switching \cup {"update"}

\* What a request notes of an item: a row that it has created or changed, with its
\* snapshot for the audit trail.
Result == [ok : BOOLEAN, id : PropertyIds \cup {None}, after : Row \cup {None}]

Failure   == [ok |-> FALSE, id |-> None, after |-> None]
Unchanged == [ok |-> TRUE,  id |-> None, after |-> None]

Request == [kind    : Kinds \cup {None},
            pc      : {"idle", "insert", "find", "write", "index", "commit"},
            tenant  : Tenants \cup {None},
            todo    : Seq(Places \cup PropertyIds \cup {None}),
            seen    : Row \cup {None},   \* the row as the session loaded it
            object  : Row \cup {None},   \* the session's object
            results : Seq(Result)]

Idle == [kind |-> None, pc |-> "idle", tenant |-> None, todo |-> <<>>,
         seen |-> None, object |-> None, results |-> <<>>]

Running(kind, pc, t, todo, seen, object) ==
    [kind |-> kind, pc |-> pc, tenant |-> t, todo |-> todo,
     seen |-> seen, object |-> object, results |-> <<>>]

TypeOK ==
    /\ IsTable(rows, PropertyIds, Row)
    /\ IsTable(trail, PropertyIds, Row)
    /\ DOMAIN writes = Requests
    /\ \A r \in Requests : IsTable(writes[r], PropertyIds, Row)
    /\ req \in [Requests -> Request]

Init ==
    /\ rows = EmptyTable
    /\ trail = EmptyTable
    /\ writes = [r \in Requests |-> EmptyTable]
    /\ req = [r \in Requests |-> Idle]

\* The session is closed: what was not committed is rolled back.
Answer(r) ==
    /\ req' = [req EXCEPT ![r] = Idle]
    /\ writes' = [writes EXCEPT ![r] = EmptyTable]

-----------------------------------------------------------------------------
(* Rows, row locks and the unique index.                                   *)

\* What a transaction reads: the committed rows and its own writes over them.
View(r) == [id \in DOMAIN rows \cup DOMAIN writes[r] |->
               IF id \in DOMAIN writes[r] THEN writes[r][id] ELSE rows[id]]

\* Mistake: the lookup is not filtered by tenant.
OwnedByAnyone(r, t, id) == id \in DOMAIN View(r)

\* filter_by_tenant: a property of another tenant does not exist.
Owned(r, t, id) == id \in DOMAIN View(r) /\ View(r)[id].tenant = t

\* The transactions that have written this row.
RowHolders(r, id) == {q \in Requests \ {r} : id \in DOMAIN writes[q]}

\* The transactions that have written a row which has, or had, this place.
PlaceHolders(r, t, p) ==
    {q \in Requests \ {r} :
        p # None /\ \E id \in DOMAIN writes[q] :
            /\ writes[q][id].tenant = t
            /\ writes[q][id].place = p \/ (id \in DOMAIN rows /\ rows[id].place = p)}

\* Mistake: no migration creates the index.
PlaceFree(r, t, p, own) == FALSE

\* ux_properties_tenant_place: a row other than the one being written has the place.
PlaceTaken(r, t, p, own) ==
    p # None /\ \E id \in DOMAIN View(r) \ {own} :
                   View(r)[id].tenant = t /\ View(r)[id].place = p

\* The statement that a request executes next waits for these transactions.
WaitsFor(r) ==
    CASE req[r].pc = "insert" -> PlaceHolders(r, req[r].tenant, Head(req[r].todo))
      [] req[r].pc = "write"  -> RowHolders(r, Head(req[r].todo))
      [] req[r].pc = "index"  -> PlaceHolders(r, req[r].tenant, req[r].object.place)
      [] OTHER -> {}

\* The requests of a cycle each wait for another one of them.
Deadlocked(r) ==
    \E cycle \in SUBSET Requests :
        /\ r \in cycle
        /\ \A q \in cycle : WaitsFor(q) \cap cycle # {}

\* A bound: primary keys that neither a row nor a pending item needs.
Unused == PropertyIds \ (DOMAIN rows \cup UNION {DOMAIN writes[r] : r \in Requests})
Pending == {r \in Requests : req[r].kind \in Creating}
RoomFor(n) ==
    n + MapThenSumSet(LAMBDA r : Len(req[r].todo), Pending) <= Cardinality(Unused)

\* gen_random_uuid: which of the unused keys it is does not matter.
NewId == CHOOSE id \in Unused : TRUE

-----------------------------------------------------------------------------
(* Creation.                                                               *)

Batches(S) == UNION {[1..n -> S] : n \in 1..MaxBatch}

StartCreate(r, kind, t, places) ==
    /\ req[r].pc = "idle"
    /\ (kind = "create" => Len(places) = 1)
    /\ RoomFor(Len(places))
    /\ req' = [req EXCEPT ![r] = Running(kind, "insert", t, places, None, None)]
    /\ UNCHANGED <<rows, trail, writes>>

\* Report the item at the head of the batch and go on with the next one.
Report(r, result, next) ==
    req' = [req EXCEPT ![r].todo = Tail(@),
                       ![r].results = Append(@, result),
                       ![r].pc = IF Len(req[r].todo) = 1 THEN "commit" ELSE next,
                       ![r].seen = None, ![r].object = None]

\* Mistake: the handler rolls back the transaction instead of the savepoint.
ItemFailsAll(r) ==
    /\ Report(r, Failure, "insert")
    /\ writes' = [writes EXCEPT ![r] = EmptyTable]

\* Mistake: the item is tried again.
ItemRetried(r) == UNCHANGED <<req, writes>>

\* The item's savepoint is rolled back; those of the items before it stay.
ItemFails(r) ==
    /\ Report(r, Failure, "insert")
    /\ UNCHANGED writes

Insert(r) ==
    /\ req[r].pc = "insert" /\ WaitsFor(r) = {} /\ Unused # {}
    /\ LET t == req[r].tenant
           p == Head(req[r].todo)
           new == [tenant |-> t, place |-> p, active |-> TRUE]
           taken == PlaceTaken(r, t, p, None)
       IN  \/ /\ ~taken
              /\ writes' = [writes EXCEPT ![r] = Put(@, NewId, new)]
              /\ Report(r, [ok |-> TRUE, id |-> NewId, after |-> new], "insert")
           \/ taken /\ req[r].kind = "bulkCreate" /\ ItemFails(r)
           \/ taken /\ req[r].kind = "create" /\ Answer(r)
    /\ UNCHANGED <<rows, trail>>

-----------------------------------------------------------------------------
(* Update, activation and deactivation.                                    *)

\* One SELECT, and the assignments to the loaded object.
StartUpdate(r, t, id, place, active) ==
    /\ req[r].pc = "idle"
    /\ IF Owned(r, t, id)
       THEN /\ req' = [req EXCEPT ![r] =
                   Running("update", "write", t, <<id>>, rows[id],
                           [rows[id] EXCEPT !.place = place, !.active = active])]
            /\ UNCHANGED writes
       ELSE Answer(r)
    /\ UNCHANGED <<rows, trail>>

StartSwitch(r, kind, t, ids) ==
    /\ req[r].pc = "idle"
    /\ (kind # "bulkDeactivate" => Len(ids) = 1)
    /\ req' = [req EXCEPT ![r] = Running(kind, "find", t, ids, None, None)]
    /\ UNCHANGED <<rows, trail, writes>>

\* A property that has the wanted state already is left alone.  An unknown one
\* ends a single request with 404 and is reported by a bulk request.
Find(r) ==
    /\ req[r].pc = "find"
    /\ LET id == Head(req[r].todo)
           wanted == req[r].kind = "activate"
           found == Owned(r, req[r].tenant, id)
       IN  \/ ~found /\ req[r].kind # "bulkDeactivate" /\ Answer(r)
           \/ /\ ~found /\ req[r].kind = "bulkDeactivate"
              /\ Report(r, Failure, "find")
              /\ UNCHANGED writes
           \/ /\ found /\ View(r)[id].active = wanted
              /\ Report(r, Unchanged, "find")
              /\ UNCHANGED writes
           \/ /\ found /\ View(r)[id].active # wanted
              /\ req' = [req EXCEPT ![r].seen = View(r)[id],
                                    ![r].object = [View(r)[id] EXCEPT !.active = wanted],
                                    ![r].pc = "write"]
              /\ UNCHANGED writes
    /\ UNCHANGED <<rows, trail>>

\* The UPDATE sets only the columns in which the object differs from what the
\* session loaded.
Changed(column, r) == req[r].object[column] # req[r].seen[column]

Flushed(r, stored) ==
    IF Changed("active", r) THEN [stored EXCEPT !.active = req[r].object.active] ELSE stored

\* Mistake: the snapshot is taken before the refresh.
SnapshotUnrefreshed(r, row) == req[r].object

\* Mistake: the snapshot leaves the place out.
SnapshotWithoutPlace(r, row) == [tenant |-> row.tenant, active |-> row.active]

\* _snapshot after the refresh: the row as it is now stored.
Snapshot(r, row) == row

Written(r, row) ==
    LET id == Head(req[r].todo)
    IN  Report(r, [ok |-> TRUE, id |-> id, after |-> Snapshot(r, row)], "find")

\* The UPDATE takes the row lock.  A new place goes to the index after that.  An
\* UPDATE that changes nothing is not sent, and the row is only read again.
Write(r) ==
    /\ req[r].pc = "write"
    /\ LET id == Head(req[r].todo)
           row == Flushed(r, View(r)[id])
       IN  \/ /\ ~Changed("active", r) /\ ~Changed("place", r)
              /\ Written(r, row)
              /\ UNCHANGED writes
           \/ /\ Changed("active", r) \/ Changed("place", r)
              /\ WaitsFor(r) = {}
              /\ writes' = [writes EXCEPT ![r] = Put(@, id, row)]
              /\ IF Changed("place", r)
                 THEN req' = [req EXCEPT ![r].pc = "index"]
                 ELSE Written(r, row)
    /\ UNCHANGED <<rows, trail>>

Index(r) ==
    /\ req[r].pc = "index" /\ WaitsFor(r) = {}
    /\ LET id == Head(req[r].todo)
           place == req[r].object.place
           row == [writes[r][id] EXCEPT !.place = place]
       IN  \/ PlaceTaken(r, req[r].tenant, place, id) /\ Answer(r)
           \/ /\ ~PlaceTaken(r, req[r].tenant, place, id)
              /\ writes' = [writes EXCEPT ![r] = Put(@, id, row)]
              /\ Written(r, row)
    /\ UNCHANGED <<rows, trail>>

-----------------------------------------------------------------------------
(* The end of a request.                                                   *)

\* log_action for every row the request has created or changed, and the commit.
Reported(r) == {i \in DOMAIN req[r].results : req[r].results[i].id # None}
ReportedIds(r) == {req[r].results[i].id : i \in Reported(r)}
After(r, id) ==
    req[r].results[CHOOSE i \in Reported(r) : req[r].results[i].id = id].after

Commit(r) ==
    /\ req[r].pc = "commit"
    /\ rows' = View(r)
    /\ trail' = [id \in DOMAIN trail \cup ReportedIds(r) |->
                    IF id \in ReportedIds(r) THEN After(r, id) ELSE trail[id]]
    /\ Answer(r)

\* PostgreSQL fails one request of a deadlock.  Only an IntegrityError is a matter
\* of one item: the others are lost too.
DeadlockVictim(r) ==
    /\ Deadlocked(r)
    /\ Answer(r)
    /\ UNCHANGED <<rows, trail>>

\* The process stops, or a statement or the commit fails.
Abort(r) ==
    /\ req[r].pc # "idle"
    /\ Answer(r)
    /\ UNCHANGED <<rows, trail>>

Start(r) ==
    \E t \in Tenants :
        \/ \E kind \in Creating, places \in Batches(Places \cup {None}) :
               StartCreate(r, kind, t, places)
        \/ \E id \in PropertyIds, place \in Places \cup {None}, active \in BOOLEAN :
               StartUpdate(r, t, id, place, active)
        \/ \E kind \in Switching, ids \in Batches(PropertyIds) :
               IsInjective(ids) /\ StartSwitch(r, kind, t, ids)

Step(r) == Insert(r) \/ Find(r) \/ Write(r) \/ Index(r) \/ Commit(r) \/ DeadlockVictim(r)

Next == \E r \in Requests : Start(r) \/ Step(r) \/ Abort(r)

\* PostgreSQL grants a lock to those who wait in turn, and finds every deadlock.
Fairness == \A r \in Requests : SF_vars(Step(r))

Spec == Init /\ [][Next]_vars /\ Fairness

-----------------------------------------------------------------------------
(* Properties.                                                             *)

\* No tenant has two properties with the same place, whatever the single and bulk
\* requests that run at the same time do, and although a bulk request goes on after
\* a duplicate.
UniquePlaces ==
    \A i, j \in DOMAIN rows :
        (i # j /\ rows[i].place # None /\ rows[i].tenant = rows[j].tenant)
            => rows[i].place # rows[j].place

\* What a request reports is what it stores: a commit that writes the audit trail
\* creates and changes no other rows than those reported as successful, stores each
\* of these, and none of the items that were refused.
CommittedAsReported ==
    [][\A r \in Requests :
           (req[r].pc = "commit" /\ trail' # trail /\ req'[r].pc = "idle")
               => /\ ReportedIds(r) \subseteq DOMAIN rows'
                  /\ \A id \in DOMAIN rows' \ ReportedIds(r) :
                         id \in DOMAIN rows /\ rows'[id] = rows[id]
                  /\ (req[r].kind \in Creating) =>
                         Cardinality(DOMAIN rows') - Cardinality(DOMAIN rows)
                           = Cardinality({i \in DOMAIN req[r].results :
                                             req[r].results[i].ok})]_vars

\* Every committed change has an audit row that shows the property as the commit
\* stores it, although the request has loaded it before it waited for the lock.
ChangesAreAudited ==
    [][\A id \in DOMAIN rows' :
           (id \in DOMAIN rows => rows'[id] # rows[id])
               => id \in DOMAIN trail' /\ trail'[id] = rows'[id]]_vars

\* A request of one tenant never changes a property of another one, and no property
\* changes its tenant.
OwnPropertiesOnly ==
    [][\A id \in DOMAIN rows :
           rows'[id] # rows[id]
               => /\ rows'[id].tenant = rows[id].tenant
                  /\ \E r \in Requests : req[r].tenant = rows[id].tenant /\ req[r].pc = "commit"]_vars

\* Every request is answered: bulk requests that wait for each other's rows or
\* places do not wait for ever.
RequestsEnd == \A r \in Requests : req[r].pc # "idle" ~> req[r].pc = "idle"
=============================================================================
