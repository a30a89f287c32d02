------------------------------ MODULE Bindings ------------------------------
(***************************************************************************)
(* The connector catalog (table connectors) and the bindings of connectors *)
(* to properties (table property_connectors).                              *)
(*                                                                         *)
(* The HTTP handlers run in a thread pool and each has its own database    *)
(* session at READ COMMITTED, so two requests interleave between any two   *)
(* SELECTs.  What a request reads is committed data and may be stale when  *)
(* it writes.  A request is a process with a program point pc: the name of *)
(* the statement it executes next, "idle" when it is not running.          *)
(*                                                                         *)
(* Every handler writes once, at its end: the flush, the audit row and the *)
(* commit form one step here.  The row lock that the UPDATE takes is held  *)
(* until the commit, other requests only see committed rows, and nothing   *)
(* read between flush and commit decides anything, so splitting the step   *)
(* would add no behaviour.  The ORM writes only the columns whose value    *)
(* differs from the one it loaded.                                         *)
(***************************************************************************)
EXTENDS Naturals, Tables

CONSTANTS Tenants,      \* tenants.id
          Properties,   \* properties.id
          Connectors,   \* connectors.id
          BindingIds,   \* property_connectors.id, a bound on the rows stored
          Requests,     \* requests in progress at the same time
          OwnerOf,      \* properties.tenant_id, which no handler changes
          None          \* the value of an unused field

ASSUME OwnerAssumption == OwnerOf \in [Properties -> Tenants]

VARIABLES
    catalog,       \* connectors: the committed rows
    bindings,      \* property_connectors: the committed rows
    catalogAudit,  \* after_value of a connector's audit row committed last
    bindingAudit,  \* is_active in the audit row, of a binding's activation,
                   \* deactivation or reactivation, that was committed last
    req            \* the request that each thread executes

vars == <<catalog, bindings, catalogAudit, bindingAudit, req>>

CatalogRow == [active : BOOLEAN, deleted : BOOLEAN]
BindingRow == [prop : Properties, conn : Connectors, active : BOOLEAN]

BindingPcs == {"findConnector", "findExisting", "insertBinding",
               "refreshBinding", "reactivate", "deactivate", "updateBinding"}
CatalogPcs == {"activate", "hide", "edit", "countBindings", "delete", "restore"}
Statuses   == {0, 200, 201, 400, 404, 409, 500}

Request == [pc     : {"idle", "begun"} \cup BindingPcs \cup CatalogPcs,
            tenant : Tenants \cup {None},
            prop   : Properties \cup {None},
            conn   : Connectors \cup {None},
            bid    : BindingIds \cup {None},
            seen   : CatalogRow \cup {None},
            status : Statuses]

Idle(status) == [pc |-> "idle", tenant |-> None, prop |-> None, conn |-> None,
                 bid |-> None, seen |-> None, status |-> status]

Running(pc, t, p, c, b, seen) ==
    [pc |-> pc, tenant |-> t, prop |-> p, conn |-> c,
     bid |-> b, seen |-> seen, status |-> 0]

TypeOK ==
    /\ IsTable(catalog, Connectors, CatalogRow)
    /\ IsTable(bindings, BindingIds, BindingRow)
    /\ IsTable(catalogAudit, Connectors, CatalogRow)
    /\ IsTable(bindingAudit, BindingIds, BOOLEAN)
    /\ req \in [Requests -> Request]

Init ==
    /\ \E seeded \in SUBSET Connectors :
          catalog = [c \in seeded |-> [active |-> TRUE, deleted |-> FALSE]]
    /\ bindings = EmptyTable
    /\ catalogAudit = EmptyTable
    /\ bindingAudit = EmptyTable
    /\ req = [r \in Requests |-> Idle(0)]

Answer(r, status) == req' = [req EXCEPT ![r] = Idle(status)]

\* get_current_user's query: the first of the request's session, it begins the
\* transaction that the handler goes on in.
Begin(r) ==
    /\ req[r].pc = "idle"
    /\ req' = [req EXCEPT ![r] = Running("begun", None, None, None, None, None)]
    /\ UNCHANGED <<catalog, bindings, catalogAudit, bindingAudit>>

Alive(c) == c \in DOMAIN catalog /\ ~catalog[c].deleted
Available(c) == Alive(c) /\ catalog[c].active

-----------------------------------------------------------------------------
(* Bindings: the tenant routes and, with a borrowed context, the admin ones. *)

\* filter_by_tenant: a property of another tenant is answered as missing.
Owned(t, p) == OwnerOf[p] = t

AdminContextForProperty(p) == OwnerOf[p]
AdminContextForBinding(b) == OwnerOf[bindings[b].prop]

ReadOwnedProperty(r, t, p, c) ==
    /\ req[r].pc = "begun"
    /\ IF Owned(t, p)
       THEN req' = [req EXCEPT ![r] = Running("findConnector", t, p, c, None, None)]
       ELSE Answer(r, 404)
    /\ UNCHANGED <<catalog, bindings, catalogAudit, bindingAudit>>

\* activate_connector, first half: the connector must be alive and active.
ReadConnector(r) ==
    /\ req[r].pc = "findConnector"
    /\ LET c == req[r].conn
       IN  \/ ~Alive(c) /\ Answer(r, 404)
           \/ Alive(c) /\ ~catalog[c].active /\ Answer(r, 400)
           \/ /\ Available(c)
              /\ req' = [req EXCEPT ![r].pc = "findExisting"]
    /\ UNCHANGED <<catalog, bindings, catalogAudit, bindingAudit>>

RowsOf(p, c) == {b \in DOMAIN bindings : bindings[b].prop = p /\ bindings[b].conn = c}

\* activate_connector, second half: is there a row for the pair already?
ReadExisting(r) ==
    /\ req[r].pc = "findExisting"
    /\ LET rows == RowsOf(req[r].prop, req[r].conn)
       IN  \/ rows = {} /\ req' = [req EXCEPT ![r].pc = "insertBinding"]
           \/ \E b \in rows :
                 IF bindings[b].active
                 THEN Answer(r, 409)
                 ELSE req' = [req EXCEPT ![r] =
                          Running("refreshBinding", req[r].tenant, req[r].prop,
                                  req[r].conn, b, None)]
    /\ UNCHANGED <<catalog, bindings, catalogAudit, bindingAudit>>

\* Mistake: migration 009's constraint is missing.
BindingUniqueUnconstrained(p, c) == TRUE

\* uq_property_connectors_property_connector
BindingUnique(p, c) == RowsOf(p, c) = {}

\* INSERT, audit and commit, or the unique constraint turns it into a 500.
InsertBinding(r) ==
    /\ req[r].pc = "insertBinding"
    /\ LET p == req[r].prop
           c == req[r].conn
       IN  IF BindingUnique(p, c)
           THEN \E b \in BindingIds \ DOMAIN bindings :
                   /\ bindings' = Put(bindings, b,
                          [prop |-> p, conn |-> c, active |-> TRUE])
                   /\ bindingAudit' = Put(bindingAudit, b, TRUE)
                   /\ Answer(r, 201)
           ELSE /\ Answer(r, 500)
                /\ UNCHANGED <<bindings, bindingAudit>>
    /\ UNCHANGED <<catalog, catalogAudit>>

\* Mistake: the audited snapshot is the one taken before the assignment.
WriteBindingActiveBefore(r, active) ==
    /\ bindings' = [bindings EXCEPT ![req[r].bid].active = active]
    /\ bindingAudit' = Put(bindingAudit, req[r].bid, bindings[req[r].bid].active)

\* UPDATE of the loaded row.  The handler refreshes the row before it takes the
\* snapshot it audits, so after_value is the row as it is stored now.
WriteBindingActive(r, active) ==
    /\ bindings' = [bindings EXCEPT ![req[r].bid].active = active]
    /\ bindingAudit' = Put(bindingAudit, req[r].bid, active)

RefreshBinding(r) ==
    /\ req[r].pc = "refreshBinding"
    /\ WriteBindingActive(r, TRUE)
    /\ Answer(r, 201)
    /\ UNCHANGED <<catalog, catalogAudit>>

\* Mistake: the binding is looked up by its id alone.
OwnedBindingAnyProperty(t, p, b) == Owned(t, p) /\ b \in DOMAIN bindings

\* _get_owned_property_connector: the binding must be of the property in the
\* path and that property the caller's.
OwnedBinding(t, p, b) ==
    /\ Owned(t, p)
    /\ b \in DOMAIN bindings
    /\ bindings[b].prop = p

\* One SELECT reads the binding and, by an outer join, its connector.
LoadBinding(r, t, p, b, pc) ==
    req' = [req EXCEPT ![r] = Running(pc, t, p, bindings[b].conn, b, None)]

StartUpdateBinding(r, t, p, b) ==
    /\ req[r].pc = "begun"
    /\ \/ ~OwnedBinding(t, p, b) /\ Answer(r, 404)
       \/ OwnedBinding(t, p, b) /\ Answer(r, 400)
       \/ OwnedBinding(t, p, b) /\ LoadBinding(r, t, p, b, "updateBinding")
    /\ UNCHANGED <<catalog, bindings, catalogAudit, bindingAudit>>

StartDeactivate(r, t, p, b) ==
    /\ req[r].pc = "begun"
    /\ \/ ~OwnedBinding(t, p, b) /\ Answer(r, 404)
       \/ OwnedBinding(t, p, b) /\ ~bindings[b].active /\ Answer(r, 200)
       \/ /\ OwnedBinding(t, p, b) /\ bindings[b].active
          /\ LoadBinding(r, t, p, b, "deactivate")
    /\ UNCHANGED <<catalog, bindings, catalogAudit, bindingAudit>>

StartReactivate(r, t, p, b) ==
    /\ req[r].pc = "begun"
    /\ \/ ~OwnedBinding(t, p, b) /\ Answer(r, 404)
       \/ OwnedBinding(t, p, b) /\ bindings[b].active /\ Answer(r, 200)
       \/ /\ OwnedBinding(t, p, b) /\ ~bindings[b].active
          /\ IF Available(bindings[b].conn)
             THEN LoadBinding(r, t, p, b, "reactivate")
             ELSE Answer(r, 400)
    /\ UNCHANGED <<catalog, bindings, catalogAudit, bindingAudit>>

WriteToggle(r) ==
    /\ \/ req[r].pc = "reactivate" /\ WriteBindingActive(r, TRUE)
       \/ req[r].pc = "deactivate" /\ WriteBindingActive(r, FALSE)
    /\ Answer(r, 200)
    /\ UNCHANGED <<catalog, catalogAudit>>

\* The payload's columns are credentials and settings, never is_active.  The
\* audit row of an update is not modelled: when the payload changes no column the
\* handler takes no row lock, and its snapshot of is_active may be outdated.
WriteUpdate(r) ==
    /\ req[r].pc = "updateBinding"
    /\ Answer(r, 200)
    /\ UNCHANGED <<catalog, bindings, catalogAudit, bindingAudit>>

\* A tenant names the property and the binding.
TenantBindingRequest(r) ==
    \E t \in Tenants, p \in Properties :
        \/ \E c \in Connectors : ReadOwnedProperty(r, t, p, c)
        \/ \E b \in BindingIds : \/ StartUpdateBinding(r, t, p, b)
                                 \/ StartDeactivate(r, t, p, b)
                                 \/ StartReactivate(r, t, p, b)

\* An admin names one of them and acts in the context of the tenant that owns it.
AdminBindingRequest(r) ==
    \/ \E p \in Properties, c \in Connectors :
          ReadOwnedProperty(r, AdminContextForProperty(p), p, c)
    \/ \E b \in DOMAIN bindings :
          LET t == AdminContextForBinding(b)
              p == bindings[b].prop
          IN  \/ StartUpdateBinding(r, t, p, b)
              \/ StartDeactivate(r, t, p, b)
              \/ StartReactivate(r, t, p, b)

BindingRequest(r) == TenantBindingRequest(r) \/ AdminBindingRequest(r)

-----------------------------------------------------------------------------
(* The catalog: admin routes.                                              *)

\* Mistake: is_active has no default.
CreateConnectorNoDefault(r, c) ==
    /\ req[r].pc = "begun"
    /\ c \notin DOMAIN catalog
    /\ catalog' = Put(catalog, c, [active |-> None, deleted |-> FALSE])
    /\ Answer(r, 201)
    /\ UNCHANGED <<catalogAudit, bindings, bindingAudit>>

\* The name check and the logo are left out: they are in ConnectorLogos.
CreateConnector(r, c) ==
    /\ req[r].pc = "begun"
    /\ c \notin DOMAIN catalog
    /\ LET row == [active |-> TRUE, deleted |-> FALSE]
       IN  /\ catalog' = Put(catalog, c, row)
           /\ catalogAudit' = Put(catalogAudit, c, row)
    /\ Answer(r, 201)
    /\ UNCHANGED <<bindings, bindingAudit>>

LoadConnector(r, c, pc) ==
    req' = [req EXCEPT ![r] = Running(pc, None, None, c, None, catalog[c])]

\* Mistake: the handler loads the row with the lookup that restore uses.
StartSetConnectorDeleted(r, c) ==
    /\ req[r].pc = "begun"
    /\ c \in DOMAIN catalog
    /\ LoadConnector(r, c, IF catalog[c].active THEN "hide" ELSE "activate")
    /\ UNCHANGED <<catalog, bindings, catalogAudit, bindingAudit>>

\* PUT may leave is_active alone or set it; POST activate and deactivate set it
\* and answer at once when it has that value already.
StartSetConnector(r, c) ==
    /\ req[r].pc = "begun"
    /\ \/ ~Alive(c) /\ Answer(r, 404)
       \/ Alive(c) /\ Answer(r, 200)
       \/ Alive(c) /\ LoadConnector(r, c, "edit")
       \/ /\ Alive(c)
          /\ LoadConnector(r, c, IF catalog[c].active THEN "hide" ELSE "activate")
    /\ UNCHANGED <<catalog, bindings, catalogAudit, bindingAudit>>

StartDelete(r, c) ==
    /\ req[r].pc = "begun"
    /\ IF Alive(c) THEN LoadConnector(r, c, "countBindings") ELSE Answer(r, 404)
    /\ UNCHANGED <<catalog, bindings, catalogAudit, bindingAudit>>

RowsOn(c) == {b \in DOMAIN bindings : bindings[b].conn = c}

\* Mistake: delete goes ahead whatever is attached.
CountBindingsIgnored(r) ==
    /\ req[r].pc = "countBindings"
    /\ req' = [req EXCEPT ![r].pc = "delete"]
    /\ UNCHANGED <<catalog, bindings, catalogAudit, bindingAudit>>

\* soft_delete_connector counts the rows, active or not.
CountBindings(r) ==
    /\ req[r].pc = "countBindings"
    /\ IF RowsOn(req[r].conn) = {}
       THEN req' = [req EXCEPT ![r].pc = "delete"]
       ELSE Answer(r, 409)
    /\ UNCHANGED <<catalog, bindings, catalogAudit, bindingAudit>>

\* 409 when the row is not deleted, or its name or logo was taken meanwhile.
StartRestore(r, c) ==
    /\ req[r].pc = "begun"
    /\ \/ c \notin DOMAIN catalog /\ Answer(r, 404)
       \/ c \in DOMAIN catalog /\ Answer(r, 409)
       \/ /\ c \in DOMAIN catalog /\ catalog[c].deleted
          /\ LoadConnector(r, c, "restore")
    /\ UNCHANGED <<catalog, bindings, catalogAudit, bindingAudit>>

\* What the handler assigns to the loaded object.
Assign(pc, row) ==
    CASE pc = "activate" -> [row EXCEPT !.active = TRUE]
      [] pc = "hide"     -> [row EXCEPT !.active = FALSE]
      [] pc = "edit"     -> row
      [] pc = "delete"   -> [active |-> FALSE, deleted |-> TRUE]
      [] pc = "restore"  -> [row EXCEPT !.deleted = FALSE]

\* The UPDATE sets only the columns in which the object differs from what the
\* session loaded.
Flush(stored, loaded, object) ==
    [active  |-> IF object.active = loaded.active
                 THEN stored.active ELSE object.active,
     deleted |-> IF object.deleted = loaded.deleted
                 THEN stored.deleted ELSE object.deleted]

\* Mistake: the snapshot is taken before the service call.
WriteConnectorEarlySnapshot(r) ==
    /\ req[r].pc \in {"activate", "hide", "edit", "delete", "restore"}
    /\ LET c == req[r].conn
           object == Assign(req[r].pc, req[r].seen)
       IN  /\ catalog' = [catalog EXCEPT ![c] = Flush(catalog[c], req[r].seen, object)]
           /\ catalogAudit' = Put(catalogAudit, c, req[r].seen)
    /\ Answer(r, 200)
    /\ UNCHANGED <<bindings, bindingAudit>>

\* Here the audited snapshot is the session's object, not a fresh read.
WriteConnector(r) ==
    /\ req[r].pc \in {"activate", "hide", "edit", "delete", "restore"}
    /\ LET c == req[r].conn
           object == Assign(req[r].pc, req[r].seen)
       IN  /\ catalog' = [catalog EXCEPT ![c] = Flush(catalog[c], req[r].seen, object)]
           /\ catalogAudit' = Put(catalogAudit, c, object)
    /\ Answer(r, 200)
    /\ UNCHANGED <<bindings, bindingAudit>>

\* The connection drops, the process dies or the database refuses the commit:
\* the transaction is rolled back.
Abort(r) ==
    /\ req[r].pc # "idle"
    /\ Answer(r, 500)
    /\ UNCHANGED <<catalog, bindings, catalogAudit, bindingAudit>>

CatalogRequest(r) ==
    \E c \in Connectors : \/ CreateConnector(r, c)
                          \/ StartSetConnector(r, c)
                          \/ StartDelete(r, c)
                          \/ StartRestore(r, c)

Step(r) ==
    \/ Begin(r)
    \/ BindingRequest(r)
    \/ CatalogRequest(r)
    \/ ReadConnector(r)
    \/ ReadExisting(r)
    \/ InsertBinding(r)
    \/ RefreshBinding(r)
    \/ WriteToggle(r)
    \/ WriteUpdate(r)
    \/ CountBindings(r)
    \/ WriteConnector(r)
    \/ Abort(r)

Next == \E r \in Requests : Step(r)

Spec == Init /\ [][Next]_vars

-----------------------------------------------------------------------------
(* Properties that hold for every number of concurrent requests.           *)

\* A property has at most one binding per connector, also when two activations
\* pass activate_connector's existence check together.
OneBindingPerPair ==
    \A a, b \in DOMAIN bindings :
        bindings[a].prop = bindings[b].prop /\ bindings[a].conn = bindings[b].conn
            => a = b

\* The audit row of a binding that was committed last tells whether the binding is
\* active now.  The proofs use it; what the trail shows in the order in which it is
\* listed is ListedAuditShowsBinding of SerialBindings.
AuditShowsBinding ==
    /\ DOMAIN bindingAudit = DOMAIN bindings
    /\ \A b \in DOMAIN bindings : bindingAudit[b] = bindings[b].active

\* A handler that changes or adds a binding acts for the tenant that owns the
\* binding's property, from its first read to its commit.
TenantIsolation ==
    [][\A b \in BindingIds :
          LET changed == IF b \in DOMAIN bindings THEN bindings'[b] # bindings[b]
                         ELSE b \in DOMAIN bindings'
          IN  changed => \E r \in Requests :
                  /\ req[r].pc # "idle" /\ req'[r].pc = "idle"
                  /\ req[r].tenant = OwnerOf[bindings'[b].prop]]_vars

(* The registry that the bindings implement.                               *)

Pairs == Properties \X Connectors

\* What a table of which the rows in on are set says of a pair.
Shown(pair, on) ==
    LET rows == RowsOf(pair[1], pair[2])
    IN  CASE rows = {} -> "absent"
          [] \E b \in rows : rows = {b} /\ b \in on -> "on"
          [] \E b \in rows : rows = {b} /\ b \notin on -> "off"
          [] OTHER -> "twice"

ActiveRows  == {b \in DOMAIN bindings : bindings[b].active}
AuditedRows == {b \in DOMAIN bindingAudit : bindingAudit[b]}

Registry == INSTANCE BindingRegistry WITH
                status <- [pair \in Pairs |-> Shown(pair, ActiveRows)],
                trail  <- [pair \in Pairs |-> Shown(pair, AuditedRows)]

\* Seen from outside, concurrent activations, deactivations and reactivations of rows
\* are switches of one binding per pair, each with its audit row, one at a time, in
\* the order of the commits.
ImplementsRegistry == Registry!Spec

(* Properties of requests that do not overlap, and what the documentation   *)
(* promises of all requests.                                               *)

\* soft_delete_connector refuses while the connector is attached, "so we never
\* orphan property_connectors rows": no binding is active on a deleted connector.
DeletedHasNoActiveBinding ==
    \A b \in DOMAIN bindings :
        bindings[b].active => ~catalog[bindings[b].conn].deleted

\* Migration 008: while is_deleted is true, is_active is forced false.
DeletedIsInactive ==
    \A c \in DOMAIN catalog : catalog[c].deleted => ~catalog[c].active

\* The audit row of a connector that was committed last shows the row as it is stored.
AuditShowsConnector ==
    \A c \in DOMAIN catalogAudit : catalogAudit[c] = catalog[c]

\* Deletion is refused with 409 only when a property currently has the connector
\* attached, that is, bound and not detached again.
DeleteRefusedOnlyWhileAttached ==
    [][\A r \in Requests :
          req[r].pc = "countBindings" /\ req'[r].status = 409
              => \E b \in RowsOn(req[r].conn) : bindings[b].active]_vars

=============================================================================
