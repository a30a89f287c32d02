--------------------------- MODULE BindingsProofs ---------------------------
(***************************************************************************)
(* Proofs about Bindings for every number of tenants, properties,          *)
(* connectors, bindings and concurrent requests.                           *)
(***************************************************************************)
EXTENDS SerialBindings, TableLemmas

LoadedPcs == {"refreshBinding", "reactivate", "deactivate", "updateBinding"}

\* What a request's program point says of its record: the property it acts on
\* is its tenant's, and the row it loaded is still stored.
Consistent(q) ==
    /\ q \in Request
    /\ q.pc \in BindingPcs =>
          q.prop \in Properties /\ q.conn \in Connectors /\ q.tenant = OwnerOf[q.prop]
    /\ q.pc \in LoadedPcs =>
          /\ q.bid \in DOMAIN bindings /\ q.bid \in BindingIds
          /\ bindings[q.bid].prop = q.prop
    /\ q.pc \in CatalogPcs =>
          q.conn \in DOMAIN catalog /\ q.conn \in Connectors /\ q.seen \in CatalogRow

TablesTyped ==
    /\ IsTable(catalog, Connectors, CatalogRow)
    /\ IsTable(bindings, BindingIds, BindingRow)
    /\ IsTable(catalogAudit, Connectors, CatalogRow)
    /\ IsTable(bindingAudit, BindingIds, BOOLEAN)

\* The inductive invariant.
IInv ==
    /\ TablesTyped
    /\ req \in [Requests -> Request]
    /\ \A r \in Requests : Consistent(req[r])
    /\ OneBindingPerPair
    /\ AuditShowsBinding

-----------------------------------------------------------------------------
(* Type correctness and the invariants.                                    *)

\* The invariant at the start: there are no rows and all requests are idle.
LEMMA InitEstablishes == Init => IInv
<1> SUFFICES ASSUME Init PROVE IInv
  OBVIOUS
<1>1. TablesTyped
  <2>1. PICK seeded \in SUBSET Connectors :
           catalog = [c \in seeded |-> [active |-> TRUE, deleted |-> FALSE]]
    BY DEF Init
  <2>2. IsTable(catalog, Connectors, CatalogRow)
    BY <2>1 DEF CatalogRow, IsTable
  <2>3. /\ IsTable(bindings, BindingIds, BindingRow)
        /\ IsTable(catalogAudit, Connectors, CatalogRow)
        /\ IsTable(bindingAudit, BindingIds, BOOLEAN)
    BY DEF Init, EmptyTable, IsTable
  <2> QED BY <2>2, <2>3 DEF TablesTyped
<1>2. \A r \in Requests : req[r] = Idle(0) /\ Consistent(req[r])
  BY DEF Init, Idle, Consistent, Request, Statuses, BindingPcs, LoadedPcs, CatalogPcs
<1>3. req \in [Requests -> Request]
  BY <1>2 DEF Init, Consistent
<1>4. OneBindingPerPair /\ AuditShowsBinding
  BY DEF Init, EmptyTable, OneBindingPerPair, AuditShowsBinding
<1> QED BY <1>1, <1>2, <1>3, <1>4 DEF IInv

\* An answered request is idle, whatever the tables hold.
LEMMA IdleConsistent ==
    ASSUME NEW s \in Statuses
    PROVE  Consistent(Idle(s)) /\ Idle(s).pc = "idle"
BY DEF Idle, Consistent, Request, BindingPcs, LoadedPcs, CatalogPcs

\* A step in which one request only reads: the tables do not change, and the
\* request's new record has to be consistent with them.
LEMMA ReadStep ==
    ASSUME IInv, NEW r \in Requests, NEW q, Consistent(q),
           req' = [req EXCEPT ![r] = q],
           UNCHANGED <<catalog, bindings, catalogAudit, bindingAudit>>
    PROVE  IInv'
<1>1. \A s \in Requests : Consistent(req'[s])
  BY DEF IInv
<1>2. req' \in [Requests -> Request]
  BY DEF IInv, Consistent
<1>3. \A s \in Requests : Consistent(req[s])'
  BY <1>1 DEF Consistent
<1> QED BY <1>2, <1>3 DEF IInv, TablesTyped, OneBindingPerPair, AuditShowsBinding

\* A step in which one request writes, audits and is answered.
LEMMA WriteStep ==
    ASSUME IInv, NEW r \in Requests, NEW s \in Statuses, Answer(r, s), TablesTyped',
           DOMAIN catalog \subseteq DOMAIN catalog',
           DOMAIN bindings \subseteq DOMAIN bindings',
           \A b \in DOMAIN bindings : bindings'[b].prop = bindings[b].prop,
           OneBindingPerPair', AuditShowsBinding'
    PROVE  IInv'
<1>1. \A x \in Requests : Consistent(req'[x])
  BY IdleConsistent DEF IInv, Answer
<1>2. \A x \in Requests : Consistent(req[x])'
  <2> SUFFICES ASSUME NEW x \in Requests PROVE Consistent(req[x])'
    OBVIOUS
  <2>1. CASE x = r
    <3>1. req'[x] = Idle(s)
      BY <2>1 DEF Answer, IInv
    <3> QED BY <3>1 DEF Consistent, Idle, Request, BindingPcs, LoadedPcs, CatalogPcs
  <2>2. CASE x # r
    <3>1. req'[x] = req[x] /\ Consistent(req[x])
      BY <2>2 DEF Answer, IInv
    <3> QED BY <3>1 DEF Consistent
  <2> QED BY <2>1, <2>2
<1>3. req' \in [Requests -> Request]
  BY <1>1 DEF Answer, IInv, Consistent
<1> QED BY <1>2, <1>3 DEF IInv

\* The writes of the binding handlers keep the tables typed, the pair unique and
\* the audit in step with the row.
LEMMA WriteActive ==
    ASSUME IInv, NEW r \in Requests, req[r].pc \in LoadedPcs,
           NEW active \in BOOLEAN, NEW s \in Statuses, Answer(r, s),
           WriteBindingActive(r, active), UNCHANGED <<catalog, catalogAudit>>
    PROVE  IInv'
<1> DEFINE b == req[r].bid
           row == [bindings[b] EXCEPT !.active = active]
<1>1. b \in DOMAIN bindings /\ b \in BindingIds
  BY DEF IInv, Consistent
<1>2. bindings[b] \in BindingRow
  BY <1>1 DEF IInv, TablesTyped, IsTable
<1>3. row \in BindingRow /\ row.active = active
      /\ row.prop = bindings[b].prop /\ row.conn = bindings[b].conn
  BY <1>2 DEF BindingRow
<1>4. bindings' = [bindings EXCEPT ![b] = row]
  BY DEF WriteBindingActive
<1>5. bindingAudit' = Put(bindingAudit, b, active)
  BY DEF WriteBindingActive
<1> HIDE DEF b, row
<1>6. /\ IsTable(bindings', BindingIds, BindingRow)
      /\ DOMAIN bindings' = DOMAIN bindings
      /\ bindings'[b] = row
      /\ \A x \in DOMAIN bindings : x # b => bindings'[x] = bindings[x]
  BY <1>1, <1>3, <1>4 DEF IInv, TablesTyped, IsTable
<1>7. /\ IsTable(bindingAudit', BindingIds, BOOLEAN)
      /\ DOMAIN bindingAudit' = DOMAIN bindingAudit \cup {b}
      /\ bindingAudit'[b] = active
      /\ \A x \in DOMAIN bindingAudit : x # b => bindingAudit'[x] = bindingAudit[x]
  BY <1>1, <1>5 DEF IInv, TablesTyped, IsTable, Put
<1>8. TablesTyped'
  BY <1>6, <1>7 DEF IInv, TablesTyped
<1>9. \A x \in DOMAIN bindings : /\ bindings'[x].prop = bindings[x].prop
                                 /\ bindings'[x].conn = bindings[x].conn
  BY <1>3, <1>6
<1>10. OneBindingPerPair'
  BY <1>6, <1>9 DEF IInv, OneBindingPerPair
<1>11. AuditShowsBinding'
  BY <1>1, <1>3, <1>6, <1>7 DEF IInv, AuditShowsBinding
<1> QED BY <1>6, <1>8, <1>9, <1>10, <1>11, WriteStep

\* An INSERT that the unique constraint lets through adds the pair's first row.
LEMMA InsertKeeps ==
    ASSUME IInv, NEW r \in Requests, InsertBinding(r)
    PROVE  IInv'
<1> DEFINE p == req[r].prop
           c == req[r].conn
           row == [prop |-> p, conn |-> c, active |-> TRUE]
<1>1. req[r].pc = "insertBinding" /\ p \in Properties /\ c \in Connectors
  BY DEF IInv, Consistent, InsertBinding, BindingPcs
<1>2. CASE ~BindingUnique(p, c)
  <2>1. Answer(r, 500) /\ UNCHANGED <<catalog, bindings, catalogAudit, bindingAudit>>
    BY <1>2 DEF InsertBinding
  <2>2. TablesTyped' /\ OneBindingPerPair' /\ AuditShowsBinding'
    BY <2>1 DEF IInv, TablesTyped, OneBindingPerPair, AuditShowsBinding
  <2>3. 500 \in Statuses
    BY DEF Statuses
  <2> QED BY <2>1, <2>2, <2>3, WriteStep
<1>3. CASE BindingUnique(p, c)
  <2>1. PICK b \in BindingIds \ DOMAIN bindings :
           /\ bindings' = Put(bindings, b, row)
           /\ bindingAudit' = Put(bindingAudit, b, TRUE)
           /\ Answer(r, 201)
           /\ UNCHANGED <<catalog, catalogAudit>>
    BY <1>3 DEF InsertBinding
  <2>2. row \in BindingRow /\ row.prop = p /\ row.conn = c /\ row.active = TRUE
    BY <1>1 DEF BindingRow
  <2>3. \A x \in DOMAIN bindings : ~(bindings[x].prop = p /\ bindings[x].conn = c)
    BY <1>3 DEF BindingUnique, RowsOf
  <2> HIDE DEF p, c, row
  <2>4. /\ IsTable(bindings', BindingIds, BindingRow)
        /\ DOMAIN bindings' = DOMAIN bindings \cup {b}
        /\ bindings'[b] = row
        /\ \A x \in DOMAIN bindings : x # b => bindings'[x] = bindings[x]
    BY <2>1, <2>2 DEF IInv, TablesTyped, IsTable, Put
  <2>5. /\ IsTable(bindingAudit', BindingIds, BOOLEAN)
        /\ DOMAIN bindingAudit' = DOMAIN bindingAudit \cup {b}
        /\ bindingAudit'[b] = TRUE
        /\ \A x \in DOMAIN bindingAudit : x # b => bindingAudit'[x] = bindingAudit[x]
    BY <2>1 DEF IInv, TablesTyped, IsTable, Put
  <2>6. TablesTyped'
    BY <2>1, <2>4, <2>5 DEF IInv, TablesTyped
  <2>7. \A x \in DOMAIN bindings : bindings'[x] = bindings[x]
    BY <2>1, <2>4
  <2>8. OneBindingPerPair'
    BY <2>2, <2>3, <2>4, <2>7 DEF IInv, OneBindingPerPair
  <2>9. AuditShowsBinding'
    BY <2>1, <2>2, <2>4, <2>5, <2>7 DEF IInv, AuditShowsBinding
  <2>10. 201 \in Statuses
    BY DEF Statuses
  <2> QED BY <2>1, <2>4, <2>6, <2>7, <2>8, <2>9, <2>10, WriteStep
<1> QED BY <1>2, <1>3

\* The catalog handlers touch no binding and keep the catalog's tables typed.
LEMMA CatalogWriteKeeps ==
    ASSUME IInv, NEW r \in Requests, NEW s \in Statuses, Answer(r, s),
           NEW c \in Connectors, NEW row \in CatalogRow, NEW audited \in CatalogRow,
           catalog' = Put(catalog, c, row),
           catalogAudit' = Put(catalogAudit, c, audited),
           UNCHANGED <<bindings, bindingAudit>>
    PROVE  IInv'
<1>1. /\ IsTable(catalog', Connectors, CatalogRow)
      /\ DOMAIN catalog \subseteq DOMAIN catalog'
  BY DEF IInv, TablesTyped, IsTable, Put
<1>2. IsTable(catalogAudit', Connectors, CatalogRow)
  BY DEF IInv, TablesTyped, IsTable, Put
<1>3. TablesTyped' /\ OneBindingPerPair' /\ AuditShowsBinding'
  BY <1>1, <1>2 DEF IInv, TablesTyped, OneBindingPerPair, AuditShowsBinding
<1> QED BY <1>1, <1>3, WriteStep

\* Every action of a request preserves the invariant.
LEMMA StepPreserves ==
    ASSUME IInv, NEW r \in Requests, Step(r)
    PROVE  IInv'
<1> USE DEF BindingPcs, CatalogPcs, LoadedPcs
<1>0. /\ Consistent(req[r]) /\ req[r] \in Request
      /\ {0, 200, 201, 400, 404, 409, 500} \subseteq Statuses
  BY DEF IInv, Statuses
<1>a. ASSUME NEW s \in Statuses, Answer(r, s),
             UNCHANGED <<catalog, bindings, catalogAudit, bindingAudit>>
      PROVE  IInv'
  <2>1. req' = [req EXCEPT ![r] = Idle(s)] /\ Consistent(Idle(s))
    BY <1>a, IdleConsistent DEF Answer
  <2> QED BY <2>1, <1>a, ReadStep
<1>b. ASSUME NEW t \in Tenants, NEW p \in Properties, NEW b \in BindingIds,
             NEW pc \in {"updateBinding", "deactivate", "reactivate"},
             OwnedBinding(t, p, b), LoadBinding(r, t, p, b, pc),
             UNCHANGED <<catalog, bindings, catalogAudit, bindingAudit>>
      PROVE  IInv'
  <2> DEFINE q == Running(pc, t, p, bindings[b].conn, b, None)
  <2>1. bindings[b] \in BindingRow /\ bindings[b].prop = p /\ OwnerOf[p] = t
        /\ b \in DOMAIN bindings
    BY <1>b DEF IInv, TablesTyped, IsTable, OwnedBinding, Owned
  <2>2. bindings[b].conn \in Connectors
    BY <2>1 DEF BindingRow
  <2>3. Consistent(q)
    BY <1>0, <2>1, <2>2 DEF Consistent, Request, Running
  <2>4. req' = [req EXCEPT ![r] = q]
    BY <1>b DEF LoadBinding
  <2> QED BY <1>b, <2>3, <2>4, ReadStep
<1>c. ASSUME NEW c \in Connectors, c \in DOMAIN catalog, NEW pc \in CatalogPcs,
             LoadConnector(r, c, pc),
             UNCHANGED <<catalog, bindings, catalogAudit, bindingAudit>>
      PROVE  IInv'
  <2> DEFINE q == Running(pc, None, None, c, None, catalog[c])
  <2>1. catalog[c] \in CatalogRow
    BY <1>c DEF IInv, TablesTyped, IsTable
  <2>2. Consistent(q)
    BY <1>0, <1>c, <2>1 DEF Consistent, Request, Running
  <2>3. req' = [req EXCEPT ![r] = q]
    BY <1>c DEF LoadConnector
  <2> QED BY <1>c, <2>2, <2>3, ReadStep
<1>1. ASSUME NEW t \in Tenants, NEW p \in Properties, NEW c \in Connectors,
             ReadOwnedProperty(r, t, p, c)
      PROVE  IInv'
  <2>1. CASE Owned(t, p)
    <3> DEFINE q == Running("findConnector", t, p, c, None, None)
    <3>1. Consistent(q)
      BY <1>0, <2>1 DEF Consistent, Request, Running, Owned
    <3>2. /\ req' = [req EXCEPT ![r] = q]
          /\ UNCHANGED <<catalog, bindings, catalogAudit, bindingAudit>>
      BY <1>1, <2>1 DEF ReadOwnedProperty
    <3> QED BY <3>1, <3>2, ReadStep
  <2>2. CASE ~Owned(t, p)
    <3>1. Answer(r, 404) /\ UNCHANGED <<catalog, bindings, catalogAudit, bindingAudit>>
      BY <1>1, <2>2 DEF ReadOwnedProperty
    <3> QED BY <1>0, <1>a, <3>1
  <2> QED BY <2>1, <2>2
<1>2. ASSUME NEW t \in Tenants, NEW p \in Properties, NEW b \in BindingIds,
             \/ StartUpdateBinding(r, t, p, b)
             \/ StartDeactivate(r, t, p, b)
             \/ StartReactivate(r, t, p, b)
      PROVE  IInv'
  <2>1. UNCHANGED <<catalog, bindings, catalogAudit, bindingAudit>>
    BY <1>2 DEF StartUpdateBinding, StartDeactivate, StartReactivate
  <2>2. \/ \E s \in {200, 400, 404} : Answer(r, s)
        \/ /\ OwnedBinding(t, p, b)
           /\ \E pc \in {"updateBinding", "deactivate", "reactivate"} :
                 LoadBinding(r, t, p, b, pc)
    BY <1>2 DEF StartUpdateBinding, StartDeactivate, StartReactivate
  <2>3. CASE \E s \in {200, 400, 404} : Answer(r, s)
    BY <1>0, <1>a, <2>1, <2>3
  <2>4. CASE /\ OwnedBinding(t, p, b)
             /\ \E pc \in {"updateBinding", "deactivate", "reactivate"} :
                   LoadBinding(r, t, p, b, pc)
    BY <1>b, <2>1, <2>4
  <2> QED BY <2>2, <2>3, <2>4
<1>3. CASE BindingRequest(r)
  <2>1. ASSUME NEW p \in Properties
        PROVE  AdminContextForProperty(p) \in Tenants
    BY OwnerAssumption DEF AdminContextForProperty
  <2>2. ASSUME NEW b \in DOMAIN bindings
        PROVE  /\ b \in BindingIds /\ bindings[b].prop \in Properties
               /\ AdminContextForBinding(b) \in Tenants
    <3>1. b \in BindingIds /\ bindings[b] \in BindingRow
      BY DEF IInv, TablesTyped, IsTable
    <3>2. bindings[b].prop \in Properties
      BY <3>1 DEF BindingRow
    <3> QED BY <3>1, <3>2, OwnerAssumption DEF AdminContextForBinding
  <2> QED BY <1>1, <1>2, <1>3, <2>1, <2>2 DEF BindingRequest, TenantBindingRequest, AdminBindingRequest
<1>4. ASSUME NEW c \in Connectors, CreateConnector(r, c)
      PROVE  IInv'
  <2>1. [active |-> TRUE, deleted |-> FALSE] \in CatalogRow
    BY DEF CatalogRow
  <2> QED BY <1>0, <1>4, <2>1, CatalogWriteKeeps DEF CreateConnector
<1>5. ASSUME NEW c \in Connectors,
             StartSetConnector(r, c) \/ StartDelete(r, c) \/ StartRestore(r, c)
      PROVE  IInv'
  <2>1. UNCHANGED <<catalog, bindings, catalogAudit, bindingAudit>>
    BY <1>5 DEF StartSetConnector, StartDelete, StartRestore
  <2>2. \/ \E s \in {200, 404, 409} : Answer(r, s)
        \/ c \in DOMAIN catalog /\ \E pc \in CatalogPcs : LoadConnector(r, c, pc)
    BY <1>5 DEF StartSetConnector, StartDelete, StartRestore, Alive
  <2> QED BY <1>0, <1>a, <1>c, <2>1, <2>2
<1>6. CASE CatalogRequest(r)
  BY <1>4, <1>5, <1>6 DEF CatalogRequest
<1>7. CASE ReadConnector(r)
  <2>1. CASE \E s \in {400, 404} : Answer(r, s)
    BY <1>0, <1>7, <1>a, <2>1 DEF ReadConnector
  <2>2. CASE req' = [req EXCEPT ![r].pc = "findExisting"]
    <3> DEFINE q == [req[r] EXCEPT !.pc = "findExisting"]
    <3>1. Consistent(q)
      BY <1>0, <1>7 DEF ReadConnector, Consistent, Request
    <3>2. req' = [req EXCEPT ![r] = q]
      BY <2>2
    <3> QED BY <1>7, <3>1, <3>2, ReadStep DEF ReadConnector
  <2> QED BY <1>7, <2>1, <2>2 DEF ReadConnector
<1>8. CASE ReadExisting(r)
  <2> DEFINE rows == RowsOf(req[r].prop, req[r].conn)
  <2>0. /\ req[r].pc = "findExisting"
        /\ UNCHANGED <<catalog, bindings, catalogAudit, bindingAudit>>
    BY <1>8 DEF ReadExisting
  <2>1. CASE rows = {} /\ req' = [req EXCEPT ![r].pc = "insertBinding"]
    <3> DEFINE q == [req[r] EXCEPT !.pc = "insertBinding"]
    <3>1. Consistent(q)
      BY <1>0, <2>0 DEF Consistent, Request
    <3>2. req' = [req EXCEPT ![r] = q]
      BY <2>1
    <3> QED BY <2>0, <3>1, <3>2, ReadStep
  <2>2. CASE Answer(r, 409)
    BY <1>0, <1>a, <2>0, <2>2
  <2>3. ASSUME NEW b \in rows,
               req' = [req EXCEPT ![r] =
                          Running("refreshBinding", req[r].tenant, req[r].prop,
                                  req[r].conn, b, None)]
        PROVE  IInv'
    <3> DEFINE q == Running("refreshBinding", req[r].tenant, req[r].prop,
                            req[r].conn, b, None)
    <3>1. b \in DOMAIN bindings /\ bindings[b].prop = req[r].prop
      BY DEF RowsOf
    <3>2. b \in BindingIds /\ bindings[b] \in BindingRow
      BY <3>1 DEF IInv, TablesTyped, IsTable
    <3>3. Consistent(q)
      BY <1>0, <2>0, <3>1, <3>2 DEF Consistent, Request, Running
    <3>4. req' = [req EXCEPT ![r] = q]
      BY <2>3
    <3> QED BY <2>0, <3>3, <3>4, ReadStep
  <2> QED BY <1>8, <2>1, <2>2, <2>3 DEF ReadExisting
<1>9. CASE InsertBinding(r)
  BY <1>9, InsertKeeps
<1>10. CASE RefreshBinding(r)
  BY <1>0, <1>10, WriteActive DEF RefreshBinding
<1>11. CASE WriteToggle(r)
  BY <1>0, <1>11, WriteActive DEF WriteToggle
<1>12. CASE WriteUpdate(r)
  BY <1>0, <1>12, <1>a DEF WriteUpdate
<1>13. CASE CountBindings(r)
  <2>1. CASE Answer(r, 409)
    BY <1>0, <1>13, <1>a, <2>1 DEF CountBindings
  <2>2. CASE req' = [req EXCEPT ![r].pc = "delete"]
    <3> DEFINE q == [req[r] EXCEPT !.pc = "delete"]
    <3>1. Consistent(q)
      BY <1>0, <1>13 DEF CountBindings, Consistent, Request
    <3>2. req' = [req EXCEPT ![r] = q]
      BY <2>2
    <3> QED BY <1>13, <3>1, <3>2, ReadStep DEF CountBindings
  <2> QED BY <1>13, <2>1, <2>2 DEF CountBindings
<1>14. CASE WriteConnector(r)
  <2> DEFINE c == req[r].conn
             object == Assign(req[r].pc, req[r].seen)
             row == Flush(catalog[c], req[r].seen, object)
  <2>1. /\ c \in DOMAIN catalog /\ c \in Connectors /\ req[r].seen \in CatalogRow
        /\ req[r].pc \in {"activate", "hide", "edit", "delete", "restore"}
    BY <1>0, <1>14 DEF WriteConnector, Consistent
  <2>2. catalog[c] \in CatalogRow
    BY <2>1 DEF IInv, TablesTyped, IsTable
  <2>3. object \in CatalogRow
    BY <2>1 DEF Assign, CatalogRow
  <2>4. row \in CatalogRow
    BY <2>2, <2>3 DEF Flush, CatalogRow
  <2>5. /\ catalog' = [catalog EXCEPT ![c] = row]
        /\ catalogAudit' = Put(catalogAudit, c, object)
        /\ Answer(r, 200)
        /\ UNCHANGED <<bindings, bindingAudit>>
    BY <1>14 DEF WriteConnector
  <2> HIDE DEF c, object, row
  <2>7. catalog' = Put(catalog, c, row)
    BY <2>1, <2>5 DEF IInv, TablesTyped, IsTable, Put
  <2> QED BY <1>0, <2>1, <2>3, <2>4, <2>5, <2>7, CatalogWriteKeeps
<1>15. CASE Abort(r)
  BY <1>0, <1>15, <1>a DEF Abort
<1>16. CASE Begin(r)
  <2> DEFINE q == Running("begun", None, None, None, None, None)
  <2>1. Consistent(q)
    BY <1>0 DEF Consistent, Request, Running
  <2>2. /\ req' = [req EXCEPT ![r] = q]
        /\ UNCHANGED <<catalog, bindings, catalogAudit, bindingAudit>>
    BY <1>16 DEF Begin
  <2> QED BY <2>1, <2>2, ReadStep
<1> QED
  BY <1>3, <1>6, <1>7, <1>8, <1>9, <1>10, <1>11, <1>12, <1>13, <1>14, <1>15, <1>16
  DEF Step

\* The invariant holds throughout.
LEMMA Invariance == Spec => []IInv
<1>1. IInv /\ UNCHANGED vars => IInv'
  BY DEF IInv, TablesTyped, Consistent, OneBindingPerPair, AuditShowsBinding, vars
<1>2. IInv /\ [Next]_vars => IInv'
  BY <1>1, StepPreserves DEF Next
<1> QED BY InitEstablishes, <1>2, PTL DEF Spec

\* The tables and the requests stay well typed: in particular no handler loses
\* the row it loaded, for rows are never removed.
THEOREM TypeCorrect == Spec => []TypeOK
<1>1. IInv => TypeOK
  BY DEF IInv, TablesTyped, TypeOK
<1> QED BY Invariance, <1>1, PTL

\* However many activations run at once, a pair has one binding row
\* (property_connector/service.activate_connector and the unique constraint).
THEOREM OneBinding == Spec => []OneBindingPerPair
<1>1. IInv => OneBindingPerPair
  BY DEF IInv
<1> QED BY Invariance, <1>1, PTL

BindingChanged(b) == IF b \in DOMAIN bindings THEN bindings'[b] # bindings[b]
                     ELSE b \in DOMAIN bindings'

ActsForOwner(b) ==
    \E r \in Requests : /\ req[r].pc # "idle" /\ req'[r].pc = "idle"
                        /\ req[r].tenant = OwnerOf[bindings'[b].prop]

\* Only the three writing steps of the binding handlers change a binding.
LEMMA IsolatedStep ==
    ASSUME IInv, NEW r \in Requests, Step(r), NEW b \in BindingIds, BindingChanged(b)
    PROVE  ActsForOwner(b)
<1> USE DEF BindingPcs, LoadedPcs
<1>0. Consistent(req[r])
  BY DEF IInv
<1>a. ASSUME NEW s \in Statuses, Answer(r, s) PROVE req'[r].pc = "idle"
  BY <1>a DEF IInv, Answer, Idle
<1>b. {200, 201, 500} \subseteq Statuses
  BY DEF Statuses
<1>1. ASSUME UNCHANGED bindings PROVE FALSE
  BY <1>1 DEF BindingChanged
<1>2. ASSUME NEW active, WriteBindingActive(r, active), req[r].pc \in LoadedPcs,
             NEW s \in Statuses, Answer(r, s)
      PROVE  ActsForOwner(b)
  <2> DEFINE x == req[r].bid
  <2>1. /\ x \in DOMAIN bindings
        /\ req[r].tenant = OwnerOf[bindings[x].prop]
    BY <1>0, <1>2 DEF Consistent
  <2>2. bindings' = [bindings EXCEPT ![x].active = active]
    BY <1>2 DEF WriteBindingActive
  <2>3. bindings = [y \in DOMAIN bindings |-> bindings[y]] /\ bindings[x] \in BindingRow
    BY <2>1 DEF IInv, TablesTyped, IsTable
  <2>4. DOMAIN bindings' = DOMAIN bindings
        /\ \A y \in DOMAIN bindings : y # x => bindings'[y] = bindings[y]
    BY <2>2, <2>3
  <2>5. bindings'[x].prop = bindings[x].prop
    BY <2>1, <2>2, <2>3 DEF BindingRow
  <2>6. b = x
    BY <2>4 DEF BindingChanged
  <2>7. req'[r].pc = "idle" /\ req[r].pc # "idle"
    BY <1>2, <1>a
  <2> QED BY <2>1, <2>5, <2>6, <2>7 DEF ActsForOwner
<1>3. CASE InsertBinding(r)
  <2> DEFINE row == [prop |-> req[r].prop, conn |-> req[r].conn, active |-> TRUE]
  <2>1. CASE ~BindingUnique(req[r].prop, req[r].conn)
    BY <1>1, <1>3, <2>1 DEF InsertBinding
  <2>2. CASE BindingUnique(req[r].prop, req[r].conn)
    <3>1. PICK x \in BindingIds \ DOMAIN bindings :
             bindings' = Put(bindings, x, row) /\ Answer(r, 201)
      BY <1>3, <2>2 DEF InsertBinding
    <3>2. /\ DOMAIN bindings' = DOMAIN bindings \cup {x} /\ bindings'[x] = row
          /\ \A y \in DOMAIN bindings : bindings'[y] = bindings[y]
      BY <3>1 DEF Put
    <3>3. b = x
      BY <3>2 DEF BindingChanged
    <3>4. req[r].pc = "insertBinding" /\ req'[r].pc = "idle"
      BY <1>3, <1>a, <1>b, <3>1 DEF InsertBinding
    <3>5. req[r].tenant = OwnerOf[req[r].prop]
      BY <1>0, <3>4 DEF Consistent
    <3> QED BY <3>2, <3>3, <3>4, <3>5 DEF ActsForOwner
  <2> QED BY <2>1, <2>2
<1>4. CASE RefreshBinding(r)
  BY <1>2, <1>4, <1>b DEF RefreshBinding
<1>5. CASE WriteToggle(r)
  BY <1>2, <1>5, <1>b DEF WriteToggle
<1>6. CASE Begin(r) \/ ReadConnector(r) \/ ReadExisting(r) \/ CountBindings(r)
           \/ Abort(r) \/ WriteUpdate(r) \/ WriteConnector(r)
  BY <1>1, <1>6 DEF Begin, ReadConnector, ReadExisting, CountBindings, Abort,
                    WriteUpdate, WriteConnector
<1>7. CASE BindingRequest(r)
  BY <1>1, <1>7 DEF BindingRequest, TenantBindingRequest, AdminBindingRequest,
                    ReadOwnedProperty, StartUpdateBinding, StartDeactivate, StartReactivate
<1>8. CASE CatalogRequest(r)
  BY <1>1, <1>8 DEF CatalogRequest, CreateConnector, StartSetConnector, StartDelete,
                    StartRestore
<1> QED BY <1>3, <1>4, <1>5, <1>6, <1>7, <1>8 DEF Step

\* No tenant's request ever adds or changes a binding of another tenant's
\* property, and the admin's requests act in the owner's context.
THEOREM Isolation == Spec => TenantIsolation
<1> DEFINE A == \A b \in BindingIds : BindingChanged(b) => ActsForOwner(b)
<1>1. ASSUME IInv, Next PROVE A
  BY <1>1, IsolatedStep DEF Next
<1>2. IInv /\ [Next]_vars => [A]_vars
  BY <1>1
<1>3. Spec => [][A]_vars
  BY <1>2, Invariance, PTL DEF Spec
<1> QED BY <1>3 DEF TenantIsolation, BindingChanged, ActsForOwner

-----------------------------------------------------------------------------
\* Bindings implements BindingRegistry.

Status == [pair \in Pairs |-> Shown(pair, ActiveRows)]
Trail  == [pair \in Pairs |-> Shown(pair, AuditedRows)]

Word(on) == IF on THEN "on" ELSE "off"

\* A step of the registry, or none.
RegistryStep == Registry!Next \/ (Status' = Status /\ Trail' = Trail)

\* As long as the audit is in step, the trail shows what the registry's status is.
LEMMA TrailIsStatus ==
    ASSUME IInv PROVE Status = Trail
<1>1. ActiveRows = AuditedRows
  BY DEF IInv, AuditShowsBinding, ActiveRows, AuditedRows, TablesTyped, IsTable
<1> QED BY <1>1 DEF Status, Trail

\* A step that leaves the bindings and their audit alone is no step of the registry.
LEMMA NoSwitch ==
    ASSUME UNCHANGED <<bindings, bindingAudit>>
    PROVE  Status' = Status /\ Trail' = Trail
BY DEF Status, Trail, Shown, RowsOf, ActiveRows, AuditedRows

\* What a pair with one row shows.
LEMMA ShownOne ==
    ASSUME NEW pair \in Pairs, NEW on, NEW b, RowsOf(pair[1], pair[2]) = {b}
    PROVE  Shown(pair, on) = Word(b \in on)
BY DEF Shown, Word

\* A pair without a row is shown as absent.
LEMMA ShownNone ==
    ASSUME NEW pair \in Pairs, NEW on, RowsOf(pair[1], pair[2]) = {}
    PROVE  Shown(pair, on) = "absent"
BY DEF Shown

\* A step that stores one row, new or old, with its audit row switches the pair of
\* this row and no other one.
LEMMA OneSwitch ==
    ASSUME IInv, IInv', NEW p \in Properties, NEW c \in Connectors, NEW b,
           NEW active \in BOOLEAN,
           DOMAIN bindings' = DOMAIN bindings \cup {b},
           bindings'[b] = [prop |-> p, conn |-> c, active |-> active],
           \A x \in DOMAIN bindings : x # b => bindings'[x] = bindings[x],
           b \in DOMAIN bindings => bindings[b].prop = p /\ bindings[b].conn = c,
           active \/ b \in DOMAIN bindings
    PROVE  RegistryStep
<1> DEFINE pair == <<p, c>>
<1>1. pair \in Pairs /\ pair[1] = p /\ pair[2] = c
  BY DEF Pairs
<1>2. RowsOf(p, c)' = {b}
  BY DEF IInv, OneBindingPerPair, RowsOf
<1>3. Status'[pair] = Word(active)
  <2>1. b \in ActiveRows' <=> active
    BY DEF ActiveRows
  <2>2. Shown(pair, ActiveRows)' = Word(active)
    BY <1>1, <1>2, <2>1 DEF Shown, Word
  <2> QED BY <1>1, <2>2 DEF Status
<1>4. ASSUME NEW q \in Pairs, q # pair PROVE Status'[q] = Status[q]
  <2>1. RowsOf(q[1], q[2])' = RowsOf(q[1], q[2]) /\ b \notin RowsOf(q[1], q[2])
    BY <1>4 DEF RowsOf, Pairs
  <2>2. \A x \in RowsOf(q[1], q[2]) : x \in ActiveRows' <=> x \in ActiveRows
    BY <2>1 DEF RowsOf, ActiveRows
  <2>3. Shown(q, ActiveRows)' = Shown(q, ActiveRows)
    BY <2>1, <2>2 DEF Shown
  <2> QED BY <2>3 DEF Status
<1>5. Status' = [Status EXCEPT ![pair] = Word(active)]
  BY <1>1, <1>3, <1>4 DEF Status
<1>6. Trail' = Status' /\ Trail = Status
  <2>1. AuditedRows' = ActiveRows'
    BY DEF IInv, AuditShowsBinding, ActiveRows, AuditedRows, TablesTyped, IsTable
  <2> QED BY <2>1, TrailIsStatus DEF Status, Trail
<1>7. Status[pair] \in {"absent", "on", "off"} /\ (~active => Status[pair] # "absent")
  <2>1. CASE RowsOf(p, c) = {}
    <3>1. b \notin DOMAIN bindings
      BY <2>1 DEF RowsOf
    <3> QED BY <1>1, <2>1, <3>1, ShownNone DEF Status
  <2>2. CASE RowsOf(p, c) # {}
    <3>1. PICK x \in RowsOf(p, c) : RowsOf(p, c) = {x}
      BY <2>2 DEF IInv, OneBindingPerPair, RowsOf
    <3>2. Shown(pair, ActiveRows) = Word(x \in ActiveRows)
      BY <1>1, <3>1, ShownOne
    <3> QED BY <1>1, <3>2 DEF Status, Word
  <2> QED BY <2>1, <2>2
<1>8. CASE Status[pair] = Word(active)
  <2>1. Status' = Status
    BY <1>5, <1>8 DEF Status
  <2> QED BY <1>6, <2>1 DEF RegistryStep
<1>9. CASE Status[pair] # Word(active)
  <2>1. Registry!Switch(pair, Word(active))
    BY <1>5, <1>6 DEF Registry!Switch, Status, Trail
  <2>2. Registry!Attach(pair) \/ Registry!Detach(pair)
    BY <1>7, <1>9, <2>1 DEF Registry!Attach, Registry!Detach, Status, Word
  <2> QED BY <1>1, <2>2 DEF RegistryStep, Registry!Next
<1> QED BY <1>8, <1>9

-----------------------------------------------------------------------------
(* The refinement.                                                         *)

\* No row: every pair is absent in both tables.
LEMMA RegistryInit == Init => Registry!Init
<1> SUFFICES ASSUME Init PROVE Registry!Init
  OBVIOUS
<1>1. \A p \in Properties, c \in Connectors : RowsOf(p, c) = {}
  BY DEF Init, EmptyTable, RowsOf
<1>2. ASSUME NEW pair \in Pairs, NEW on PROVE Shown(pair, on) = "absent"
  BY <1>1, ShownNone DEF Pairs
<1> QED BY <1>2 DEF Registry!Init

\* An UPDATE of is_active switches the pair of the row that the request has loaded.
LEMMA UpdateSwitches ==
    ASSUME IInv, IInv', NEW r \in Requests, req[r].pc \in LoadedPcs,
           NEW active \in BOOLEAN, WriteBindingActive(r, active)
    PROVE  RegistryStep
<1> DEFINE b == req[r].bid
<1>1. b \in DOMAIN bindings /\ bindings[b] \in BindingRow
  BY DEF IInv, Consistent, TablesTyped, IsTable
<1>2. bindings' = [bindings EXCEPT ![b].active = active]
  BY DEF WriteBindingActive
<1>3. PICK p \in Properties, c \in Connectors :
         bindings[b] = [prop |-> p, conn |-> c, active |-> bindings[b].active]
  BY <1>1 DEF BindingRow
<1>4. bindings = [x \in DOMAIN bindings |-> bindings[x]]
  BY DEF IInv, TablesTyped, IsTable
<1>5. /\ DOMAIN bindings' = DOMAIN bindings
      /\ bindings'[b] = [prop |-> p, conn |-> c, active |-> active]
      /\ \A x \in DOMAIN bindings : x # b => bindings'[x] = bindings[x]
  BY <1>1, <1>2, <1>3, <1>4
<1>6. bindings[b].prop = p /\ bindings[b].conn = c
  BY <1>3
<1> HIDE DEF b
<1> QED BY <1>1, <1>5, <1>6, OneSwitch

\* Every step of a request is a step of the registry or none.
LEMMA StepRefines ==
    ASSUME IInv, NEW r \in Requests, Step(r)
    PROVE  RegistryStep
<1>0. IInv' /\ Consistent(req[r])
  BY StepPreserves DEF IInv
<1>1. ASSUME UNCHANGED <<bindings, bindingAudit>> PROVE RegistryStep
  BY <1>1, NoSwitch DEF RegistryStep
<1>2. CASE InsertBinding(r)
  <2> DEFINE p == req[r].prop
             c == req[r].conn
  <2>1. CASE ~BindingUnique(p, c)
    BY <1>1, <1>2, <2>1 DEF InsertBinding
  <2>2. CASE BindingUnique(p, c)
    <3>1. PICK b \in BindingIds \ DOMAIN bindings :
             bindings' = Put(bindings, b, [prop |-> p, conn |-> c, active |-> TRUE])
      BY <1>2, <2>2 DEF InsertBinding
    <3>2. /\ DOMAIN bindings' = DOMAIN bindings \cup {b}
          /\ bindings'[b] = [prop |-> p, conn |-> c, active |-> TRUE]
          /\ \A x \in DOMAIN bindings : x # b => bindings'[x] = bindings[x]
      BY <3>1 DEF Put
    <3>3. p \in Properties /\ c \in Connectors
      BY <1>0, <1>2 DEF InsertBinding, Consistent, BindingPcs
    <3> HIDE DEF p, c
    <3> QED BY <1>0, <3>1, <3>2, <3>3, OneSwitch
  <2> QED BY <2>1, <2>2
<1>3. CASE RefreshBinding(r)
  BY <1>0, <1>3, UpdateSwitches DEF RefreshBinding, LoadedPcs
<1>4. CASE WriteToggle(r)
  BY <1>0, <1>4, UpdateSwitches DEF WriteToggle, LoadedPcs
<1>5. CASE Begin(r) \/ ReadConnector(r) \/ ReadExisting(r) \/ CountBindings(r)
           \/ Abort(r) \/ WriteUpdate(r) \/ WriteConnector(r)
  BY <1>1, <1>5 DEF Begin, ReadConnector, ReadExisting, CountBindings, Abort,
                    WriteUpdate, WriteConnector
<1>6. CASE BindingRequest(r)
  BY <1>1, <1>6 DEF BindingRequest, TenantBindingRequest, AdminBindingRequest,
                    ReadOwnedProperty, StartUpdateBinding, StartDeactivate, StartReactivate
<1>7. CASE CatalogRequest(r)
  BY <1>1, <1>7 DEF CatalogRequest, CreateConnector, StartSetConnector, StartDelete,
                    StartRestore
<1> QED BY <1>2, <1>3, <1>4, <1>5, <1>6, <1>7 DEF Step

\* The handlers of the bindings, however they interleave, implement the registry: one
\* binding per pair that is only ever switched, with an audit row for every switch.
THEOREM Refinement == Spec => ImplementsRegistry
<1>1. ASSUME IInv, [Next]_vars PROVE [Registry!Next]_(Registry!vars)
  <2>1. CASE UNCHANGED vars
    BY <2>1, NoSwitch DEF vars, Registry!vars, Status, Trail
  <2>2. CASE Next
    <3>1. RegistryStep
      BY <1>1, <2>2, StepRefines DEF Next
    <3> QED BY <3>1 DEF RegistryStep, Registry!vars, Status, Trail
  <2> QED BY <1>1, <2>1, <2>2
<1> QED BY <1>1, RegistryInit, Invariance, PTL DEF Spec, ImplementsRegistry, Registry!Spec

-----------------------------------------------------------------------------
(* The catalog, as long as requests do not overlap.                        *)

\* What a request that runs alone has read of the rows in cat and bound still
\* holds when it goes on.
Current(q, cat, bound) ==
    /\ q.pc \in {"findExisting", "insertBinding", "refreshBinding", "reactivate"} =>
          q.conn \in DOMAIN cat /\ ~cat[q.conn].deleted
    /\ q.pc \in {"refreshBinding", "reactivate"} => bound[q.bid].conn = q.conn
    /\ q.pc \in CatalogPcs => q.seen = cat[q.conn]
    /\ q.pc = "activate" => ~cat[q.conn].deleted
    /\ q.pc = "delete" => \A b \in DOMAIN bound : bound[b].conn # q.conn

CatalogKept ==
    /\ DOMAIN catalogAudit \subseteq DOMAIN catalog
    /\ \A b \in DOMAIN bindings : bindings[b].conn \in DOMAIN catalog
    /\ DeletedHasNoActiveBinding
    /\ DeletedIsInactive
    /\ AuditShowsConnector

AllCurrent == \A r \in Requests : Current(req[r], catalog, bindings)

Serially == ~Overlap /\ AllCurrent /\ CatalogKept

\* The inductive invariant of requests that do not overlap.
SInv == overlapped \/ Serially

\* The facts that the steps need of a request and of a stored row.
LEMMA RowFacts ==
    ASSUME IInv
    PROVE  /\ \A c \in DOMAIN catalog : c \in Connectors /\ catalog[c] \in CatalogRow
           /\ \A b \in DOMAIN bindings : b \in BindingIds /\ bindings[b] \in BindingRow
           /\ \A r \in Requests : req[r] \in Request /\ Consistent(req[r])
BY DEF IInv, TablesTyped, IsTable

\* One request goes on and the others stay where they are.
LEMMA OthersStay ==
    ASSUME IInv, NEW r \in Requests, NEW q, req' = [req EXCEPT ![r] = q], NEW s \in Requests
    PROVE  req'[s] = IF s = r THEN q ELSE req[s]
BY DEF IInv

\* An idle request relies on nothing.
LEMMA IdleCurrent ==
    ASSUME NEW s, NEW cat, NEW bound PROVE Current(Idle(s), cat, bound)
BY DEF Current, Idle, CatalogPcs

\* A request reads, and no other is in progress when it goes on.
LEMMA SerialRead ==
    ASSUME IInv, Serially, ~Overlap', NEW r \in Requests, NEW q,
           Current(q, catalog, bindings), req' = [req EXCEPT ![r] = q],
           UNCHANGED <<catalog, bindings, catalogAudit, bindingAudit>>
    PROVE  Serially'
<1>1. \A s \in Requests : Current(req'[s], catalog, bindings)
  BY OthersStay DEF Serially, AllCurrent
<1>2. AllCurrent'
  BY <1>1 DEF AllCurrent
<1>3. CatalogKept'
  BY DEF Serially, CatalogKept, DeletedHasNoActiveBinding, DeletedIsInactive,
         AuditShowsConnector
<1> QED BY <1>2, <1>3 DEF Serially

\* The only request in progress writes and is answered.
LEMMA SerialWrite ==
    ASSUME IInv, Serially, ~Overlap', NEW r \in Requests, req[r].pc # "idle",
           NEW s, Answer(r, s), CatalogKept'
    PROVE  Serially'
<1>1. \A x \in Requests : x # r => req[x].pc = "idle"
  BY DEF Serially, Overlap
<1>2. \A x \in Requests : req'[x] = IF x = r THEN Idle(s) ELSE req[x]
  BY OthersStay DEF Answer
<1>3. \A x \in Requests : req'[x].pc = "idle"
  BY <1>1, <1>2 DEF Idle
<1>4. AllCurrent'
  BY <1>3 DEF AllCurrent, Current, CatalogPcs
<1> QED BY <1>4 DEF Serially

\* A binding is added or changed; if it is active now, its connector is not deleted.
LEMMA SerialBindingWrite ==
    ASSUME IInv, Serially, ~Overlap', NEW r \in Requests, req[r].pc # "idle",
           NEW s, Answer(r, s), NEW b, NEW row, bindings' = Put(bindings, b, row),
           row.conn \in DOMAIN catalog, row.active => ~catalog[row.conn].deleted,
           UNCHANGED <<catalog, catalogAudit>>
    PROVE  Serially'
<1>1. /\ DOMAIN bindings' = DOMAIN bindings \cup {b} /\ bindings'[b] = row
      /\ \A x \in DOMAIN bindings : x # b => bindings'[x] = bindings[x]
  BY DEF Put
<1>2. CatalogKept'
  BY <1>1 DEF Serially, CatalogKept, DeletedHasNoActiveBinding, DeletedIsInactive,
              AuditShowsConnector
<1> QED BY <1>2, SerialWrite

\* A connector's row is written with its audit row; bound rows survive a deletion.
LEMMA CatalogWriteKept ==
    ASSUME IInv, CatalogKept, NEW c, NEW row, row.deleted => ~row.active,
           row.deleted /\ (c \in DOMAIN catalog => ~catalog[c].deleted) =>
               (\A b \in DOMAIN bindings : bindings[b].conn # c),
           catalog' = Put(catalog, c, row), catalogAudit' = Put(catalogAudit, c, row),
           UNCHANGED bindings
    PROVE  CatalogKept'
<1>1. /\ DOMAIN catalog' = DOMAIN catalog \cup {c} /\ catalog'[c] = row
      /\ \A x \in DOMAIN catalog : x # c => catalog'[x] = catalog[x]
  BY DEF Put
<1>2. /\ DOMAIN catalogAudit' = DOMAIN catalogAudit \cup {c} /\ catalogAudit'[c] = row
      /\ \A x \in DOMAIN catalogAudit : x # c => catalogAudit'[x] = catalogAudit[x]
  BY DEF Put
<1>3. DeletedHasNoActiveBinding'
  BY <1>1 DEF CatalogKept, DeletedHasNoActiveBinding
<1>4. DeletedIsInactive'
  BY <1>1 DEF CatalogKept, DeletedIsInactive
<1>5. AuditShowsConnector'
  BY <1>1, <1>2 DEF CatalogKept, AuditShowsConnector
<1> QED BY <1>1, <1>2, <1>3, <1>4, <1>5 DEF CatalogKept

\* A step of the only request in progress keeps the catalog's promises.
LEMMA SerialStep ==
    ASSUME IInv, Serially, ~Overlap', NEW r \in Requests, Step(r)
    PROVE  Serially'
<1>0. Current(req[r], catalog, bindings) /\ Consistent(req[r]) /\ req[r] \in Request
  BY RowFacts DEF Serially, AllCurrent
<1>a. ASSUME NEW s, Answer(r, s),
             UNCHANGED <<catalog, bindings, catalogAudit, bindingAudit>>
      PROVE  Serially'
  <2>1. req' = [req EXCEPT ![r] = Idle(s)] /\ Current(Idle(s), catalog, bindings)
    BY <1>a, IdleCurrent DEF Answer
  <2> QED BY <1>a, <2>1, SerialRead
<1>b. ASSUME NEW q, Current(q, catalog, bindings), req' = [req EXCEPT ![r] = q],
             UNCHANGED <<catalog, bindings, catalogAudit, bindingAudit>>
      PROVE  Serially'
  BY <1>b, SerialRead
<1>1. ASSUME NEW t, NEW p, NEW c, ReadOwnedProperty(r, t, p, c)
      PROVE  Serially'
  <2>1. Current(Running("findConnector", t, p, c, None, None), catalog, bindings)
    BY DEF Current, Running, CatalogPcs
  <2> QED BY <1>1, <1>a, <1>b, <2>1 DEF ReadOwnedProperty
<1>2. ASSUME NEW t, NEW p, NEW b,
             \/ StartUpdateBinding(r, t, p, b)
             \/ StartDeactivate(r, t, p, b)
             \/ StartReactivate(r, t, p, b)
      PROVE  Serially'
  <2>1. UNCHANGED <<catalog, bindings, catalogAudit, bindingAudit>>
    BY <1>2 DEF StartUpdateBinding, StartDeactivate, StartReactivate
  <2>2. \/ \E s : Answer(r, s)
        \/ \E pc \in {"updateBinding", "deactivate"} : LoadBinding(r, t, p, b, pc)
        \/ Available(bindings[b].conn) /\ LoadBinding(r, t, p, b, "reactivate")
    BY <1>2 DEF StartUpdateBinding, StartDeactivate, StartReactivate
  <2>3. ASSUME NEW pc \in {"updateBinding", "deactivate"}
        PROVE  Current(Running(pc, t, p, bindings[b].conn, b, None), catalog, bindings)
    BY DEF Current, Running, CatalogPcs
  <2>4. ASSUME Available(bindings[b].conn)
        PROVE  Current(Running("reactivate", t, p, bindings[b].conn, b, None), catalog, bindings)
    BY <2>4 DEF Current, Running, CatalogPcs, Available, Alive
  <2> QED BY <1>a, <1>b, <2>1, <2>2, <2>3, <2>4 DEF LoadBinding
<1>3. CASE BindingRequest(r)
  BY <1>1, <1>2, <1>3 DEF BindingRequest, TenantBindingRequest, AdminBindingRequest
<1>4. ASSUME NEW c \in Connectors, CreateConnector(r, c)
      PROVE  Serially'
  <2> DEFINE row == [active |-> TRUE, deleted |-> FALSE]
  <2>1. /\ c \notin DOMAIN catalog /\ req' = [req EXCEPT ![r] = Idle(201)]
        /\ catalog' = Put(catalog, c, row) /\ catalogAudit' = Put(catalogAudit, c, row)
        /\ UNCHANGED <<bindings, bindingAudit>>
    BY <1>4 DEF CreateConnector, Answer
  <2>2. CatalogKept'
    <3>1. ~row.deleted
      OBVIOUS
    <3> HIDE DEF row
    <3> QED BY <2>1, <3>1, CatalogWriteKept DEF Serially
  <2>3. ASSUME NEW s \in Requests PROVE Current(req'[s], catalog', bindings')
    <3>1. CASE s = r
      <4>1. req'[s] = Idle(201)
        BY <2>1, <3>1 DEF IInv
      <4> QED BY <4>1, IdleCurrent
    <3>2. CASE s # r
      <4>1. req'[s] = req[s] /\ Current(req[s], catalog, bindings) /\ Consistent(req[s])
        BY <2>1, <3>2, RowFacts, OthersStay DEF Serially, AllCurrent
      <4>2. c \notin DOMAIN catalog /\ DOMAIN catalog' = DOMAIN catalog \cup {c}
            /\ \A x \in DOMAIN catalog : catalog'[x] = catalog[x]
        BY <2>1 DEF Put
      <4>3. req[s].pc \in CatalogPcs => req[s].conn \in DOMAIN catalog
        BY <4>1 DEF Consistent
      <4> QED BY <2>1, <4>1, <4>2, <4>3 DEF Current, CatalogPcs
    <3> QED BY <3>1, <3>2
  <2>4. AllCurrent'
    BY <2>3 DEF AllCurrent
  <2> QED BY <2>2, <2>4 DEF Serially
<1>5. ASSUME NEW c \in Connectors,
             StartSetConnector(r, c) \/ StartDelete(r, c) \/ StartRestore(r, c)
      PROVE  Serially'
  <2>1. UNCHANGED <<catalog, bindings, catalogAudit, bindingAudit>>
    BY <1>5 DEF StartSetConnector, StartDelete, StartRestore
  <2>2. \/ \E s : Answer(r, s)
        \/ \E pc \in {"edit", "hide", "countBindings", "restore"} : LoadConnector(r, c, pc)
        \/ ~catalog[c].deleted /\ LoadConnector(r, c, "activate")
    BY <1>5 DEF StartSetConnector, StartDelete, StartRestore, Alive
  <2>3. ASSUME NEW pc \in {"edit", "hide", "countBindings", "restore"}
        PROVE  Current(Running(pc, None, None, c, None, catalog[c]), catalog, bindings)
    BY DEF Current, Running
  <2>4. ASSUME ~catalog[c].deleted
        PROVE  Current(Running("activate", None, None, c, None, catalog[c]), catalog, bindings)
    BY <2>4 DEF Current, Running
  <2> QED BY <1>a, <1>b, <2>1, <2>2, <2>3, <2>4 DEF LoadConnector
<1>6. CASE CatalogRequest(r)
  BY <1>4, <1>5, <1>6 DEF CatalogRequest
<1>7. CASE ReadConnector(r)
  <2> DEFINE q == [req[r] EXCEPT !.pc = "findExisting"]
  <2>1. \/ \E s : Answer(r, s)
        \/ Available(req[r].conn) /\ req' = [req EXCEPT ![r] = q]
    BY <1>7 DEF ReadConnector
  <2>2. ASSUME Available(req[r].conn) PROVE Current(q, catalog, bindings)
    BY <1>0, <2>2 DEF Current, Request, CatalogPcs, Available, Alive
  <2> HIDE DEF q
  <2> QED BY <1>7, <1>a, <1>b, <2>1, <2>2 DEF ReadConnector
<1>8. CASE ReadExisting(r)
  <2>0. /\ req[r].pc = "findExisting"
        /\ UNCHANGED <<catalog, bindings, catalogAudit, bindingAudit>>
    BY <1>8 DEF ReadExisting
  <2> DEFINE q == [req[r] EXCEPT !.pc = "insertBinding"]
             q2(b) == Running("refreshBinding", req[r].tenant, req[r].prop,
                              req[r].conn, b, None)
  <2>1. \/ \E s : Answer(r, s)
        \/ req' = [req EXCEPT ![r] = q]
        \/ \E b \in RowsOf(req[r].prop, req[r].conn) : req' = [req EXCEPT ![r] = q2(b)]
    BY <1>8 DEF ReadExisting
  <2>2. Current(q, catalog, bindings)
    BY <1>0, <2>0 DEF Current, Request, CatalogPcs
  <2>3. ASSUME NEW b \in RowsOf(req[r].prop, req[r].conn)
        PROVE  Current(q2(b), catalog, bindings)
    BY <1>0, <2>0 DEF Current, Running, RowsOf, CatalogPcs
  <2> HIDE DEF q, q2
  <2> QED BY <1>a, <1>b, <2>0, <2>1, <2>2, <2>3
<1>9. CASE InsertBinding(r)
  <2> DEFINE p == req[r].prop
             c == req[r].conn
             row == [prop |-> p, conn |-> c, active |-> TRUE]
  <2>1. CASE ~BindingUnique(p, c)
    BY <1>9, <1>a, <2>1 DEF InsertBinding
  <2>2. CASE BindingUnique(p, c)
    <3>1. PICK b : bindings' = Put(bindings, b, row) /\ Answer(r, 201)
      BY <1>9, <2>2 DEF InsertBinding
    <3>2. /\ req[r].pc = "insertBinding" /\ row.conn = c
          /\ c \in DOMAIN catalog /\ ~catalog[c].deleted
          /\ UNCHANGED <<catalog, catalogAudit>>
      BY <1>0, <1>9 DEF InsertBinding, Current
    <3> HIDE DEF row, c, p
    <3> QED BY <3>1, <3>2, SerialBindingWrite
  <2> QED BY <2>1, <2>2
<1>c. ASSUME req[r].pc \in LoadedPcs, NEW active \in BOOLEAN,
             active => req[r].pc \in {"refreshBinding", "reactivate"},
             WriteBindingActive(r, active), NEW s, Answer(r, s),
             UNCHANGED <<catalog, catalogAudit>>
      PROVE  Serially'
  <2> DEFINE b == req[r].bid
             row == [bindings[b] EXCEPT !.active = active]
  <2>1. b \in DOMAIN bindings /\ bindings[b] \in BindingRow /\ req[r].pc # "idle"
    BY <1>0, <1>c, RowFacts DEF Consistent, LoadedPcs
  <2>2. /\ bindings' = [bindings EXCEPT ![b] = row]
        /\ row.conn = bindings[b].conn /\ row.active = active
    BY <1>c, <2>1 DEF WriteBindingActive, BindingRow
  <2>3. /\ row.conn \in DOMAIN catalog
        /\ row.active => ~catalog[row.conn].deleted
    BY <1>0, <1>c, <2>1, <2>2 DEF Current, Serially, CatalogKept
  <2> HIDE DEF row, b
  <2>4. bindings' = Put(bindings, b, row)
    BY <2>1, <2>2 DEF IInv, TablesTyped, IsTable, Put
  <2> QED BY <1>c, <2>1, <2>3, <2>4, SerialBindingWrite
<1>10. CASE RefreshBinding(r)
  BY <1>10, <1>c DEF RefreshBinding, LoadedPcs
<1>11. CASE WriteToggle(r)
  BY <1>11, <1>c DEF WriteToggle, LoadedPcs
<1>12. CASE WriteUpdate(r)
  BY <1>12, <1>a DEF WriteUpdate
<1>13. CASE CountBindings(r)
  <2> DEFINE q == [req[r] EXCEPT !.pc = "delete"]
  <2>0. /\ req[r].pc = "countBindings"
        /\ UNCHANGED <<catalog, bindings, catalogAudit, bindingAudit>>
    BY <1>13 DEF CountBindings
  <2>1. \/ Answer(r, 409)
        \/ RowsOn(req[r].conn) = {} /\ req' = [req EXCEPT ![r] = q]
    BY <1>13 DEF CountBindings
  <2>2. ASSUME RowsOn(req[r].conn) = {} PROVE Current(q, catalog, bindings)
    BY <1>0, <2>0, <2>2 DEF Current, Request, RowsOn, CatalogPcs
  <2> HIDE DEF q
  <2> QED BY <1>a, <1>b, <2>0, <2>1, <2>2
<1>14. CASE WriteConnector(r)
  <2> DEFINE c == req[r].conn
             object == Assign(req[r].pc, catalog[c])
             row == Flush(catalog[c], catalog[c], object)
  <2>1. /\ c \in DOMAIN catalog /\ req[r].seen = catalog[c] /\ catalog[c] \in CatalogRow
        /\ req[r].pc \in {"activate", "hide", "edit", "delete", "restore"}
    BY <1>0, <1>14, RowFacts DEF WriteConnector, Consistent, Current, CatalogPcs
  <2>2. object \in CatalogRow
    BY <2>1 DEF Assign, CatalogRow
  <2>3. row = object
    BY <2>1, <2>2 DEF Flush, CatalogRow
  <2>4. /\ catalog' = [catalog EXCEPT ![c] = object]
        /\ catalogAudit' = Put(catalogAudit, c, object)
        /\ Answer(r, 200)
        /\ UNCHANGED <<bindings, bindingAudit>>
    BY <1>14, <2>1, <2>3 DEF WriteConnector
  <2>5. catalog[c].deleted => ~catalog[c].active
    BY <2>1 DEF Serially, CatalogKept, DeletedIsInactive
  <2>6. object.deleted => ~object.active
    BY <1>0, <2>1, <2>5 DEF Assign, CatalogRow, Current
  <2>7. object.deleted /\ ~catalog[c].deleted =>
            (\A b \in DOMAIN bindings : bindings[b].conn # c)
    BY <1>0, <2>1 DEF Assign, CatalogRow, Current
  <2> HIDE DEF row, object, c
  <2>8. catalog' = Put(catalog, c, object)
    BY <2>1, <2>4 DEF IInv, TablesTyped, IsTable, Put
  <2>9. CatalogKept'
    BY <2>1, <2>4, <2>6, <2>7, <2>8, CatalogWriteKept DEF Serially
  <2>10. req[r].pc # "idle"
    BY <2>1
  <2> QED BY <2>4, <2>9, <2>10, SerialWrite
<1>15. CASE Abort(r)
  BY <1>15, <1>a DEF Abort
<1>16. CASE Begin(r)
  <2>1. Current(Running("begun", None, None, None, None, None), catalog, bindings)
    BY DEF Current, Running, CatalogPcs
  <2> QED BY <1>16, <1>b, <2>1 DEF Begin
<1> QED
  BY <1>3, <1>6, <1>7, <1>8, <1>9, <1>10, <1>11, <1>12, <1>13, <1>14, <1>15, <1>16
  DEF Step

\* Both invariants hold throughout.
LEMMA SerialInvariance == SerialSpec => [](IInv /\ SInv)
<1>1. SerialInit => IInv /\ SInv
  <2> SUFFICES ASSUME SerialInit PROVE IInv /\ SInv
    OBVIOUS
  <2>1. Init
    BY DEF SerialInit
  <2>2. \A r \in Requests : req[r] = Idle(0)
    BY <2>1 DEF Init
  <2>3. ~Overlap /\ AllCurrent
    BY <2>2, IdleCurrent DEF Overlap, AllCurrent, Idle
  <2>4. CatalogKept
    BY <2>1 DEF Init, EmptyTable, CatalogKept, DeletedHasNoActiveBinding,
                DeletedIsInactive, AuditShowsConnector
  <2> QED BY <2>1, <2>3, <2>4, InitEstablishes DEF SInv, Serially
<1>2. ASSUME IInv, SInv, SerialNext PROVE IInv' /\ SInv'
  <2>1. overlapped' = (overlapped \/ Overlap')
    BY <1>2 DEF SerialNext
  <2>2. PICK r \in Requests : Step(r)
    BY <1>2 DEF SerialNext
  <2>3. IInv'
    BY <1>2, <2>2, StepPreserves
  <2>4. ASSUME overlapped \/ Overlap' PROVE SInv'
    BY <2>1, <2>4 DEF SInv
  <2>5. ASSUME ~overlapped, ~Overlap' PROVE SInv'
    BY <1>2, <2>2, <2>5, SerialStep DEF SInv
  <2> QED BY <2>3, <2>4, <2>5
<1>3. ASSUME IInv, SInv, UNCHANGED svars PROVE IInv' /\ SInv'
  BY <1>3 DEF svars, vars, IInv, TablesTyped, Consistent, OneBindingPerPair,
              AuditShowsBinding, SInv, Serially, Overlap, AllCurrent, CatalogKept,
              DeletedHasNoActiveBinding, DeletedIsInactive, AuditShowsConnector
<1> QED BY <1>1, <1>2, <1>3, PTL DEF SerialSpec

\* Without overlap the count that soft_delete_connector makes is still right when
\* it deletes, and activate_connector and reactivate_connector bind a connector that
\* is not deleted: no active binding names a deleted connector.
THEOREM NoActiveOrphans == SerialSpec => []SerialDeletedHasNoActiveBinding
<1>1. SInv => SerialDeletedHasNoActiveBinding
  BY DEF SInv, Serially, CatalogKept, SerialDeletedHasNoActiveBinding
<1> QED BY SerialInvariance, <1>1, PTL

\* Without overlap a deleted connector is inactive, whatever sequence of creations,
\* edits, toggles, deletions and restorations led to it.
THEOREM DeletedStaysInactive == SerialSpec => []SerialDeletedIsInactive
<1>1. SInv => SerialDeletedIsInactive
  BY DEF SInv, Serially, CatalogKept, SerialDeletedIsInactive
<1> QED BY SerialInvariance, <1>1, PTL

\* Without overlap the object that a catalog handler audits is the row it leaves
\* behind: the columns that its UPDATE omits still have the loaded value.
THEOREM CatalogAuditCorrect == SerialSpec => []SerialAuditShowsConnector
<1>1. SInv => SerialAuditShowsConnector
  BY DEF SInv, Serially, CatalogKept, SerialAuditShowsConnector
<1> QED BY SerialInvariance, <1>1, PTL
-----------------------------------------------------------------------------
(* The trail in the order in which it is listed.                           *)

\* A step of a request leaves the other requests where they are.
LEMMA StepOfOne ==
    ASSUME IInv, NEW r \in Requests, Step(r)
    PROVE  /\ \A s \in Requests : s # r => req'[s] = req[s]
           /\ req[r].pc = "idle" => req'[r].pc = "begun"
<1>0. Consistent(req[r]) /\ req \in [Requests -> Request]
  BY DEF IInv
<1>1. ASSUME NEW q, req' = [req EXCEPT ![r] = q]
      PROVE  \A s \in Requests : s # r => req'[s] = req[s]
  BY <1>0, <1>1
<1>2. CASE Begin(r)
  BY <1>0, <1>1, <1>2 DEF Begin, Running
<1>3. CASE ReadConnector(r) \/ ReadExisting(r) \/ CountBindings(r) \/ Abort(r)
           \/ WriteUpdate(r) \/ WriteConnector(r) \/ WriteToggle(r)
           \/ RefreshBinding(r) \/ InsertBinding(r)
  BY <1>1, <1>3 DEF ReadConnector, ReadExisting, CountBindings, Abort, WriteUpdate,
        WriteConnector, WriteToggle, RefreshBinding, InsertBinding, Answer
<1>4. CASE BindingRequest(r)
  BY <1>1, <1>4 DEF BindingRequest, TenantBindingRequest, AdminBindingRequest, Answer,
        ReadOwnedProperty, StartUpdateBinding, StartDeactivate, StartReactivate, LoadBinding
<1>5. CASE CatalogRequest(r)
  BY <1>1, <1>5 DEF CatalogRequest, CreateConnector, StartSetConnector, StartDelete,
        StartRestore, LoadConnector, Answer
<1> QED BY <1>2, <1>3, <1>4, <1>5 DEF Step

\* Whatever a step writes to the bindings it commits with an audit row.
LEMMA WritesAreAudited ==
    ASSUME IInv, NEW r \in Requests, Step(r)
    PROVE  /\ DOMAIN bindings \subseteq DOMAIN bindings'
           /\ \A b \in DOMAIN bindings' \ Audited(r) :
                 b \in DOMAIN bindings /\ bindings'[b] = bindings[b]
           /\ Audited(r) \subseteq DOMAIN bindings'
           /\ ~Ends(r) => UNCHANGED bindings
<1>0. Consistent(req[r]) /\ req \in [Requests -> Request]
  BY DEF IInv
<1>a. ASSUME NEW s, Answer(r, s) PROVE Ends(r) /\ req'[r].status = s
  BY <1>0, <1>a DEF Answer, Ends, Idle
<1>b. ASSUME UNCHANGED bindings PROVE Audited(r) \subseteq DOMAIN bindings'
  BY <1>0, <1>b DEF Audited, Consistent, LoadedPcs
<1>1. ASSUME NEW active, WriteBindingActive(r, active), NEW s \in {200, 201}, Answer(r, s),
             req[r].pc \in {"refreshBinding", "reactivate", "deactivate"}
      PROVE  /\ DOMAIN bindings' = DOMAIN bindings
             /\ \A b \in DOMAIN bindings : b # req[r].bid => bindings'[b] = bindings[b]
             /\ Audited(r) = {req[r].bid} /\ req[r].bid \in DOMAIN bindings
  <2>1. bindings' = [bindings EXCEPT ![req[r].bid].active = active]
    BY <1>1 DEF WriteBindingActive
  <2>2. bindings = [y \in DOMAIN bindings |-> bindings[y]]
    BY DEF IInv, TablesTyped, IsTable
  <2>3. req[r].bid \in DOMAIN bindings
    BY <1>0, <1>1 DEF Consistent, LoadedPcs
  <2> QED BY <1>1, <1>a, <2>1, <2>2, <2>3 DEF Audited
<1>2. CASE RefreshBinding(r) \/ WriteToggle(r)
  <2>1. PICK active \in BOOLEAN, s \in {200, 201} :
           /\ WriteBindingActive(r, active)
           /\ Answer(r, s)
           /\ req[r].pc \in {"refreshBinding", "reactivate", "deactivate"}
    BY <1>2 DEF RefreshBinding, WriteToggle
  <2> QED BY <1>1, <1>a, <2>1
<1>3. CASE InsertBinding(r)
  <2>1. CASE ~BindingUnique(req[r].prop, req[r].conn)
    BY <1>3, <1>b, <2>1 DEF InsertBinding
  <2>2. CASE BindingUnique(req[r].prop, req[r].conn)
    <3>1. PICK x, row : bindings' = Put(bindings, x, row) /\ Answer(r, 201)
                        /\ x \notin DOMAIN bindings
      BY <1>3, <2>2 DEF InsertBinding
    <3>2. req[r].pc = "insertBinding"
      BY <1>3 DEF InsertBinding
    <3>3. Audited(r) = {x}
      BY <1>a, <3>1, <3>2 DEF Audited, Put
    <3> QED BY <1>a, <3>1, <3>3 DEF Put
  <2> QED BY <2>1, <2>2
<1>5. CASE Begin(r) \/ ReadConnector(r) \/ ReadExisting(r) \/ CountBindings(r)
           \/ Abort(r) \/ WriteUpdate(r) \/ WriteConnector(r)
  BY <1>5, <1>b DEF Begin, ReadConnector, ReadExisting, CountBindings, Abort,
                    WriteUpdate, WriteConnector
<1>6. CASE BindingRequest(r)
  BY <1>6, <1>b DEF BindingRequest, TenantBindingRequest, AdminBindingRequest,
        ReadOwnedProperty, StartUpdateBinding, StartDeactivate, StartReactivate
<1>7. CASE CatalogRequest(r)
  BY <1>7, <1>b DEF CatalogRequest, CreateConnector, StartSetConnector, StartDelete,
        StartRestore
<1> QED BY <1>2, <1>3, <1>5, <1>6, <1>7 DEF Step

\* The transactions that began before an open one are open.
BeganBefore ==
    /\ began \in [Requests -> SUBSET Requests]
    /\ \A r \in Requests : began[r] \subseteq Opened \ {r}

\* Whoever began before the row that is listed first overlapped a writer of the binding.
OlderAreRivals ==
    \A b \in DOMAIN listed : /\ listed[b] \in ListedRow
                             /\ listed[b].older \subseteq listed[b].rivals

ListInv == BeganBefore /\ OlderAreRivals /\ ListedAuditShowsBinding

\* The order of the beginnings is kept by every step.
LEMMA BeganKept ==
    ASSUME IInv, IInv', BeganBefore, NEW r \in Requests, Step(r), began' = Timestamps(r)
    PROVE  BeganBefore'
<1>1. \A s \in Requests : s # r => req'[s] = req[s]
  BY StepOfOne
<1>2. CASE req[r].pc = "idle"
  <2>1. ~Ends(r)
    BY <1>2, StepOfOne DEF Ends
  <2>2. began' = [began EXCEPT ![r] = Opened]
    BY <1>2, <2>1 DEF Timestamps
  <2>3. Opened' = Opened \cup {r} /\ r \notin Opened
    BY <1>1, <1>2, <2>1 DEF Opened, Ends
  <2>4. Opened \subseteq Requests
    BY DEF Opened
  <2> QED BY <2>2, <2>3, <2>4 DEF BeganBefore
<1>3. CASE req[r].pc # "idle" /\ Ends(r)
  <2>1. began' = [s \in Requests |-> IF s = r THEN {} ELSE began[s] \ {r}]
    BY <1>3 DEF Timestamps
  <2>2. Opened' = Opened \ {r}
    BY <1>1, <1>3 DEF Opened, Ends
  <2> QED BY <2>1, <2>2 DEF BeganBefore
<1>4. CASE req[r].pc # "idle" /\ ~Ends(r)
  <2>1. began' = began /\ Opened' = Opened
    BY <1>1, <1>4 DEF Timestamps, Opened, Ends
  <2> QED BY <2>1 DEF BeganBefore
<1> QED BY <1>2, <1>3, <1>4

\* A row that is written by a request that is no rival is listed first.
LEMMA ListKept ==
    ASSUME IInv, IInv', ListInv, NEW r \in Requests, Step(r), listed' = Listing(r)
    PROVE  OlderAreRivals' /\ ListedAuditShowsBinding'
<1> DEFINE written == Audited(r)
<1>1. /\ DOMAIN bindings \subseteq DOMAIN bindings'
      /\ \A b \in DOMAIN bindings' \ written :
            b \in DOMAIN bindings /\ bindings'[b] = bindings[b]
      /\ written \subseteq DOMAIN bindings'
      /\ ~Ends(r) => UNCHANGED bindings
  BY WritesAreAudited
<1>2. DOMAIN listed = DOMAIN bindings
  BY DEF ListInv, ListedAuditShowsBinding
<1>3. \A b \in DOMAIN bindings' : /\ bindingAudit'[b] = bindings'[b].active
                                  /\ bindingAudit'[b] \in BOOLEAN
  BY DEF IInv, AuditShowsBinding, TablesTyped, IsTable
<1> HIDE DEF written
<1>4. CASE ~Ends(r)
  BY <1>1, <1>4 DEF Listing, ListInv, OlderAreRivals, ListedAuditShowsBinding
<1>5. CASE Ends(r)
  <2>1. /\ DOMAIN listed' = DOMAIN listed \cup written
        /\ \A b \in DOMAIN listed' : listed'[b] =
              CASE b \notin DOMAIN listed -> FirstRow(r, bindingAudit'[b])
                [] b \in DOMAIN listed /\ b \in written ->
                       NextRow(listed[b], r, bindingAudit'[b])
                [] OTHER -> Without(listed[b], r)
    BY <1>5 DEF Listing, written
  <2>2. DOMAIN listed' = DOMAIN bindings'
    BY <1>1, <1>2, <2>1
  <2>3. ASSUME NEW b \in DOMAIN bindings'
        PROVE  /\ listed'[b] \in ListedRow
               /\ listed'[b].older \subseteq listed'[b].rivals
               /\ listed'[b].alone => listed'[b].active = bindings'[b].active
    <3>1. CASE b \notin DOMAIN listed
      <4>1. listed'[b] = FirstRow(r, bindingAudit'[b])
        BY <2>1, <2>2, <3>1
      <4>2. began[r] \subseteq Opened \ {r}
        BY DEF ListInv, BeganBefore
      <4> QED BY <1>3, <4>1, <4>2 DEF FirstRow, ListedRow, Opened
    <3>2. CASE b \in DOMAIN listed /\ b \in written
      <4>1. listed'[b] = NextRow(listed[b], r, bindingAudit'[b])
        BY <2>1, <2>2, <3>2
      <4>2. /\ began[r] \subseteq Opened \ {r}
            /\ listed[b] \in ListedRow
            /\ listed[b].older \subseteq listed[b].rivals
        BY <3>2 DEF ListInv, BeganBefore, OlderAreRivals
      <4> QED BY <1>3, <4>1, <4>2 DEF NextRow, ListedRow, Opened
    <3>3. CASE b \in DOMAIN listed /\ b \notin written
      <4>1. listed'[b] = Without(listed[b], r)
        BY <2>1, <2>2, <3>3
      <4>2. bindings'[b] = bindings[b]
        BY <1>1, <3>3
      <4>3. /\ listed[b] \in ListedRow
            /\ listed[b].older \subseteq listed[b].rivals
            /\ listed[b].alone => listed[b].active = bindings[b].active
        BY <1>2, <3>3 DEF ListInv, OlderAreRivals, ListedAuditShowsBinding
      <4> QED BY <4>1, <4>2, <4>3 DEF Without, ListedRow
    <3> QED BY <3>1, <3>2, <3>3
  <2> QED BY <2>2, <2>3 DEF OlderAreRivals, ListedAuditShowsBinding
<1> QED BY <1>4, <1>5

\* In the order of the timestamps, too, the audit rows of a binding end with its state,
\* as long as the request that wrote it last was not in progress when another wrote it.
THEOREM ListedAuditCorrect == SerialSpec => []ListedAuditShowsBinding
<1>1. SerialInit => IInv /\ ListInv
  <2> SUFFICES ASSUME SerialInit PROVE IInv /\ ListInv
    OBVIOUS
  <2>1. IInv
    BY InitEstablishes DEF SerialInit
  <2>2. BeganBefore
    BY DEF SerialInit, BeganBefore
  <2>3. OlderAreRivals /\ ListedAuditShowsBinding
    BY DEF SerialInit, Init, EmptyTable, OlderAreRivals, ListedAuditShowsBinding
  <2> QED BY <2>1, <2>2, <2>3 DEF ListInv
<1>2. ASSUME IInv, ListInv, SerialNext PROVE IInv' /\ ListInv'
  <2>1. PICK r \in Requests : Step(r) /\ began' = Timestamps(r) /\ listed' = Listing(r)
    BY <1>2 DEF SerialNext
  <2>2. IInv'
    BY <1>2, <2>1, StepPreserves
  <2> QED BY <1>2, <2>1, <2>2, BeganKept, ListKept DEF ListInv
<1>3. ASSUME IInv, ListInv, UNCHANGED svars PROVE IInv' /\ ListInv'
  BY <1>3 DEF svars, vars, IInv, TablesTyped, Consistent, OneBindingPerPair,
              AuditShowsBinding, ListInv, BeganBefore, OlderAreRivals, Opened,
              ListedAuditShowsBinding
<1>4. ListInv => ListedAuditShowsBinding
  BY DEF ListInv
<1> QED BY <1>1, <1>2, <1>3, <1>4, PTL DEF SerialSpec
=============================================================================
