------------------------- MODULE PropertyStoreProofs -------------------------
(***************************************************************************)
(* Proofs about PropertyStore for every number of tenants, properties,     *)
(* places and concurrent requests.                                         *)
(***************************************************************************)
EXTENDS PropertyStore, TableLemmas, FiniteSetTheorems

\* What a transaction that has written w reads of the committed rows.
Seen(w, stored) == [id \in DOMAIN stored \cup DOMAIN w |->
                       IF id \in DOMAIN w THEN w[id] ELSE stored[id]]

Distinct(v) ==
    \A i, j \in DOMAIN v :
        (i # j /\ v[i].place # None /\ v[i].tenant = v[j].tenant)
            => v[i].place # v[j].place

\* Two transactions have written different rows, with different places.
Apart(w, x) ==
    \A i \in DOMAIN w, j \in DOMAIN x :
        /\ i # j
        /\ (w[i].tenant = x[j].tenant /\ w[i].place # None) => w[i].place # x[j].place

\* A request's record fits its program point and what its transaction has written,
\* which is its tenant's and keeps places unique in all that it reads.
Consistent(q, w, stored) ==
    /\ q \in Request
    /\ IsTable(w, PropertyIds, Row)
    /\ q.pc = "idle" => DOMAIN w = {}
    /\ q.pc # "idle" => q.tenant \in Tenants
    /\ q.pc \in {"insert", "find", "write", "index"} => q.todo # <<>>
    /\ q.pc = "insert" => q.todo \in Seq(Places \cup {None})
    /\ q.pc \in {"write", "index"} =>
          /\ q.seen \in Row /\ q.object \in Row
          /\ Head(q.todo) \in DOMAIN stored \cup DOMAIN w
          /\ Seen(w, stored)[Head(q.todo)].tenant = q.tenant
    /\ q.pc = "index" => Head(q.todo) \in DOMAIN w
    /\ \A i \in DOMAIN q.results : q.results[i].id # None => q.results[i].after \in Row
    /\ \A id \in DOMAIN w :
          /\ w[id].tenant = q.tenant
          /\ id \in DOMAIN stored => stored[id].tenant = q.tenant
    /\ Distinct(Seen(w, stored))

\* The inductive invariant.
IInv ==
    /\ TypeOK
    /\ UniquePlaces
    /\ \A r \in Requests : Consistent(req[r], writes[r], rows)
    /\ \A q, r \in Requests : q # r => Apart(writes[q], writes[r])

-----------------------------------------------------------------------------
(* Rows and places.                                                        *)

\* Writing a row whose place no other row has keeps places unique.
LEMMA DistinctPut ==
    ASSUME NEW w, NEW stored, Distinct(Seen(w, stored)), NEW id, NEW row,
           \/ row.place = None
           \/ \A x \in DOMAIN Seen(w, stored) \ {id} :
                 ~(Seen(w, stored)[x].tenant = row.tenant /\ Seen(w, stored)[x].place = row.place)
    PROVE  Distinct(Seen(Put(w, id, row), stored))
<1> DEFINE v == Seen(w, stored)
           u == Seen(Put(w, id, row), stored)
<1>1. /\ DOMAIN u = DOMAIN v \cup {id}
      /\ u[id] = row
      /\ \A x \in DOMAIN v \ {id} : u[x] = v[x]
  BY DEF Seen, Put
<1> HIDE DEF u, v
<1> SUFFICES Distinct(u)
  BY DEF u
<1>2. /\ Distinct(v)
      /\ \/ row.place = None
         \/ \A x \in DOMAIN v \ {id} : ~(v[x].tenant = row.tenant /\ v[x].place = row.place)
  BY DEF v
<1> QED BY <1>1, <1>2 DEF Distinct

\* What one transaction commits does not disturb another one.
LEMMA DistinctCommit ==
    ASSUME NEW w, NEW x, NEW stored, Distinct(Seen(w, stored)), Distinct(Seen(x, stored)),
           Apart(w, x)
    PROVE  Distinct(Seen(x, Seen(w, stored)))
<1> DEFINE a == Seen(w, stored)
           b == Seen(x, stored)
           c == Seen(x, Seen(w, stored))
<1>1. /\ DOMAIN c = DOMAIN stored \cup DOMAIN w \cup DOMAIN x
      /\ DOMAIN a = DOMAIN stored \cup DOMAIN w
      /\ DOMAIN b = DOMAIN stored \cup DOMAIN x
  BY DEF Seen
<1>2. \A i \in DOMAIN c : c[i] = IF i \in DOMAIN x THEN x[i] ELSE a[i]
  BY DEF Seen
<1>3. \A i \in DOMAIN a : a[i] = IF i \in DOMAIN w THEN w[i] ELSE stored[i]
  BY DEF Seen
<1>4. \A i \in DOMAIN b : b[i] = IF i \in DOMAIN x THEN x[i] ELSE stored[i]
  BY DEF Seen
<1>5. Distinct(a) /\ Distinct(b)
  OBVIOUS
<1> HIDE DEF a, b, c
<1> SUFFICES ASSUME NEW i \in DOMAIN c, NEW j \in DOMAIN c, i # j,
                    c[i].place # None, c[i].tenant = c[j].tenant
             PROVE  c[i].place # c[j].place
  BY DEF c, Distinct
<1>6. CASE i \notin DOMAIN x /\ j \notin DOMAIN x
  BY <1>1, <1>2, <1>5, <1>6 DEF Distinct
<1>7. CASE i \in DOMAIN b /\ j \in DOMAIN b /\ c[i] = b[i] /\ c[j] = b[j]
  BY <1>5, <1>7 DEF Distinct
<1>8. CASE i \in DOMAIN x /\ j \in DOMAIN w /\ j \notin DOMAIN x
  BY <1>1, <1>2, <1>3, <1>8 DEF Apart
<1>9. CASE j \in DOMAIN x /\ i \in DOMAIN w /\ i \notin DOMAIN x
  BY <1>1, <1>2, <1>3, <1>9 DEF Apart
<1> QED BY <1>1, <1>2, <1>3, <1>4, <1>6, <1>7, <1>8, <1>9

\* Apart does not depend on the order.
LEMMA ApartSymmetric == ASSUME NEW w, NEW x, Apart(w, x) PROVE Apart(x, w)
BY DEF Apart

\* A row added to what a transaction has written stays apart from what another has.
LEMMA ApartPut ==
    ASSUME NEW w, NEW x, Apart(w, x), NEW id, id \notin DOMAIN x, NEW row,
           \/ row.place = None
           \/ \A j \in DOMAIN x : ~(x[j].tenant = row.tenant /\ x[j].place = row.place)
    PROVE  Apart(Put(w, id, row), x)
BY DEF Apart, Put

-----------------------------------------------------------------------------
(* The steps of a request.                                                 *)

\* The invariant at the start.
LEMMA InitEstablishes == Init => IInv
<1> SUFFICES ASSUME Init PROVE IInv
  OBVIOUS
<1>1. /\ IsTable(EmptyTable, PropertyIds, Row) /\ DOMAIN EmptyTable = {}
      /\ Distinct(Seen(EmptyTable, EmptyTable)) /\ Apart(EmptyTable, EmptyTable)
  BY DEF EmptyTable, IsTable, Distinct, Seen, Apart
<1>2. Idle \in Request /\ Idle.pc = "idle" /\ DOMAIN Idle.results = {}
  BY DEF Idle, Request
<1>3. Consistent(Idle, EmptyTable, EmptyTable)
  BY <1>1, <1>2 DEF Consistent
<1>4. /\ rows = EmptyTable /\ trail = EmptyTable
      /\ \A r \in Requests : writes[r] = EmptyTable /\ req[r] = Idle
      /\ DOMAIN writes = Requests /\ req \in [Requests -> Request]
  BY <1>2 DEF Init
<1> QED BY <1>1, <1>3, <1>4 DEF IInv, TypeOK, UniquePlaces

\* A step of one request that commits nothing.
LEMMA WorkStep ==
    ASSUME IInv, NEW r \in Requests, NEW q, NEW w,
           req' = [req EXCEPT ![r] = q],
           DOMAIN writes' = Requests, writes'[r] = w,
           \A x \in Requests \ {r} : writes'[x] = writes[x],
           UNCHANGED <<rows, trail>>, Consistent(q, w, rows),
           \A x \in Requests \ {r} : Apart(w, writes[x])
    PROVE  IInv'
<1>1. /\ req'[r] = q /\ writes'[r] = w
      /\ \A x \in Requests \ {r} : req'[x] = req[x] /\ writes'[x] = writes[x]
  BY DEF IInv, TypeOK
<1>2. \A x \in Requests : Consistent(req'[x], writes'[x], rows')
  BY <1>1 DEF IInv
<1>3. \A x, y \in Requests : x # y => Apart(writes'[x], writes'[y])
  BY <1>1, ApartSymmetric DEF IInv
<1>4. TypeOK'
  <2>1. \A x \in Requests : req'[x] \in Request /\ IsTable(writes'[x], PropertyIds, Row)
    BY <1>2 DEF Consistent
  <2> QED BY <2>1 DEF IInv, TypeOK
<1>5. UniquePlaces'
  BY DEF IInv, UniquePlaces
<1> QED BY <1>2, <1>3, <1>4, <1>5 DEF IInv, Consistent

\* A step of one request that writes nothing.
LEMMA ReadStep ==
    ASSUME IInv, NEW r \in Requests, NEW q, req' = [req EXCEPT ![r] = q],
           UNCHANGED <<rows, trail, writes>>, Consistent(q, writes[r], rows)
    PROVE  IInv'
<1>1. /\ DOMAIN writes' = Requests /\ writes'[r] = writes[r]
      /\ \A x \in Requests \ {r} : writes'[x] = writes[x]
  BY DEF IInv, TypeOK
<1>2. \A x \in Requests \ {r} : Apart(writes[r], writes[x])
  BY DEF IInv
<1> QED BY <1>1, <1>2, WorkStep

\* A request ends and what it has written is lost.
LEMMA LossStep ==
    ASSUME IInv, NEW r \in Requests, Answer(r), UNCHANGED <<rows, trail>>
    PROVE  IInv'
<1>1. IsTable(EmptyTable, PropertyIds, Row) /\ DOMAIN EmptyTable = {}
  BY DEF EmptyTable, IsTable
<1>2. Distinct(Seen(EmptyTable, rows))
  BY <1>1 DEF IInv, UniquePlaces, Distinct, Seen
<1>3. Consistent(Idle, EmptyTable, rows)
  BY <1>1, <1>2 DEF Consistent, Idle, Request
<1>4. \A x \in Requests \ {r} : Apart(EmptyTable, writes[x])
  BY <1>1 DEF Apart
<1>5. /\ DOMAIN writes' = Requests /\ writes'[r] = EmptyTable
      /\ \A x \in Requests \ {r} : writes'[x] = writes[x]
  BY DEF Answer, IInv, TypeOK
<1> QED BY <1>3, <1>4, <1>5, WorkStep DEF Answer

-----------------------------------------------------------------------------
(* The report of an item.                                                  *)

\* The record after the report of an item.
Reporting(q, result, next) ==
    [q EXCEPT !.todo = Tail(@),
              !.results = Append(@, result),
              !.pc = IF Len(q.todo) = 1 THEN "commit" ELSE next,
              !.seen = None, !.object = None]

\* The report of an item leaves a record that fits the program point of the next one.
LEMMA ReportFits ==
    ASSUME NEW q, NEW w, NEW stored, NEW result \in Result, NEW next \in {"insert", "find"},
           q \in Request, q.todo # <<>>, q.tenant \in Tenants,
           next = "insert" => q.todo \in Seq(Places \cup {None}),
           \A i \in DOMAIN q.results : q.results[i].id # None => q.results[i].after \in Row,
           result.id # None => result.after \in Row,
           IsTable(w, PropertyIds, Row),
           \A id \in DOMAIN w :
              /\ w[id].tenant = q.tenant
              /\ id \in DOMAIN stored => stored[id].tenant = q.tenant,
           Distinct(Seen(w, stored))
    PROVE  Consistent(Reporting(q, result, next), w, stored)
<1> DEFINE n == Reporting(q, result, next)
           pc == IF Len(q.todo) = 1 THEN "commit" ELSE next
           Items == Places \cup PropertyIds \cup {None}
<1>1. q.todo \in Seq(Items) /\ q.results \in Seq(Result)
  BY DEF Request
<1>2. Tail(q.todo) \in Seq(Items) /\ Append(q.results, result) \in Seq(Result)
  BY <1>1
<1>3. pc \in {"commit", "insert", "find"}
  OBVIOUS
<1>4. /\ n \in Request
      /\ n.todo = Tail(q.todo) /\ n.results = Append(q.results, result)
      /\ n.pc = pc /\ n.tenant = q.tenant
  BY <1>2, <1>3 DEF Reporting, Request
<1>5. pc # "commit" => Tail(q.todo) # <<>>
  <2>1. CASE Len(q.todo) = 1
    BY <2>1
  <2>2. CASE Len(q.todo) # 1
    <3>1. Len(q.todo) \in Nat /\ Len(q.todo) # 0
      BY <1>1
    <3>2. Len(Tail(q.todo)) = Len(q.todo) - 1
      BY <1>1, <3>1
    <3>3. Len(Tail(q.todo)) # 0
      BY <2>2, <3>1, <3>2
    <3>4. Len(<<>>) = 0
      OBVIOUS
    <3> QED BY <3>3, <3>4, Zenon
  <2> QED BY <2>1, <2>2
<1>6. pc = "insert" => Tail(q.todo) \in Seq(Places \cup {None})
  BY <1>3
<1>7. \A i \in DOMAIN Append(q.results, result) :
         Append(q.results, result)[i].id # None => Append(q.results, result)[i].after \in Row
  BY <1>1
<1> HIDE DEF n, pc
<1> QED BY <1>3, <1>4, <1>5, <1>6, <1>7 DEF Consistent, n

\* Report is the step to that record.
LEMMA ReportIs ==
    ASSUME IInv, NEW r \in Requests, NEW result, NEW next, Report(r, result, next)
    PROVE  req' = [req EXCEPT ![r] = Reporting(req[r], result, next)]
BY DEF Report, Reporting, IInv, TypeOK

-----------------------------------------------------------------------------
(* The actions.                                                            *)

\* A request arrives.
LEMMA StartStep ==
    ASSUME IInv, NEW r \in Requests, Start(r)
    PROVE  IInv'
<1>1. PICK t \in Tenants :
        \/ \E kind \in Creating, places \in Batches(Places \cup {None}) :
               StartCreate(r, kind, t, places)
        \/ \E id \in PropertyIds, place \in Places \cup {None}, active \in BOOLEAN :
               StartUpdate(r, t, id, place, active)
        \/ \E kind \in Switching, ids \in Batches(PropertyIds) :
               IsInjective(ids) /\ StartSwitch(r, kind, t, ids)
  BY DEF Start
<1>2. /\ req[r].pc = "idle" /\ DOMAIN writes[r] = {} /\ IsTable(writes[r], PropertyIds, Row)
      /\ IsTable(rows, PropertyIds, Row)
      /\ Distinct(Seen(writes[r], rows)) /\ UNCHANGED <<rows, trail>>
  BY <1>1 DEF StartCreate, StartUpdate, StartSwitch, IInv, Consistent, TypeOK
<1>3. ASSUME NEW kind \in Kinds, NEW pc \in {"insert", "find", "write"},
             NEW todo \in Seq(Places \cup PropertyIds \cup {None}), todo # <<>>,
             NEW seen \in Row \cup {None}, NEW object \in Row \cup {None},
             pc = "insert" => todo \in Seq(Places \cup {None}),
             pc = "write" => /\ seen \in Row /\ object \in Row /\ Head(todo) \in DOMAIN rows
                             /\ rows[Head(todo)].tenant = t,
             req' = [req EXCEPT ![r] = Running(kind, pc, t, todo, seen, object)],
             UNCHANGED writes
      PROVE  IInv'
  <2> DEFINE q == Running(kind, pc, t, todo, seen, object)
  <2>1. /\ q \in Request
        /\ q.pc = pc /\ q.tenant = t /\ q.todo = todo /\ q.seen = seen /\ q.object = object
        /\ q.results = <<>>
    BY DEF Running, Request
  <2> HIDE DEF q
  <2>2. Consistent(q, writes[r], rows)
    BY <1>2, <1>3, <2>1 DEF Consistent, Seen
  <2> QED BY <1>2, <1>3, <2>2, ReadStep DEF q
<1>4. ASSUME NEW S, NEW batch \in Batches(S) PROVE batch \in Seq(S) /\ batch # <<>>
  <2>1. PICK n \in 1..MaxBatch : batch \in [1..n -> S]
    BY <1>4 DEF Batches
  <2>2. n \in Nat /\ batch \in Seq(S) /\ Len(batch) = n /\ n # 0
    BY <2>1, PropertyConstants
  <2> QED BY <2>2
<1>5. ASSUME NEW kind \in Creating, NEW places \in Batches(Places \cup {None}),
             StartCreate(r, kind, t, places)
      PROVE  IInv'
  <2>1. places \in Seq(Places \cup {None}) /\ places # <<>>
    BY <1>4
  <2>2. places \in Seq(Places \cup PropertyIds \cup {None})
    BY <2>1
  <2> QED BY <1>3, <1>5, <2>1, <2>2 DEF StartCreate, Kinds
<1>6. ASSUME NEW id \in PropertyIds, NEW place \in Places \cup {None}, NEW active \in BOOLEAN,
             StartUpdate(r, t, id, place, active)
      PROVE  IInv'
  <2>1. CASE Answer(r)
    BY <1>2, <2>1, LossStep
  <2>2. CASE Owned(r, t, id) /\ ~Answer(r)
    <3>1. id \in DOMAIN rows /\ rows[id] \in Row /\ rows[id].tenant = t
      BY <1>2, <2>2 DEF Owned, View, IsTable
    <3>2. [rows[id] EXCEPT !.place = place, !.active = active] \in Row
      BY <3>1 DEF Row
    <3>3. /\ <<id>> \in Seq(Places \cup PropertyIds \cup {None})
          /\ <<id>> # <<>> /\ Head(<<id>>) = id
      OBVIOUS
    <3>4. /\ req' = [req EXCEPT ![r] = Running("update", "write", t, <<id>>, rows[id],
                           [rows[id] EXCEPT !.place = place, !.active = active])]
          /\ UNCHANGED writes
      BY <1>6, <2>2 DEF StartUpdate
    <3> HIDE DEF Running
    <3> QED BY <1>3, <3>1, <3>2, <3>3, <3>4 DEF Kinds
  <2> QED BY <1>6, <2>1, <2>2 DEF StartUpdate
<1>7. ASSUME NEW kind \in Switching, NEW ids \in Batches(PropertyIds),
             StartSwitch(r, kind, t, ids)
      PROVE  IInv'
  <2>1. ids \in Seq(PropertyIds) /\ ids # <<>>
    BY <1>4
  <2>2. ids \in Seq(Places \cup PropertyIds \cup {None})
    BY <2>1
  <2> QED BY <1>3, <1>7, <2>1, <2>2 DEF StartSwitch, Kinds
<1> QED BY <1>1, <1>5, <1>6, <1>7

\* What a request that works knows of its record.
LEMMA WorkingOn ==
    ASSUME IInv, NEW r \in Requests, req[r].pc \in {"insert", "find", "write", "index"}
    PROVE  /\ Consistent(req[r], writes[r], rows) /\ req[r] \in Request
           /\ req[r].tenant \in Tenants /\ req[r].todo # <<>>
           /\ IsTable(rows, PropertyIds, Row) /\ IsTable(writes[r], PropertyIds, Row)
           /\ View(r) = Seen(writes[r], rows)
           /\ IsTable(View(r), PropertyIds, Row)
           /\ DOMAIN View(r) = DOMAIN rows \cup DOMAIN writes[r]
<1>1. Consistent(req[r], writes[r], rows) /\ IsTable(rows, PropertyIds, Row)
  BY DEF IInv, TypeOK
<1>2. View(r) = Seen(writes[r], rows)
  BY DEF View, Seen
<1> QED BY <1>1, <1>2 DEF Consistent, Seen, IsTable

\* A row is written and reported, or goes to the index.
LEMMA PutStep ==
    ASSUME IInv, NEW r \in Requests, req[r].pc \in {"insert", "write", "index"},
           NEW id \in PropertyIds, NEW row \in Row, row.tenant = req[r].tenant,
           id \in DOMAIN rows => rows[id].tenant = row.tenant,
           RowHolders(r, id) = {},
           \/ row.place = None
           \/ /\ ~PlaceTaken(r, row.tenant, row.place, id)
              /\ \A x \in Requests \ {r} : \A j \in DOMAIN writes[x] :
                    ~(writes[x][j].tenant = row.tenant /\ writes[x][j].place = row.place),
           writes' = [writes EXCEPT ![r] = Put(@, id, row)], UNCHANGED <<rows, trail>>,
           NEW q, req' = [req EXCEPT ![r] = q],
           Distinct(Seen(Put(writes[r], id, row), rows))
               => Consistent(q, Put(writes[r], id, row), rows)
    PROVE  IInv'
<1> DEFINE w == Put(writes[r], id, row)
<1>1. Distinct(Seen(w, rows))
  <2>1. \/ row.place = None
        \/ \A x \in DOMAIN View(r) \ {id} :
              ~(View(r)[x].tenant = row.tenant /\ View(r)[x].place = row.place)
    BY DEF PlaceTaken
  <2> QED BY <2>1, WorkingOn, DistinctPut DEF Consistent
<1>2. \A x \in Requests \ {r} : Apart(w, writes[x])
  <2> SUFFICES ASSUME NEW x \in Requests \ {r} PROVE Apart(w, writes[x])
    OBVIOUS
  <2>1. Apart(writes[r], writes[x]) /\ id \notin DOMAIN writes[x]
    BY DEF IInv, RowHolders
  <2> QED BY <2>1, ApartPut
<1>3. /\ DOMAIN writes' = Requests /\ writes'[r] = w
      /\ \A x \in Requests \ {r} : writes'[x] = writes[x]
  BY DEF IInv, TypeOK
<1> HIDE DEF w
<1> QED BY <1>1, <1>2, <1>3, WorkStep DEF w

\* A request reports an item and has written w.
LEMMA WorkingFits ==
    ASSUME IInv, NEW r \in Requests, req[r].pc \in {"insert", "find", "write", "index"},
           NEW w, IsTable(w, PropertyIds, Row), Distinct(Seen(w, rows)),
           \A id \in DOMAIN w :
              /\ w[id].tenant = req[r].tenant
              /\ id \in DOMAIN rows => rows[id].tenant = req[r].tenant,
           NEW result \in Result, result.id # None => result.after \in Row,
           NEW next \in {"insert", "find"}, next = "insert" => req[r].pc = "insert"
    PROVE  Consistent(Reporting(req[r], result, next), w, rows)
<1>1. Consistent(req[r], writes[r], rows) /\ req[r] \in Request
      /\ req[r].tenant \in Tenants /\ req[r].todo # <<>>
  BY WorkingOn
<1>2. \A i \in DOMAIN req[r].results :
         req[r].results[i].id # None => req[r].results[i].after \in Row
  BY <1>1 DEF Consistent
<1>3. next = "insert" => req[r].todo \in Seq(Places \cup {None})
  BY <1>1 DEF Consistent
<1> QED BY <1>1, <1>2, <1>3, ReportFits

\* A request reports an item and has written nothing for it.
LEMMA ReportStep ==
    ASSUME IInv, NEW r \in Requests, req[r].pc \in {"insert", "find", "write", "index"},
           NEW result \in Result, result.id # None => result.after \in Row,
           NEW next \in {"insert", "find"}, next = "insert" => req[r].pc = "insert",
           Report(r, result, next), UNCHANGED <<rows, trail, writes>>
    PROVE  IInv'
<1>1. /\ IsTable(writes[r], PropertyIds, Row) /\ Distinct(Seen(writes[r], rows))
      /\ \A id \in DOMAIN writes[r] :
            /\ writes[r][id].tenant = req[r].tenant
            /\ id \in DOMAIN rows => rows[id].tenant = req[r].tenant
  BY DEF IInv, Consistent
<1>2. Consistent(Reporting(req[r], result, next), writes[r], rows)
  BY <1>1, WorkingFits
<1>3. req' = [req EXCEPT ![r] = Reporting(req[r], result, next)]
  BY ReportIs
<1> QED BY <1>2, <1>3, ReadStep

\* What a transaction has written, with a row of its tenant, is typed and its tenant's.
LEMMA PutFits ==
    ASSUME IInv, NEW r \in Requests,
           NEW id \in PropertyIds, NEW row \in Row, row.tenant = req[r].tenant,
           id \in DOMAIN rows => rows[id].tenant = row.tenant
    PROVE  /\ IsTable(Put(writes[r], id, row), PropertyIds, Row)
           /\ DOMAIN Put(writes[r], id, row) = DOMAIN writes[r] \cup {id}
           /\ Put(writes[r], id, row)[id] = row
           /\ \A x \in DOMAIN Put(writes[r], id, row) :
                 /\ Put(writes[r], id, row)[x].tenant = req[r].tenant
                 /\ x \in DOMAIN rows => rows[x].tenant = req[r].tenant
<1>1. /\ IsTable(writes[r], PropertyIds, Row)
      /\ \A x \in DOMAIN writes[r] :
            /\ writes[r][x].tenant = req[r].tenant
            /\ x \in DOMAIN rows => rows[x].tenant = req[r].tenant
  BY DEF IInv, Consistent
<1> DEFINE w == Put(writes[r], id, row)
<1>2. IsTable(w, PropertyIds, Row)
  BY <1>1, PutIsTable
<1>3. /\ DOMAIN w = DOMAIN writes[r] \cup {id} /\ w[id] = row
      /\ \A x \in DOMAIN writes[r] : x # id => w[x] = writes[r][x]
  BY DEF Put
<1> HIDE DEF w
<1> SUFFICES ASSUME NEW x \in DOMAIN w
             PROVE  w[x].tenant = req[r].tenant
                    /\ (x \in DOMAIN rows => rows[x].tenant = req[r].tenant)
  BY <1>2, <1>3 DEF w
<1> QED BY <1>1, <1>3

\* An item of a creation.
LEMMA InsertStep ==
    ASSUME IInv, NEW r \in Requests, Insert(r)
    PROVE  IInv'
<1> DEFINE t == req[r].tenant
           p == Head(req[r].todo)
           new == [tenant |-> t, place |-> p, active |-> TRUE]
           result == [ok |-> TRUE, id |-> NewId, after |-> new]
           w == Put(writes[r], NewId, new)
<1>1. req[r].pc = "insert" /\ WaitsFor(r) = {} /\ Unused # {} /\ UNCHANGED <<rows, trail>>
  BY DEF Insert
<1>2. /\ t \in Tenants /\ p \in Places \cup {None}
  <2>1. req[r].todo \in Seq(Places \cup {None}) /\ req[r].todo # <<>> /\ t \in Tenants
    BY <1>1, WorkingOn DEF Consistent
  <2> QED BY <2>1
<1>3. CASE Answer(r)
  BY <1>1, <1>3, LossStep
<1>4. CASE ItemFails(r)
  <2>1. Failure \in Result /\ (Failure.id = None)
    BY DEF Failure, Result
  <2> QED BY <1>1, <1>4, <2>1, ReportStep DEF ItemFails
<1>5. CASE /\ ~PlaceTaken(r, t, p, None)
           /\ writes' = [writes EXCEPT ![r] = Put(@, NewId, new)]
           /\ Report(r, result, "insert")
  <2>1. NewId \in Unused
    BY <1>1 DEF NewId
  <2>2. /\ NewId \in PropertyIds /\ NewId \notin DOMAIN rows
        /\ \A x \in Requests : NewId \notin DOMAIN writes[x]
    BY <2>1 DEF Unused
  <2>3. new \in Row /\ new.tenant = t /\ new.place = p
    BY <1>2 DEF Row
  <2>4. result \in Result /\ result.after \in Row
    BY <2>2, <2>3 DEF Result
  <2> HIDE DEF new, result
  <2>5. /\ IsTable(w, PropertyIds, Row)
        /\ \A id \in DOMAIN w :
              /\ w[id].tenant = t
              /\ id \in DOMAIN rows => rows[id].tenant = t
    BY <2>2, <2>3, PutFits
  <2>6. Distinct(Seen(w, rows)) => Consistent(Reporting(req[r], result, "insert"), w, rows)
    BY <1>1, <2>4, <2>5, WorkingFits
  <2>7. RowHolders(r, NewId) = {}
    BY <2>2 DEF RowHolders
  <2>8. \/ p = None
        \/ /\ ~PlaceTaken(r, t, p, NewId)
           /\ \A x \in Requests \ {r} : \A j \in DOMAIN writes[x] :
                 ~(writes[x][j].tenant = t /\ writes[x][j].place = p)
    <3>1. PlaceHolders(r, t, p) = {}
      BY <1>1 DEF WaitsFor
    <3>2. DOMAIN View(r) \subseteq PropertyIds
      BY <1>1, WorkingOn DEF IsTable
    <3>3. ~PlaceTaken(r, t, p, NewId)
      BY <1>5, <3>2, PropertyConstants DEF PlaceTaken
    <3> QED BY <3>1, <3>3 DEF PlaceHolders
  <2>9. req' = [req EXCEPT ![r] = Reporting(req[r], result, "insert")]
    BY <1>5, ReportIs
  <2> QED BY <1>1, <1>5, <2>2, <2>3, <2>6, <2>7, <2>8, <2>9, PutStep
<1> QED BY <1>3, <1>4, <1>5 DEF Insert

\* An item of an activation or deactivation is looked up.
LEMMA FindStep ==
    ASSUME IInv, NEW r \in Requests, Find(r)
    PROVE  IInv'
<1> DEFINE id == Head(req[r].todo)
           wanted == req[r].kind = "activate"
<1>1. req[r].pc = "find" /\ UNCHANGED <<rows, trail>>
  BY DEF Find
<1>2. CASE Answer(r)
  BY <1>1, <1>2, LossStep
<1>3. CASE Report(r, Failure, "find") /\ UNCHANGED writes
  <2>1. Failure \in Result /\ Failure.id = None
    BY DEF Failure, Result
  <2> QED BY <1>1, <1>3, <2>1, ReportStep
<1>4. CASE Report(r, Unchanged, "find") /\ UNCHANGED writes
  <2>1. Unchanged \in Result /\ Unchanged.id = None
    BY DEF Unchanged, Result
  <2> QED BY <1>1, <1>4, <2>1, ReportStep
<1>5. CASE /\ Owned(r, req[r].tenant, id)
           /\ req' = [req EXCEPT ![r].seen = View(r)[id],
                                 ![r].object = [View(r)[id] EXCEPT !.active = wanted],
                                 ![r].pc = "write"]
           /\ UNCHANGED writes
  <2> DEFINE object == [View(r)[id] EXCEPT !.active = wanted]
             q == [req[r] EXCEPT !.seen = View(r)[id], !.object = object, !.pc = "write"]
  <2>1. /\ Consistent(req[r], writes[r], rows) /\ req[r] \in Request
        /\ req[r].tenant \in Tenants /\ req[r].todo # <<>>
        /\ IsTable(View(r), PropertyIds, Row) /\ View(r) = Seen(writes[r], rows)
        /\ DOMAIN View(r) = DOMAIN rows \cup DOMAIN writes[r]
    BY <1>1, WorkingOn
  <2>2. id \in DOMAIN View(r) /\ View(r)[id].tenant = req[r].tenant
    BY <1>5 DEF Owned
  <2>3. View(r)[id] \in Row
    BY <2>1, <2>2 DEF IsTable
  <2>4. object \in Row
    BY <2>3 DEF Row
  <2> HIDE DEF object
  <2>5. /\ q \in Request
        /\ q.pc = "write" /\ q.seen = View(r)[id] /\ q.object = object
        /\ q.todo = req[r].todo /\ q.tenant = req[r].tenant /\ q.results = req[r].results
    BY <2>1, <2>3, <2>4 DEF Request
  <2>6. req' = [req EXCEPT ![r] = q]
    BY <1>5, <2>1 DEF IInv, TypeOK, object
  <2> HIDE DEF q
  <2>7. Consistent(q, writes[r], rows)
    BY <2>1, <2>2, <2>3, <2>4, <2>5 DEF Consistent
  <2> QED BY <1>1, <1>5, <2>6, <2>7, ReadStep
<1> QED BY <1>2, <1>3, <1>4, <1>5 DEF Find

\* A changed row is written: its place is the one that it had.
LEMMA WriteStep ==
    ASSUME IInv, NEW r \in Requests, Write(r)
    PROVE  IInv'
<1> DEFINE id == Head(req[r].todo)
           row == Flushed(r, View(r)[id])
           result == [ok |-> TRUE, id |-> id, after |-> row]
           w == Put(writes[r], id, row)
<1>1. req[r].pc = "write" /\ UNCHANGED <<rows, trail>>
  BY DEF Write
<1>2. /\ Consistent(req[r], writes[r], rows) /\ req[r] \in Request
      /\ req[r].tenant \in Tenants /\ req[r].todo # <<>>
      /\ IsTable(View(r), PropertyIds, Row) /\ View(r) = Seen(writes[r], rows)
      /\ DOMAIN View(r) = DOMAIN rows \cup DOMAIN writes[r]
      /\ IsTable(rows, PropertyIds, Row)
  BY <1>1, WorkingOn
<1>3. /\ req[r].seen \in Row /\ req[r].object \in Row
      /\ id \in DOMAIN View(r) /\ View(r)[id].tenant = req[r].tenant
  BY <1>1, <1>2 DEF Consistent
<1>4. View(r)[id] \in Row /\ id \in PropertyIds
  BY <1>2, <1>3 DEF IsTable
<1>5. /\ row \in Row
      /\ row.tenant = View(r)[id].tenant /\ row.place = View(r)[id].place
  BY <1>3, <1>4 DEF Flushed, Row
<1>6. id \in DOMAIN rows => rows[id].tenant = row.tenant
  BY <1>2, <1>3, <1>5 DEF Consistent, Seen
<1> HIDE DEF row
<1>7. result \in Result /\ result.after \in Row
  BY <1>4, <1>5 DEF Result
<1>8. Written(r, row) => Report(r, result, "find")
  BY DEF Written, Snapshot
<1>9. CASE Written(r, row) /\ UNCHANGED writes
  <2> HIDE DEF result
  <2> QED BY <1>1, <1>7, <1>8, <1>9, ReportStep
<1>10. CASE /\ WaitsFor(r) = {}
            /\ writes' = [writes EXCEPT ![r] = Put(@, id, row)]
            /\ req' = [req EXCEPT ![r].pc = "index"] \/ Written(r, row)
  <2> HIDE DEF result
  <2>1. RowHolders(r, id) = {}
    BY <1>1, <1>10 DEF WaitsFor
  <2>2. \/ row.place = None
        \/ /\ ~PlaceTaken(r, row.tenant, row.place, id)
           /\ \A x \in Requests \ {r} : \A j \in DOMAIN writes[x] :
                 ~(writes[x][j].tenant = row.tenant /\ writes[x][j].place = row.place)
    <3> SUFFICES ASSUME row.place # None
                 PROVE  /\ ~PlaceTaken(r, row.tenant, row.place, id)
                        /\ \A x \in Requests \ {r} : \A j \in DOMAIN writes[x] :
                              ~(writes[x][j].tenant = row.tenant
                                  /\ writes[x][j].place = row.place)
      OBVIOUS
    <3>1. ~PlaceTaken(r, row.tenant, row.place, id)
      BY <1>2, <1>3, <1>5 DEF PlaceTaken, Consistent, Distinct
    <3>2. ASSUME NEW x \in Requests \ {r}, NEW j \in DOMAIN writes[x],
                 writes[x][j].tenant = row.tenant, writes[x][j].place = row.place
          PROVE  FALSE
      <4>1. id \notin DOMAIN writes[x]
        BY <2>1 DEF RowHolders
      <4>2. CASE id \in DOMAIN writes[r]
        <5>1. Apart(writes[r], writes[x]) /\ View(r)[id] = writes[r][id]
          BY <4>2 DEF IInv, View
        <5> QED BY <1>5, <3>2, <4>2, <5>1 DEF Apart
      <4>3. CASE id \notin DOMAIN writes[r]
        <5> DEFINE v == Seen(writes[x], rows)
        <5>1. id \in DOMAIN rows /\ View(r)[id] = rows[id]
          BY <1>2, <1>3, <4>3 DEF Seen
        <5>2. /\ id \in DOMAIN v /\ v[id] = rows[id]
              /\ j \in DOMAIN v /\ v[j] = writes[x][j]
          BY <3>2, <4>1, <5>1 DEF Seen
        <5>3. Distinct(v)
          BY DEF IInv, Consistent
        <5> HIDE DEF v
        <5> QED BY <1>5, <3>2, <4>1, <5>1, <5>2, <5>3 DEF Distinct
      <4> QED BY <4>2, <4>3
    <3> QED BY <3>1, <3>2
  <2>3. /\ IsTable(w, PropertyIds, Row) /\ id \in DOMAIN w /\ w[id] = row
        /\ DOMAIN w = DOMAIN writes[r] \cup {id}
        /\ \A x \in DOMAIN w :
              /\ w[x].tenant = req[r].tenant
              /\ x \in DOMAIN rows => rows[x].tenant = req[r].tenant
    <3>1. row.tenant = req[r].tenant
      BY <1>3, <1>5
    <3>2. id \in PropertyIds /\ row \in Row /\ (id \in DOMAIN rows => rows[id].tenant = row.tenant)
      BY <1>4, <1>5, <1>6
    <3> HIDE DEF id
    <3>3. /\ IsTable(w, PropertyIds, Row)
          /\ DOMAIN w = DOMAIN writes[r] \cup {id} /\ w[id] = row
          /\ \A x \in DOMAIN w :
                /\ w[x].tenant = req[r].tenant
                /\ x \in DOMAIN rows => rows[x].tenant = req[r].tenant
      BY <3>1, <3>2, PutFits
    <3> QED BY <3>3
  <2>4. CASE Written(r, row)
    <3>1. Distinct(Seen(w, rows)) => Consistent(Reporting(req[r], result, "find"), w, rows)
      BY <1>1, <1>7, <2>3, WorkingFits
    <3>2. req' = [req EXCEPT ![r] = Reporting(req[r], result, "find")]
      BY <1>8, <2>4, ReportIs
    <3> QED BY <1>1, <1>3, <1>4, <1>5, <1>6, <1>10, <2>1, <2>2, <3>1, <3>2, PutStep
  <2>5. CASE req' = [req EXCEPT ![r].pc = "index"]
    <3> DEFINE q == [req[r] EXCEPT !.pc = "index"]
    <3>1. /\ q \in Request
          /\ q.pc = "index" /\ q.seen = req[r].seen /\ q.object = req[r].object
          /\ q.todo = req[r].todo /\ q.tenant = req[r].tenant
          /\ q.results = req[r].results
      BY <1>2 DEF Request
    <3>2. req' = [req EXCEPT ![r] = q]
      BY <2>5 DEF IInv, TypeOK
    <3> HIDE DEF q, w
    <3>3. Seen(w, rows)[id].tenant = req[r].tenant
      BY <1>3, <1>5, <2>3 DEF Seen
    <3>4. ASSUME Distinct(Seen(w, rows)) PROVE Consistent(q, w, rows)
      BY <1>2, <1>3, <2>3, <3>1, <3>3, <3>4 DEF Consistent
    <3> QED BY <1>1, <1>3, <1>4, <1>5, <1>6, <1>10, <2>1, <2>2, <3>2, <3>4, PutStep DEF w
  <2> QED BY <1>10, <2>4, <2>5
<1>11. \/ Written(r, row) /\ UNCHANGED writes
       \/ /\ WaitsFor(r) = {}
          /\ writes' = [writes EXCEPT ![r] = Put(@, id, row)]
          /\ req' = [req EXCEPT ![r].pc = "index"] \/ Written(r, row)
  <2> HIDE DEF result
  <2> QED BY DEF Write, row
<1> QED BY <1>9, <1>10, <1>11

\* A new place is checked and written.
LEMMA IndexStep ==
    ASSUME IInv, NEW r \in Requests, Index(r)
    PROVE  IInv'
<1> DEFINE id == Head(req[r].todo)
           place == req[r].object.place
           row == [writes[r][id] EXCEPT !.place = place]
           result == [ok |-> TRUE, id |-> id, after |-> row]
           w == Put(writes[r], id, row)
<1>1. req[r].pc = "index" /\ WaitsFor(r) = {} /\ UNCHANGED <<rows, trail>>
  BY DEF Index
<1>2. /\ Consistent(req[r], writes[r], rows)
      /\ IsTable(View(r), PropertyIds, Row) /\ View(r) = Seen(writes[r], rows)
      /\ DOMAIN View(r) = DOMAIN rows \cup DOMAIN writes[r]
      /\ IsTable(writes[r], PropertyIds, Row)
  BY <1>1, WorkingOn
<1>3. /\ req[r].object \in Row /\ id \in DOMAIN writes[r]
      /\ writes[r][id].tenant = req[r].tenant
      /\ id \in DOMAIN rows => rows[id].tenant = req[r].tenant
  BY <1>1, <1>2 DEF Consistent
<1>4. writes[r][id] \in Row /\ id \in PropertyIds /\ place \in Places \cup {None}
  BY <1>2, <1>3 DEF IsTable, Row
<1>5. row \in Row /\ row.tenant = req[r].tenant /\ row.place = place
  BY <1>3, <1>4 DEF Row
<1>6. CASE Answer(r)
  BY <1>1, <1>6, LossStep
<1>7. CASE /\ ~PlaceTaken(r, req[r].tenant, place, id)
           /\ writes' = [writes EXCEPT ![r] = Put(@, id, row)]
           /\ Written(r, row)
  <2> HIDE DEF row, id
  <2>1. result \in Result /\ result.after \in Row
    BY <1>4, <1>5 DEF Result
  <2>2. Report(r, result, "find")
    BY <1>7 DEF Written, Snapshot, id
  <2> HIDE DEF result
  <2>3. /\ IsTable(w, PropertyIds, Row)
        /\ \A x \in DOMAIN w :
              /\ w[x].tenant = req[r].tenant
              /\ x \in DOMAIN rows => rows[x].tenant = req[r].tenant
    <3>1. /\ id \in PropertyIds /\ row \in Row /\ row.tenant = req[r].tenant
          /\ id \in DOMAIN rows => rows[id].tenant = row.tenant
      BY <1>3, <1>4, <1>5
    <3> QED BY <3>1, PutFits
  <2>4. Distinct(Seen(w, rows)) => Consistent(Reporting(req[r], result, "find"), w, rows)
    BY <1>1, <2>1, <2>3, WorkingFits
  <2>5. RowHolders(r, id) = {}
    BY <1>3 DEF RowHolders, IInv, Apart
  <2>6. PlaceHolders(r, req[r].tenant, place) = {}
    BY <1>1 DEF WaitsFor
  <2>7. place # None => \A x \in Requests \ {r} : \A j \in DOMAIN writes[x] :
                           ~(writes[x][j].tenant = req[r].tenant
                               /\ writes[x][j].place = place)
    BY <2>6 DEF PlaceHolders
  <2>8. req' = [req EXCEPT ![r] = Reporting(req[r], result, "find")]
    BY <2>2, ReportIs
  <2> QED BY <1>1, <1>3, <1>4, <1>5, <1>7, <2>4, <2>5, <2>7, <2>8, PutStep
<1> QED BY <1>6, <1>7 DEF Index

\* The commit: the others' rows and places stay apart from what is now stored.
LEMMA CommitStep ==
    ASSUME IInv, NEW r \in Requests, Commit(r)
    PROVE  IInv'
<1>1. /\ req[r].pc = "commit" /\ Answer(r)
      /\ rows' = Seen(writes[r], rows)
      /\ trail' = [id \in DOMAIN trail \cup ReportedIds(r) |->
                      IF id \in ReportedIds(r) THEN After(r, id) ELSE trail[id]]
  BY DEF Commit, View, Seen
<1>2. /\ req'[r] = Idle /\ writes'[r] = EmptyTable
      /\ DOMAIN writes' = Requests
      /\ \A x \in Requests \ {r} : req'[x] = req[x] /\ writes'[x] = writes[x]
  BY <1>1 DEF Answer, IInv, TypeOK
<1>3. Consistent(req[r], writes[r], rows) /\ IsTable(rows, PropertyIds, Row)
  BY DEF IInv, TypeOK
<1>4. /\ IsTable(rows', PropertyIds, Row)
      /\ DOMAIN rows' = DOMAIN rows \cup DOMAIN writes[r]
      /\ \A id \in DOMAIN rows' : rows'[id] = IF id \in DOMAIN writes[r]
                                              THEN writes[r][id] ELSE rows[id]
  BY <1>1, <1>3 DEF Consistent, Seen, IsTable
<1>5. IsTable(trail', PropertyIds, Row)
  <2>1. IsTable(trail, PropertyIds, Row)
    BY DEF IInv, TypeOK
  <2>2. ASSUME NEW id \in ReportedIds(r) PROVE id \in PropertyIds /\ After(r, id) \in Row
    <3>1. PICK i \in Reported(r) : req[r].results[i].id = id
      BY DEF ReportedIds
    <3> DEFINE k == CHOOSE j \in Reported(r) : req[r].results[j].id = id
    <3>2. k \in Reported(r) /\ req[r].results[k].id = id
      BY <3>1
    <3> HIDE DEF k
    <3>3. k \in DOMAIN req[r].results /\ id # None
      BY <3>2 DEF Reported
    <3>4. req[r].results[k] \in Result
      BY <1>3, <3>3 DEF Consistent, Request
    <3>5. id \in PropertyIds
      BY <3>2, <3>3, <3>4 DEF Result
    <3>6. req[r].results[k].after \in Row
      BY <1>3, <3>2, <3>3 DEF Consistent
    <3> QED BY <3>5, <3>6 DEF After, k
  <2> QED BY <1>1, <2>1, <2>2 DEF IsTable
<1>6. UniquePlaces'
  <2>1. Distinct(rows')
    BY <1>1, <1>3 DEF Consistent
  <2> QED BY <2>1 DEF Distinct, UniquePlaces
<1>7. ASSUME NEW x \in Requests PROVE Consistent(req'[x], writes'[x], rows')
  <2>1. CASE x = r
    <3>1. IsTable(EmptyTable, PropertyIds, Row) /\ DOMAIN EmptyTable = {}
      BY DEF EmptyTable, IsTable
    <3>2. Distinct(Seen(EmptyTable, rows'))
      BY <1>6, <3>1 DEF UniquePlaces, Distinct, Seen
    <3>3. Consistent(Idle, EmptyTable, rows')
      BY <3>1, <3>2 DEF Consistent, Idle, Request
    <3> QED BY <1>2, <2>1, <3>3
  <2>2. CASE x # r
    <3>1. Consistent(req[x], writes[x], rows) /\ Apart(writes[r], writes[x])
      BY <2>2 DEF IInv
    <3>2. Distinct(Seen(writes[x], rows'))
      BY <1>1, <1>3, <3>1, DistinctCommit DEF Consistent
    <3>3. \A id \in DOMAIN writes[x] :
             id \in DOMAIN rows' => rows'[id].tenant = req[x].tenant
      BY <1>4, <3>1 DEF Consistent, Apart
    <3>4. req[x].pc \in {"write", "index"} =>
             /\ Head(req[x].todo) \in DOMAIN rows' \cup DOMAIN writes[x]
             /\ Seen(writes[x], rows')[Head(req[x].todo)].tenant = req[x].tenant
      BY <1>3, <1>4, <3>1 DEF Consistent, Seen
    <3>5. Consistent(req[x], writes[x], rows')
      BY <3>1, <3>2, <3>3, <3>4 DEF Consistent
    <3> QED BY <1>2, <2>2, <3>5
  <2> QED BY <2>1, <2>2
<1>8. \A x, y \in Requests : x # y => Apart(writes'[x], writes'[y])
  <2>1. DOMAIN EmptyTable = {}
    BY DEF EmptyTable
  <2>2. \A x \in Requests : Apart(EmptyTable, writes'[x]) /\ Apart(writes'[x], EmptyTable)
    BY <2>1 DEF Apart
  <2> QED BY <1>2, <2>2 DEF IInv
<1>9. TypeOK'
  <2>1. \A x \in Requests : req'[x] \in Request /\ IsTable(writes'[x], PropertyIds, Row)
    BY <1>7 DEF Consistent
  <2>2. req' \in [Requests -> Request]
    BY <1>1, <2>1 DEF Answer, IInv, TypeOK
  <2> QED BY <1>2, <1>4, <1>5, <2>1, <2>2 DEF TypeOK
<1> QED BY <1>6, <1>7, <1>8, <1>9 DEF IInv, Consistent

\* Every step keeps the invariant.
LEMMA NextPreserves == IInv /\ [Next]_vars => IInv'
<1> SUFFICES ASSUME IInv, [Next]_vars PROVE IInv'
  OBVIOUS
<1>1. ASSUME NEW r \in Requests, Start(r) \/ Step(r) \/ Abort(r) PROVE IInv'
  <2>1. CASE DeadlockVictim(r) \/ Abort(r)
    BY <2>1, LossStep DEF DeadlockVictim, Abort
  <2> QED BY <1>1, <2>1, StartStep, InsertStep, FindStep, WriteStep, IndexStep, CommitStep
          DEF Step
<1>2. CASE UNCHANGED vars
  BY <1>2 DEF vars, IInv, TypeOK, UniquePlaces, Consistent
<1> QED BY <1>1, <1>2 DEF Next

\* The invariant holds throughout.
LEMMA Invariance == Spec => []IInv
BY InitEstablishes, NextPreserves, PTL DEF Spec

\* The tables, what transactions have written and the requests stay well typed,
\* whatever requests overlap.
THEOREM TypeCorrect == Spec => []TypeOK
<1>1. IInv => TypeOK
  BY DEF IInv
<1> QED BY <1>1, Invariance, PTL

\* No tenant ever has two properties with the same place: what the unique index sees
\* and the locks that a statement waits for suffice for any number of overlapping
\* single and bulk requests.
THEOREM PlacesAreUnique == Spec => []UniquePlaces
<1>1. IInv => UniquePlaces
  BY DEF IInv
<1> QED BY <1>1, Invariance, PTL

\* A property changes only by the commit of a request of its tenant, and never moves
\* to another tenant.
THEOREM TenantsAreApart == Spec => OwnPropertiesOnly
<1>1. ASSUME IInv, [Next]_vars, NEW id \in DOMAIN rows, rows'[id] # rows[id]
      PROVE  /\ rows'[id].tenant = rows[id].tenant
             /\ \E r \in Requests : req[r].tenant = rows[id].tenant /\ req[r].pc = "commit"
  <2>1. PICK r \in Requests : Commit(r)
    BY <1>1 DEF Next, vars, Start, StartCreate, StartUpdate, StartSwitch, Step, Insert, Find,
                Write, Index, DeadlockVictim, Abort
  <2>2. Consistent(req[r], writes[r], rows)
    BY <1>1 DEF IInv
  <2>3. rows'[id] = IF id \in DOMAIN writes[r] THEN writes[r][id] ELSE rows[id]
    BY <1>1, <2>1 DEF Commit, View
  <2> QED BY <1>1, <2>1, <2>2, <2>3 DEF Commit, Consistent
<1>2. IInv /\ [Next]_vars
        => [\A id \in DOMAIN rows :
               rows'[id] # rows[id]
                   => /\ rows'[id].tenant = rows[id].tenant
                      /\ \E r \in Requests : req[r].tenant = rows[id].tenant
                                             /\ req[r].pc = "commit"]_vars
  BY <1>1
<1> QED BY <1>2, Invariance, PTL DEF Spec, OwnPropertiesOnly

-----------------------------------------------------------------------------
\* The audit trail of the stored properties.

Noted(q, id) == \E i \in DOMAIN q.results : q.results[i].id = id

Distinguishes(todo) == \A i, j \in DOMAIN todo : todo[i] = todo[j] => i = j

\* What a transaction has written is what its request has noted, except for the row
\* of the item that it works on; that row and the next ones are not noted yet.
Audited(q, w) ==
    /\ \A id \in DOMAIN w : (q.pc = "index" /\ id = Head(q.todo)) \/ Noted(q, id)
    /\ \A i \in DOMAIN q.results :
          LET id == q.results[i].id
          IN  id # None =>
                 /\ id \in DOMAIN w => q.results[i].after = w[id]
                 /\ q.pc = "insert" => id \in DOMAIN w
                 /\ q.pc \in {"find", "write", "index"} =>
                       \A j \in DOMAIN q.todo : q.todo[j] # id
    /\ q.pc \in {"find", "write", "index"} => Distinguishes(q.todo)

AInv == \A r \in Requests : Audited(req[r], writes[r])

\* A step of one request leaves the others audited.
LEMMA AuditStep ==
    ASSUME IInv, AInv, NEW r \in Requests, NEW q, NEW w,
           req' = [req EXCEPT ![r] = q], writes' = [writes EXCEPT ![r] = w], Audited(q, w)
    PROVE  AInv'
<1>1. \A x \in Requests : Audited(req'[x], writes'[x])
  BY DEF IInv, TypeOK, AInv
<1> QED BY <1>1 DEF AInv, Audited, Noted, Distinguishes

\* A step of one request that writes nothing leaves the others audited.
LEMMA AuditReadStep ==
    ASSUME IInv, AInv, NEW r \in Requests, NEW q,
           req' = [req EXCEPT ![r] = q], UNCHANGED writes, Audited(q, writes[r])
    PROVE  AInv'
<1>1. \A x \in Requests : Audited(req'[x], writes'[x])
  BY DEF IInv, TypeOK, AInv
<1> QED BY <1>1 DEF AInv, Audited, Noted, Distinguishes

\* A request that ends has nothing left to note.
LEMMA AuditLossStep ==
    ASSUME IInv, AInv, NEW r \in Requests, Answer(r)
    PROVE  AInv'
<1>1. Audited(Idle, EmptyTable)
  BY DEF Audited, Idle, EmptyTable
<1> QED BY <1>1, AuditStep DEF Answer

\* The report of an item notes the row that was written for it.
LEMMA ReportNotes ==
    ASSUME NEW q, NEW w, NEW x, NEW result \in Result, NEW next \in {"insert", "find"},
           q \in Request, q.todo # <<>>, Audited(q, w),
           DOMAIN w \subseteq DOMAIN x, DOMAIN x \subseteq DOMAIN w \cup {result.id},
           \A id \in DOMAIN w : id # result.id => x[id] = w[id],
           (result.id # None /\ result.id \in DOMAIN x) => result.after = x[result.id],
           next = "insert" =>
              /\ q.pc = "insert"
              /\ result.id # None => result.id \in DOMAIN x /\ result.id \notin DOMAIN w,
           next = "find" =>
              /\ q.pc \in {"find", "write", "index"}
              /\ result.id # None => result.id = Head(q.todo),
           q.pc = "index" => result.id = Head(q.todo)
    PROVE  Audited(Reporting(q, result, next), x)
<1> DEFINE n == Reporting(q, result, next)
           pc == IF Len(q.todo) = 1 THEN "commit" ELSE next
           k == Len(q.results) + 1
<1>1. q.todo \in Seq(Places \cup PropertyIds \cup {None}) /\ q.results \in Seq(Result)
  BY DEF Request
<1>2. /\ n.todo = Tail(q.todo) /\ n.results = Append(q.results, result)
      /\ n.pc = pc
  BY DEF Reporting, Request
<1>3. /\ DOMAIN n.results = DOMAIN q.results \cup {k}
      /\ n.results[k] = result
      /\ \A i \in DOMAIN q.results : n.results[i] = q.results[i]
  BY <1>1, <1>2
<1>4. /\ Len(q.todo) \in Nat \ {0} /\ q.todo[1] = Head(q.todo) /\ 1 \in DOMAIN q.todo
      /\ \A j \in DOMAIN Tail(q.todo) : /\ j + 1 \in DOMAIN q.todo /\ j \in Nat /\ j # 0
                                        /\ Tail(q.todo)[j] = q.todo[j + 1]
  BY <1>1
<1>5. /\ pc \in {"find", "write", "index"} => next = "find"
      /\ pc = "insert" => next = "insert"
      /\ pc # "index"
  OBVIOUS
<1> HIDE DEF n, pc, k
<1>6. ASSUME NEW id \in DOMAIN x PROVE Noted(n, id)
  BY <1>3, <1>6 DEF Noted, Audited
<1>7. pc \in {"find", "write", "index"} => Distinguishes(n.todo)
  BY <1>2, <1>4, <1>5 DEF Audited, Distinguishes
<1>8. ASSUME NEW i \in DOMAIN n.results, n.results[i].id # None
      PROVE  /\ n.results[i].id \in DOMAIN x => n.results[i].after = x[n.results[i].id]
             /\ pc = "insert" => n.results[i].id \in DOMAIN x
             /\ pc \in {"find", "write", "index"} =>
                   \A j \in DOMAIN n.todo : n.todo[j] # n.results[i].id
  <2>1. CASE i = k
    <3>1. next = "find" => \A j \in DOMAIN n.todo : n.todo[j] # result.id
      BY <1>2, <1>3, <1>4, <1>8, <2>1 DEF Audited, Distinguishes
    <3> QED BY <1>3, <1>5, <1>8, <2>1, <3>1
  <2>2. CASE i \in DOMAIN q.results
    <3> DEFINE id == q.results[i].id
    <3>1. n.results[i] = q.results[i] /\ id # None
      BY <1>3, <1>8, <2>2
    <3>2. /\ id \in DOMAIN w => q.results[i].after = w[id]
          /\ q.pc = "insert" => id \in DOMAIN w
          /\ q.pc \in {"find", "write", "index"} => \A j \in DOMAIN q.todo : q.todo[j] # id
      BY <2>2, <3>1 DEF Audited
    <3>3. id # result.id
      BY <1>4, <3>1, <3>2
    <3>4. next = "find" => \A j \in DOMAIN n.todo : n.todo[j] # id
      BY <1>2, <1>4, <3>2
    <3> QED BY <1>5, <3>1, <3>2, <3>3, <3>4
  <2> QED BY <1>3, <2>1, <2>2
<1> QED BY <1>2, <1>6, <1>7, <1>8 DEF Audited, n

-----------------------------------------------------------------------------
(* The actions.                                                            *)

\* A request arrives: nothing is written and nothing noted.
LEMMA StartAudit ==
    ASSUME IInv, AInv, NEW r \in Requests, Start(r)
    PROVE  AInv'
<1>1. PICK t \in Tenants :
        \/ \E kind \in Creating, places \in Batches(Places \cup {None}) :
               StartCreate(r, kind, t, places)
        \/ \E id \in PropertyIds, place \in Places \cup {None}, active \in BOOLEAN :
               StartUpdate(r, t, id, place, active)
        \/ \E kind \in Switching, ids \in Batches(PropertyIds) :
               IsInjective(ids) /\ StartSwitch(r, kind, t, ids)
  BY DEF Start
<1>2. DOMAIN writes[r] = {}
  BY <1>1 DEF StartCreate, StartUpdate, StartSwitch, IInv, Consistent
<1>3. ASSUME NEW kind, NEW pc, NEW todo, NEW seen, NEW object,
             pc = "insert" \/ Distinguishes(todo),
             req' = [req EXCEPT ![r] = Running(kind, pc, t, todo, seen, object)],
             UNCHANGED writes
      PROVE  AInv'
  <2>1. Audited(Running(kind, pc, t, todo, seen, object), writes[r])
    BY <1>2, <1>3 DEF Audited, Running
  <2> HIDE DEF Running
  <2> QED BY <1>3, <2>1, AuditReadStep
<1>4. ASSUME NEW kind \in Creating, NEW places \in Batches(Places \cup {None}),
             StartCreate(r, kind, t, places)
      PROVE  AInv'
  BY <1>3, <1>4 DEF StartCreate
<1>5. ASSUME NEW id \in PropertyIds, NEW place \in Places \cup {None}, NEW active \in BOOLEAN,
             StartUpdate(r, t, id, place, active)
      PROVE  AInv'
  <2>1. Distinguishes(<<id>>)
    BY DEF Distinguishes
  <2> QED BY <1>3, <1>5, <2>1, AuditLossStep DEF StartUpdate
<1>6. ASSUME NEW kind \in Switching, NEW ids \in Batches(PropertyIds),
             IsInjective(ids), StartSwitch(r, kind, t, ids)
      PROVE  AInv'
  <2>1. Distinguishes(ids)
    BY <1>6 DEF IsInjective, Distinguishes
  <2> QED BY <1>3, <1>6, <2>1 DEF StartSwitch
<1> QED BY <1>1, <1>4, <1>5, <1>6

\* A creation notes the row that it inserts, whose key is new.
LEMMA InsertAudit ==
    ASSUME IInv, AInv, NEW r \in Requests, Insert(r)
    PROVE  AInv'
<1> DEFINE new == [tenant |-> req[r].tenant, place |-> Head(req[r].todo), active |-> TRUE]
           result == [ok |-> TRUE, id |-> NewId, after |-> new]
           w == Put(writes[r], NewId, new)
<1>1. /\ req[r].pc = "insert" /\ Unused # {}
      /\ req[r] \in Request /\ req[r].todo # <<>> /\ Audited(req[r], writes[r])
      /\ req[r].tenant \in Tenants /\ Consistent(req[r], writes[r], rows)
  BY WorkingOn DEF Insert, AInv
<1>2. CASE Answer(r)
  BY <1>2, AuditLossStep
<1>3. CASE ItemFails(r)
  <2>1. Failure \in Result /\ Failure.id = None
    BY DEF Failure, Result
  <2>2. Audited(Reporting(req[r], Failure, "insert"), writes[r])
    BY <1>1, <2>1, ReportNotes
  <2>3. req' = [req EXCEPT ![r] = Reporting(req[r], Failure, "insert")]
    BY <1>3, ReportIs DEF ItemFails
  <2> QED BY <1>3, <2>2, <2>3, AuditReadStep DEF ItemFails
<1>4. CASE writes' = [writes EXCEPT ![r] = Put(@, NewId, new)] /\ Report(r, result, "insert")
  <2>1. NewId \in Unused
    BY <1>1 DEF NewId
  <2>2. NewId \in PropertyIds /\ NewId \notin DOMAIN writes[r] /\ NewId # None
    BY <2>1, PropertyConstants DEF Unused
  <2>3. Head(req[r].todo) \in Places \cup {None}
    <3>1. req[r].todo \in Seq(Places \cup {None})
      BY <1>1 DEF Consistent
    <3> QED BY <1>1, <3>1
  <2>4. result \in Result
    BY <1>1, <2>2, <2>3 DEF Result, Row
  <2>5. /\ result.id = NewId /\ result.after = w[NewId]
        /\ DOMAIN w = DOMAIN writes[r] \cup {NewId}
        /\ \A id \in DOMAIN writes[r] : id # NewId => w[id] = writes[r][id]
    BY DEF Put
  <2> HIDE DEF result, w
  <2>6. Audited(Reporting(req[r], result, "insert"), w)
    BY <1>1, <2>2, <2>4, <2>5, ReportNotes
  <2>7. req' = [req EXCEPT ![r] = Reporting(req[r], result, "insert")]
    BY <1>4, ReportIs
  <2>8. writes' = [writes EXCEPT ![r] = w]
    BY <1>4 DEF w
  <2> QED BY <2>6, <2>7, <2>8, AuditStep
<1> QED BY <1>2, <1>3, <1>4 DEF Insert

\* An item that is looked up is not noted, or noted as unknown or unchanged.
LEMMA FindAudit ==
    ASSUME IInv, AInv, NEW r \in Requests, Find(r)
    PROVE  AInv'
<1> DEFINE id == Head(req[r].todo)
           wanted == req[r].kind = "activate"
<1>1. /\ req[r].pc = "find" /\ req[r] \in Request /\ req[r].todo # <<>>
      /\ Audited(req[r], writes[r])
  BY WorkingOn DEF Find, AInv
<1>2. CASE Answer(r)
  BY <1>2, AuditLossStep
<1>3. ASSUME NEW result \in {Failure, Unchanged}, Report(r, result, "find"), UNCHANGED writes
      PROVE  AInv'
  <2>1. result \in Result /\ result.id = None
    <3>1. Failure \in Result /\ Failure.id = None
      BY DEF Failure, Result
    <3>2. Unchanged \in Result /\ Unchanged.id = None
      BY DEF Unchanged, Result
    <3> QED BY <1>3, <3>1, <3>2
  <2>2. Audited(Reporting(req[r], result, "find"), writes[r])
    BY <1>1, <2>1, ReportNotes
  <2>3. req' = [req EXCEPT ![r] = Reporting(req[r], result, "find")]
    BY <1>3, ReportIs
  <2> QED BY <1>3, <2>2, <2>3, AuditReadStep
<1>4. CASE /\ req' = [req EXCEPT ![r].seen = View(r)[id],
                                 ![r].object = [View(r)[id] EXCEPT !.active = wanted],
                                 ![r].pc = "write"]
           /\ UNCHANGED writes
  <2> DEFINE q == [req[r] EXCEPT !.seen = View(r)[id],
                                 !.object = [View(r)[id] EXCEPT !.active = wanted],
                                 !.pc = "write"]
  <2>1. /\ q.pc = "write" /\ q.todo = req[r].todo /\ q.results = req[r].results
    BY <1>1 DEF Request
  <2>2. req' = [req EXCEPT ![r] = q]
    BY <1>4 DEF IInv, TypeOK
  <2> HIDE DEF q
  <2>3. Audited(q, writes[r])
    BY <1>1, <2>1 DEF Audited, Noted
  <2> QED BY <1>4, <2>2, <2>3, AuditReadStep
<1> QED BY <1>2, <1>3, <1>4 DEF Find

\* The row of the item that a request works on is written and noted.
LEMMA WrittenAudit ==
    ASSUME IInv, AInv, NEW r \in Requests, req[r].pc \in {"write", "index"},
           NEW row \in Row, Written(r, row),
           \/ writes' = [writes EXCEPT ![r] = Put(@, Head(req[r].todo), row)]
           \/ /\ UNCHANGED writes /\ req[r].pc = "write"
              /\ Head(req[r].todo) \in DOMAIN writes[r] => row = writes[r][Head(req[r].todo)]
    PROVE  AInv'
<1> DEFINE id == Head(req[r].todo)
           result == [ok |-> TRUE, id |-> id, after |-> row]
           w == Put(writes[r], id, row)
<1>1. /\ req[r] \in Request /\ req[r].todo # <<>> /\ Audited(req[r], writes[r])
      /\ Consistent(req[r], writes[r], rows)
      /\ IsTable(View(r), PropertyIds, Row)
      /\ DOMAIN View(r) = DOMAIN rows \cup DOMAIN writes[r]
  BY WorkingOn DEF AInv
<1>2. id \in PropertyIds
  BY <1>1 DEF Consistent, IsTable
<1>3. result \in Result /\ result.id = id /\ result.after = row
  BY <1>2 DEF Result
<1>4. Report(r, result, "find")
  BY DEF Written, Snapshot
<1> HIDE DEF result, id
<1>5. req' = [req EXCEPT ![r] = Reporting(req[r], result, "find")]
  BY <1>4, ReportIs
<1>6. CASE writes' = [writes EXCEPT ![r] = w]
  <2>1. /\ DOMAIN w = DOMAIN writes[r] \cup {id} /\ w[id] = row
        /\ \A x \in DOMAIN writes[r] : x # id => w[x] = writes[r][x]
    BY DEF Put
  <2> HIDE DEF w
  <2>2. Audited(Reporting(req[r], result, "find"), w)
    BY <1>1, <1>3, <2>1, ReportNotes DEF id
  <2> QED BY <1>5, <1>6, <2>2, AuditStep
<1>7. CASE /\ UNCHANGED writes /\ req[r].pc = "write"
           /\ id \in DOMAIN writes[r] => row = writes[r][id]
  <2>1. Audited(Reporting(req[r], result, "find"), writes[r])
    BY <1>1, <1>3, <1>7, ReportNotes DEF id
  <2> QED BY <1>5, <1>7, <2>1, AuditReadStep
<1> QED BY <1>6, <1>7 DEF id

\* A changed row is written, and noted unless its new place is still to be checked.
LEMMA WriteAudit ==
    ASSUME IInv, AInv, NEW r \in Requests, Write(r)
    PROVE  AInv'
<1> DEFINE id == Head(req[r].todo)
           row == Flushed(r, View(r)[id])
           w == Put(writes[r], id, row)
<1>1. /\ req[r].pc = "write" /\ req[r] \in Request /\ req[r].todo # <<>>
      /\ Audited(req[r], writes[r]) /\ Consistent(req[r], writes[r], rows)
      /\ IsTable(View(r), PropertyIds, Row)
      /\ DOMAIN View(r) = DOMAIN rows \cup DOMAIN writes[r]
  BY WorkingOn DEF Write, AInv
<1>2. id \in DOMAIN View(r) /\ View(r)[id] \in Row /\ req[r].object \in Row
  BY <1>1 DEF Consistent, IsTable
<1>3. row \in Row
  BY <1>2 DEF Flushed, Row
<1>4. CASE ~Changed("active", r) /\ ~Changed("place", r)
  <2>1. Written(r, row) /\ UNCHANGED writes
    BY <1>4 DEF Write
  <2>2. row = View(r)[id]
    BY <1>4 DEF Flushed
  <2>3. id \in DOMAIN writes[r] => row = writes[r][id]
    BY <2>2 DEF View
  <2> HIDE DEF row
  <2> QED BY <1>1, <1>3, <2>1, <2>3, WrittenAudit
<1>5. CASE Changed("active", r) \/ Changed("place", r)
  <2>1. /\ writes' = [writes EXCEPT ![r] = w]
        /\ IF Changed("place", r) THEN req' = [req EXCEPT ![r].pc = "index"]
                                  ELSE Written(r, row)
    BY <1>5 DEF Write
  <2> HIDE DEF row
  <2>2. CASE Written(r, row)
    BY <1>1, <1>3, <2>1, <2>2, WrittenAudit
  <2>3. CASE req' = [req EXCEPT ![r].pc = "index"]
    <3> DEFINE q == [req[r] EXCEPT !.pc = "index"]
    <3>1. /\ q.pc = "index" /\ q.todo = req[r].todo /\ q.results = req[r].results
      BY <1>1 DEF Request
    <3>2. req' = [req EXCEPT ![r] = q]
      BY <2>3 DEF IInv, TypeOK
    <3>3. /\ DOMAIN w = DOMAIN writes[r] \cup {id}
          /\ \A x \in DOMAIN writes[r] : x # id => w[x] = writes[r][x]
      BY DEF Put
    <3>4. \E j \in DOMAIN req[r].todo : req[r].todo[j] = id
      <4>1. req[r].todo \in Seq(Places \cup PropertyIds \cup {None})
        BY <1>1 DEF Request
      <4>2. 1 \in DOMAIN req[r].todo /\ req[r].todo[1] = id
        BY <1>1, <4>1
      <4> QED BY <4>2
    <3> HIDE DEF q, w, id
    <3>5. \A i \in DOMAIN q.results :
             q.results[i].id # None =>
                /\ \A j \in DOMAIN q.todo : q.todo[j] # q.results[i].id
                /\ q.results[i].id # id
                /\ q.results[i].id \in DOMAIN w => q.results[i].after = w[q.results[i].id]
      BY <1>1, <3>1, <3>3, <3>4 DEF Audited
    <3>6. \A x \in DOMAIN w : x = id \/ Noted(q, x)
      BY <1>1, <3>1, <3>3 DEF Audited, Noted
    <3>7. Distinguishes(q.todo) /\ Head(q.todo) = id
      BY <1>1, <3>1 DEF Audited, id
    <3>8. Audited(q, w)
      BY <3>1, <3>5, <3>6, <3>7 DEF Audited
    <3> QED BY <2>1, <3>2, <3>8, AuditStep
  <2> QED BY <2>1, <2>2, <2>3
<1> QED BY <1>4, <1>5

\* A new place that is free is written and noted.
LEMMA IndexAudit ==
    ASSUME IInv, AInv, NEW r \in Requests, Index(r)
    PROVE  AInv'
<1> DEFINE id == Head(req[r].todo)
           place == req[r].object.place
           row == [writes[r][id] EXCEPT !.place = place]
<1>1. req[r].pc = "index"
  BY DEF Index
<1>2. Consistent(req[r], writes[r], rows)
  BY DEF IInv
<1>3. row \in Row
  BY <1>1, <1>2 DEF Consistent, IsTable, Row
<1>4. \/ Answer(r)
      \/ Written(r, row) /\ writes' = [writes EXCEPT ![r] = Put(@, id, row)]
  BY DEF Index
<1> HIDE DEF row
<1> QED BY <1>1, <1>3, <1>4, AuditLossStep, WrittenAudit

\* Every step keeps the requests' notes true.
LEMMA AuditPreserved == IInv /\ AInv /\ [Next]_vars => AInv'
<1> SUFFICES ASSUME IInv, AInv, [Next]_vars PROVE AInv'
  OBVIOUS
<1>1. ASSUME NEW r \in Requests, Start(r) \/ Step(r) \/ Abort(r) PROVE AInv'
  <2>1. CASE DeadlockVictim(r) \/ Abort(r) \/ Commit(r)
    BY <2>1, AuditLossStep DEF DeadlockVictim, Abort, Commit
  <2> QED BY <1>1, <2>1, StartAudit, InsertAudit, FindAudit, WriteAudit, IndexAudit DEF Step
<1>2. CASE UNCHANGED vars
  BY <1>2 DEF vars, AInv, Audited, Noted, Distinguishes
<1> QED BY <1>1, <1>2 DEF Next

\* At the start there are no notes.
LEMMA AuditInit == Init => AInv
<1> SUFFICES ASSUME Init, NEW r \in Requests PROVE Audited(req[r], writes[r])
  BY DEF AInv
<1>1. req[r] = Idle /\ writes[r] = EmptyTable
  BY DEF Init
<1> QED BY <1>1 DEF Audited, Idle, EmptyTable

\* The commit of a request stores exactly the rows that it has noted.
LEMMA CommitShows ==
    ASSUME IInv, AInv, NEW r \in Requests, Commit(r), NEW id \in DOMAIN rows',
           id \in DOMAIN rows => rows'[id] # rows[id]
    PROVE  id \in DOMAIN trail' /\ trail'[id] = rows'[id]
<1>1. /\ Audited(req[r], writes[r]) /\ Consistent(req[r], writes[r], rows)
      /\ req[r].pc = "commit"
  BY DEF AInv, IInv, Commit
<1>2. id \in DOMAIN writes[r] /\ rows'[id] = writes[r][id]
  BY DEF Commit, View
<1>3. id # None
  BY <1>1, <1>2, PropertyConstants DEF Consistent, IsTable
<1>4. Noted(req[r], id)
  BY <1>1, <1>2 DEF Audited
<1>5. id \in ReportedIds(r)
  BY <1>3, <1>4 DEF Noted, Reported, ReportedIds
<1> DEFINE k == CHOOSE j \in Reported(r) : req[r].results[j].id = id
<1>6. k \in Reported(r) /\ req[r].results[k].id = id
  BY <1>3, <1>4 DEF Noted, Reported
<1> HIDE DEF k
<1>7. req[r].results[k].after = writes[r][id]
  BY <1>1, <1>2, <1>3, <1>6 DEF Audited, Reported
<1>8. After(r, id) = writes[r][id]
  BY <1>7 DEF After, k
<1> QED BY <1>2, <1>5, <1>8 DEF Commit

\* Every committed change of a property, single or in a batch, is in the audit trail
\* with the row as the commit stores it, although other requests have committed since
\* the property was loaded.
THEOREM EveryChangeIsAudited == Spec => ChangesAreAudited
<1>1. ASSUME IInv, AInv, [Next]_vars, NEW id \in DOMAIN rows',
             id \in DOMAIN rows => rows'[id] # rows[id]
      PROVE  id \in DOMAIN trail' /\ trail'[id] = rows'[id]
  <2>1. CASE UNCHANGED rows
    BY <1>1, <2>1
  <2>2. ASSUME NEW r \in Requests, Commit(r)
        PROVE  id \in DOMAIN trail' /\ trail'[id] = rows'[id]
    BY <1>1, <2>2, CommitShows
  <2> QED BY <1>1, <2>1, <2>2 DEF Next, vars, Start, StartCreate, StartUpdate, StartSwitch,
             Step, Insert, Find, Write, Index, DeadlockVictim, Abort
<1>2. IInv /\ AInv /\ [Next]_vars
        => [\A id \in DOMAIN rows' :
               (id \in DOMAIN rows => rows'[id] # rows[id])
                   => id \in DOMAIN trail' /\ trail'[id] = rows'[id]]_vars
  BY <1>1
<1>3. Spec => []AInv
  BY AuditInit, AuditPreserved, Invariance, PTL DEF Spec
<1> QED BY <1>2, <1>3, Invariance, PTL DEF Spec, ChangesAreAudited
-----------------------------------------------------------------------------
(* What a commit stores, counted.                                          *)

\* What a request has noted is stored or written.  A creation has written as many new
\* rows as items that it has noted as successful: no two of these share their key.
Counted(q, w, stored) ==
    /\ IsFiniteSet(DOMAIN w)
    /\ q.pc \in {"find", "write", "index"} => q.kind \notin Creating
    /\ \A i \in DOMAIN q.results :
          q.results[i].id # None => q.results[i].id \in DOMAIN stored \cup DOMAIN w
    /\ q.kind \in Creating =>
          /\ DOMAIN w \cap DOMAIN stored = {}
          /\ \A i \in DOMAIN q.results :
                /\ q.results[i].ok <=> q.results[i].id # None
                /\ q.results[i].ok => q.results[i].id \in DOMAIN w
          /\ \A i, j \in DOMAIN q.results :
                (q.results[i].ok /\ q.results[i].id = q.results[j].id) => i = j

CInv == IsFiniteSet(DOMAIN rows) /\ \A r \in Requests : Counted(req[r], writes[r], rows)

\* A step of one request leaves the counts of the others as they are.
LEMMA CountStep ==
    ASSUME IInv, CInv, NEW r \in Requests, NEW q, NEW w, UNCHANGED rows,
           req' = [req EXCEPT ![r] = q],
           writes' = [writes EXCEPT ![r] = w] \/ (UNCHANGED writes /\ w = writes[r]),
           Counted(q, w, rows)
    PROVE  CInv'
<1>1. \A x \in Requests : Counted(req'[x], writes'[x], rows)
  BY DEF IInv, TypeOK, CInv
<1> QED BY <1>1 DEF CInv, Counted

\* An idle request has nothing to count.
LEMMA NothingCounted == ASSUME NEW stored PROVE Counted(Idle, EmptyTable, stored)
<1>1. /\ DOMAIN EmptyTable = {} /\ DOMAIN Idle.results = {} /\ Idle.pc = "idle"
  BY DEF EmptyTable, Idle
<1> QED BY <1>1, FS_EmptySet DEF Counted

\* What a request has written is lost when it ends.
LEMMA CountLossStep ==
    ASSUME IInv, CInv, NEW r \in Requests, Answer(r), UNCHANGED rows
    PROVE  CInv'
BY NothingCounted, CountStep DEF Answer

\* The report of an item counts the row that was written for it.
LEMMA ReportCounts ==
    ASSUME NEW q, NEW w, NEW x, NEW stored,
           NEW result \in Result, NEW next \in {"insert", "find"},
           q \in Request, Counted(q, w, stored), IsFiniteSet(DOMAIN x),
           DOMAIN w \subseteq DOMAIN x,
           result.id # None => result.id \in DOMAIN stored \cup DOMAIN x,
           next = "find" => q.kind \notin Creating,
           q.kind \in Creating =>
              /\ DOMAIN x \cap DOMAIN stored = {}
              /\ result.ok <=> result.id # None
              /\ result.ok => result.id \in DOMAIN x /\ result.id \notin DOMAIN w
    PROVE  Counted(Reporting(q, result, next), x, stored)
<1> DEFINE n == Reporting(q, result, next)
           k == Len(q.results) + 1
<1>1. q.results \in Seq(Result)
  BY DEF Request
<1>2. /\ n.results = Append(q.results, result) /\ n.kind = q.kind
      /\ n.pc \in {"find", "write", "index"} => next = "find"
  BY DEF Reporting, Request
<1>3. /\ DOMAIN n.results = DOMAIN q.results \cup {k}
      /\ n.results[k] = result
      /\ \A i \in DOMAIN q.results : n.results[i] = q.results[i]
  BY <1>1, <1>2
<1> HIDE DEF n, k
<1>4. \A i \in DOMAIN n.results :
         n.results[i].id # None => n.results[i].id \in DOMAIN stored \cup DOMAIN x
  BY <1>3 DEF Counted
<1>5. ASSUME q.kind \in Creating
      PROVE  /\ \A i \in DOMAIN n.results :
                   /\ n.results[i].ok <=> n.results[i].id # None
                   /\ n.results[i].ok => n.results[i].id \in DOMAIN x
             /\ \A i, j \in DOMAIN n.results :
                   (n.results[i].ok /\ n.results[i].id = n.results[j].id) => i = j
  <2>1. /\ \A i \in DOMAIN q.results :
              /\ q.results[i].ok <=> q.results[i].id # None
              /\ q.results[i].ok => q.results[i].id \in DOMAIN w
        /\ \A i, j \in DOMAIN q.results :
              (q.results[i].ok /\ q.results[i].id = q.results[j].id) => i = j
    BY <1>5 DEF Counted
  <2> QED BY <1>3, <1>5, <2>1
<1> QED BY <1>2, <1>4, <1>5 DEF Counted, n
\* A request arrives: nothing is written and nothing noted.
LEMMA StartCounts ==
    ASSUME IInv, CInv, NEW r \in Requests, Start(r)
    PROVE  CInv'
<1>1. PICK t \in Tenants :
        \/ \E kind \in Creating, places \in Batches(Places \cup {None}) :
               StartCreate(r, kind, t, places)
        \/ \E id \in PropertyIds, place \in Places \cup {None}, active \in BOOLEAN :
               StartUpdate(r, t, id, place, active)
        \/ \E kind \in Switching, ids \in Batches(PropertyIds) :
               IsInjective(ids) /\ StartSwitch(r, kind, t, ids)
  BY DEF Start
<1>2. DOMAIN writes[r] = {} /\ UNCHANGED rows
  BY <1>1 DEF StartCreate, StartUpdate, StartSwitch, IInv, Consistent
<1>3. ASSUME NEW kind, NEW pc, NEW todo, NEW seen, NEW object,
             pc = "insert" \/ kind \notin Creating,
             req' = [req EXCEPT ![r] = Running(kind, pc, t, todo, seen, object)],
             UNCHANGED writes
      PROVE  CInv'
  <2>1. Counted(Running(kind, pc, t, todo, seen, object), writes[r], rows)
    BY <1>2, <1>3, FS_EmptySet DEF Counted, Running
  <2> HIDE DEF Running
  <2> QED BY <1>2, <1>3, <2>1, CountStep
<1>4. ASSUME NEW kind \in Creating, NEW places \in Batches(Places \cup {None}),
             StartCreate(r, kind, t, places)
      PROVE  CInv'
  BY <1>3, <1>4 DEF StartCreate
<1>5. ASSUME NEW id \in PropertyIds, NEW place \in Places \cup {None}, NEW active \in BOOLEAN,
             StartUpdate(r, t, id, place, active)
      PROVE  CInv'
  BY <1>2, <1>3, <1>5, CountLossStep DEF StartUpdate, Creating
<1>6. ASSUME NEW kind \in Switching, NEW ids \in Batches(PropertyIds),
             StartSwitch(r, kind, t, ids)
      PROVE  CInv'
  <2>1. kind \notin Creating
    BY <1>6 DEF Switching, Creating
  <2> QED BY <1>3, <1>6, <2>1 DEF StartSwitch
<1> QED BY <1>1, <1>4, <1>5, <1>6

\* A creation counts the row that it inserts, and no item that it refuses.
LEMMA InsertCounts ==
    ASSUME IInv, CInv, NEW r \in Requests, Insert(r)
    PROVE  CInv'
<1> DEFINE new == [tenant |-> req[r].tenant, place |-> Head(req[r].todo), active |-> TRUE]
           result == [ok |-> TRUE, id |-> NewId, after |-> new]
           w == Put(writes[r], NewId, new)
<1>1. /\ req[r].pc = "insert" /\ Unused # {} /\ UNCHANGED rows
      /\ req[r] \in Request /\ req[r].todo # <<>> /\ Counted(req[r], writes[r], rows)
      /\ req[r].tenant \in Tenants /\ Consistent(req[r], writes[r], rows)
  BY WorkingOn DEF Insert, CInv
<1>2. CASE Answer(r)
  BY <1>1, <1>2, CountLossStep
<1>3. CASE ItemFails(r)
  <2>1. Failure \in Result /\ Failure.id = None /\ Failure.ok = FALSE
    BY DEF Failure, Result
  <2>2. IsFiniteSet(DOMAIN writes[r])
        /\ (req[r].kind \in Creating => DOMAIN writes[r] \cap DOMAIN rows = {})
    BY <1>1 DEF Counted
  <2>3. Counted(Reporting(req[r], Failure, "insert"), writes[r], rows)
    BY <1>1, <2>1, <2>2, ReportCounts
  <2>4. req' = [req EXCEPT ![r] = Reporting(req[r], Failure, "insert")]
    BY <1>3, ReportIs DEF ItemFails
  <2> QED BY <1>1, <1>3, <2>3, <2>4, CountStep DEF ItemFails
<1>4. CASE writes' = [writes EXCEPT ![r] = Put(@, NewId, new)] /\ Report(r, result, "insert")
  <2>1. NewId \in Unused
    BY <1>1 DEF NewId
  <2>2. /\ NewId \in PropertyIds /\ NewId # None
        /\ NewId \notin DOMAIN writes[r] /\ NewId \notin DOMAIN rows
    BY <2>1, PropertyConstants DEF Unused
  <2>3. Head(req[r].todo) \in Places \cup {None}
    <3>1. req[r].todo \in Seq(Places \cup {None})
      BY <1>1 DEF Consistent
    <3> QED BY <1>1, <3>1
  <2>4. result \in Result
    BY <1>1, <2>2, <2>3 DEF Result, Row
  <2>5. /\ result.id = NewId /\ result.ok = TRUE
        /\ DOMAIN w = DOMAIN writes[r] \cup {NewId}
    BY DEF Put
  <2>6. IsFiniteSet(DOMAIN w)
    BY <1>1, <2>5, FS_AddElement DEF Counted
  <2> HIDE DEF result, w
  <2>7. req[r].kind \in Creating => DOMAIN w \cap DOMAIN rows = {}
    BY <1>1, <2>2, <2>5 DEF Counted
  <2>8. Counted(Reporting(req[r], result, "insert"), w, rows)
    BY <1>1, <2>2, <2>4, <2>5, <2>6, <2>7, ReportCounts
  <2>9. req' = [req EXCEPT ![r] = Reporting(req[r], result, "insert")]
    BY <1>4, ReportIs
  <2>10. writes' = [writes EXCEPT ![r] = w]
    BY <1>4 DEF w
  <2> QED BY <1>1, <2>8, <2>9, <2>10, CountStep
<1> QED BY <1>2, <1>3, <1>4 DEF Insert

\* An item that is looked up notes no row.
LEMMA FindCounts ==
    ASSUME IInv, CInv, NEW r \in Requests, Find(r)
    PROVE  CInv'
<1> DEFINE wanted == req[r].kind = "activate"
<1>1. /\ req[r].pc = "find" /\ req[r] \in Request /\ UNCHANGED rows
      /\ Counted(req[r], writes[r], rows)
  BY WorkingOn DEF Find, CInv
<1>2. CASE Answer(r)
  BY <1>1, <1>2, CountLossStep
<1>3. ASSUME NEW result \in {Failure, Unchanged}, Report(r, result, "find"), UNCHANGED writes
      PROVE  CInv'
  <2>1. result \in Result /\ result.id = None
    <3>1. Failure \in Result /\ Failure.id = None
      BY DEF Failure, Result
    <3>2. Unchanged \in Result /\ Unchanged.id = None
      BY DEF Unchanged, Result
    <3> QED BY <1>3, <3>1, <3>2
  <2>2. IsFiniteSet(DOMAIN writes[r]) /\ req[r].kind \notin Creating
    BY <1>1 DEF Counted
  <2>3. Counted(Reporting(req[r], result, "find"), writes[r], rows)
    BY <1>1, <2>1, <2>2, ReportCounts
  <2>4. req' = [req EXCEPT ![r] = Reporting(req[r], result, "find")]
    BY <1>3, ReportIs
  <2> QED BY <1>1, <1>3, <2>3, <2>4, CountStep
<1>4. CASE /\ req' = [req EXCEPT ![r].seen = View(r)[Head(req[r].todo)],
                                 ![r].object = [View(r)[Head(req[r].todo)]
                                                  EXCEPT !.active = wanted],
                                 ![r].pc = "write"]
           /\ UNCHANGED writes
  <2> DEFINE q == [req[r] EXCEPT !.seen = View(r)[Head(req[r].todo)],
                                 !.object = [View(r)[Head(req[r].todo)]
                                               EXCEPT !.active = wanted],
                                 !.pc = "write"]
  <2>1. /\ q.pc = "write" /\ q.kind = req[r].kind /\ q.results = req[r].results
    BY <1>1 DEF Request
  <2>2. req' = [req EXCEPT ![r] = q]
    BY <1>4 DEF IInv, TypeOK
  <2> HIDE DEF q
  <2>3. Counted(q, writes[r], rows)
    BY <1>1, <2>1 DEF Counted
  <2> QED BY <1>1, <1>4, <2>2, <2>3, CountStep
<1> QED BY <1>2, <1>3, <1>4 DEF Find

\* A stored row is changed, and noted or still to be checked.
LEMMA ChangeCounts ==
    ASSUME IInv, CInv, NEW r \in Requests, req[r].pc \in {"write", "index"},
           NEW row \in Row, UNCHANGED rows,
           \/ writes' = [writes EXCEPT ![r] = Put(@, Head(req[r].todo), row)]
           \/ UNCHANGED writes,
           \/ Written(r, row)
           \/ req' = [req EXCEPT ![r].pc = "index"]
    PROVE  CInv'
<1> DEFINE id == Head(req[r].todo)
           w == writes'[r]
<1>1. /\ req[r] \in Request /\ Counted(req[r], writes[r], rows)
      /\ Consistent(req[r], writes[r], rows)
  BY WorkingOn DEF CInv
<1>2. /\ req[r].kind \notin Creating /\ IsFiniteSet(DOMAIN writes[r])
      /\ id \in DOMAIN rows \cup DOMAIN writes[r] /\ id \in PropertyIds
  BY <1>1 DEF Counted, Consistent, IInv, TypeOK, IsTable
<1>3. /\ writes' = [writes EXCEPT ![r] = w] \/ (UNCHANGED writes /\ w = writes[r])
      /\ DOMAIN writes[r] \subseteq DOMAIN w
      /\ DOMAIN w = DOMAIN writes[r] \/ DOMAIN w = DOMAIN writes[r] \cup {id}
  <2>1. CASE UNCHANGED writes
    BY <2>1 DEF IInv, TypeOK
  <2>2. CASE writes' = [writes EXCEPT ![r] = Put(@, id, row)]
    <3> DEFINE x == Put(writes[r], id, row)
    <3>1. DOMAIN x = DOMAIN writes[r] \cup {id}
      BY DEF Put
    <3>2. writes' = [writes EXCEPT ![r] = x]
      BY <2>2
    <3> HIDE DEF x
    <3>3. w = x
      BY <3>2 DEF IInv, TypeOK
    <3> QED BY <3>1, <3>2, <3>3
  <2> QED BY <2>1, <2>2
<1>4. IsFiniteSet(DOMAIN w)
  BY <1>2, <1>3, FS_AddElement
<1> HIDE DEF w
<1>5. CASE Written(r, row)
  <2> DEFINE result == [ok |-> TRUE, id |-> id, after |-> row]
  <2>1. result \in Result /\ result.id = id
    BY <1>2 DEF Result
  <2>2. Report(r, result, "find")
    BY <1>5 DEF Written, Snapshot
  <2> HIDE DEF result, id
  <2>3. Counted(Reporting(req[r], result, "find"), w, rows)
    BY <1>1, <1>2, <1>3, <1>4, <2>1, ReportCounts
  <2>4. req' = [req EXCEPT ![r] = Reporting(req[r], result, "find")]
    BY <2>2, ReportIs
  <2> QED BY <1>3, <2>3, <2>4, CountStep
<1>6. CASE req' = [req EXCEPT ![r].pc = "index"]
  <2> DEFINE q == [req[r] EXCEPT !.pc = "index"]
  <2>1. /\ q.kind = req[r].kind /\ q.results = req[r].results
    BY <1>1 DEF Request
  <2>2. req' = [req EXCEPT ![r] = q]
    BY <1>6 DEF IInv, TypeOK
  <2> HIDE DEF q, id
  <2>3. Counted(q, w, rows)
    BY <1>1, <1>2, <1>3, <1>4, <2>1 DEF Counted
  <2> QED BY <1>3, <2>2, <2>3, CountStep
<1> QED BY <1>5, <1>6
\* A stored row is changed, and noted unless its new place is still to be checked.
LEMMA WriteCounts ==
    ASSUME IInv, CInv, NEW r \in Requests, Write(r)
    PROVE  CInv'
<1> DEFINE id == Head(req[r].todo)
           row == Flushed(r, View(r)[id])
<1>1. req[r].pc = "write" /\ UNCHANGED rows
  BY DEF Write
<1>2. id \in DOMAIN View(r) /\ View(r)[id] \in Row /\ req[r].object \in Row
  BY <1>1, WorkingOn DEF Consistent, IsTable
<1>3. row \in Row
  BY <1>2 DEF Flushed, Row
<1>4. /\ \/ writes' = [writes EXCEPT ![r] = Put(@, id, row)]
         \/ UNCHANGED writes
      /\ Written(r, row) \/ req' = [req EXCEPT ![r].pc = "index"]
  BY DEF Write
<1> HIDE DEF row
<1> QED BY <1>1, <1>3, <1>4, ChangeCounts

\* A new place that is free is written to the row that the request has written.
LEMMA IndexCounts ==
    ASSUME IInv, CInv, NEW r \in Requests, Index(r)
    PROVE  CInv'
<1> DEFINE id == Head(req[r].todo)
           row == [writes[r][id] EXCEPT !.place = req[r].object.place]
<1>1. req[r].pc = "index" /\ UNCHANGED rows
  BY DEF Index
<1>2. Consistent(req[r], writes[r], rows)
  BY DEF IInv
<1>3. row \in Row
  BY <1>1, <1>2 DEF Consistent, IsTable, Row
<1>4. \/ Answer(r)
      \/ Written(r, row) /\ writes' = [writes EXCEPT ![r] = Put(@, id, row)]
  BY DEF Index
<1> HIDE DEF row
<1> QED BY <1>1, <1>3, <1>4, CountLossStep, ChangeCounts

\* A commit stores what one request has written: the rows that another creation has
\* written are still new.
LEMMA CommitCounts ==
    ASSUME IInv, CInv, NEW r \in Requests, Commit(r)
    PROVE  CInv'
<1>1. DOMAIN rows' = DOMAIN rows \cup DOMAIN writes[r]
  BY DEF Commit, View
<1>2. IsFiniteSet(DOMAIN rows')
  BY <1>1, FS_Union DEF CInv, Counted
<1>3. /\ req'[r] = Idle /\ writes'[r] = EmptyTable
      /\ \A x \in Requests \ {r} : req'[x] = req[x] /\ writes'[x] = writes[x]
  BY DEF Commit, Answer, IInv, TypeOK
<1>4. ASSUME NEW x \in Requests \ {r} PROVE Counted(req[x], writes[x], rows')
  <2>1. Counted(req[x], writes[x], rows) /\ Apart(writes[x], writes[r])
    BY DEF CInv, IInv
  <2>2. DOMAIN writes[x] \cap DOMAIN writes[r] = {}
    BY <2>1 DEF Apart
  <2> QED BY <1>1, <2>1, <2>2 DEF Counted
<1>5. \A x \in Requests : Counted(req'[x], writes'[x], rows')
  BY <1>3, <1>4, NothingCounted
<1> QED BY <1>2, <1>5 DEF CInv

\* Every step keeps the counts.
LEMMA CountsPreserved == IInv /\ CInv /\ [Next]_vars => CInv'
<1> SUFFICES ASSUME IInv, CInv, [Next]_vars PROVE CInv'
  OBVIOUS
<1>1. ASSUME NEW r \in Requests, Start(r) \/ Step(r) \/ Abort(r) PROVE CInv'
  <2>1. CASE DeadlockVictim(r) \/ Abort(r)
    BY <2>1, CountLossStep DEF DeadlockVictim, Abort
  <2> QED BY <1>1, <2>1, StartCounts, InsertCounts, FindCounts, WriteCounts, IndexCounts,
             CommitCounts DEF Step
<1>2. CASE UNCHANGED vars
  BY <1>2 DEF vars, CInv, Counted
<1> QED BY <1>1, <1>2 DEF Next

\* At the start nothing is stored and nothing counted.
LEMMA CountsInit == Init => CInv
<1> SUFFICES ASSUME Init PROVE CInv
  OBVIOUS
<1>1. /\ rows = EmptyTable /\ DOMAIN EmptyTable = {}
      /\ \A r \in Requests : req[r] = Idle /\ writes[r] = EmptyTable
  BY DEF Init, EmptyTable
<1> QED BY <1>1, NothingCounted, FS_EmptySet DEF CInv

\* A commit stores exactly the rows that it has noted, and a creation one new row for
\* each item that it has noted as successful.
LEMMA CommitReports ==
    ASSUME IInv, AInv, CInv, NEW r \in Requests, Commit(r)
    PROVE  /\ ReportedIds(r) \subseteq DOMAIN rows'
           /\ \A id \in DOMAIN rows' \ ReportedIds(r) :
                  id \in DOMAIN rows /\ rows'[id] = rows[id]
           /\ (req[r].kind \in Creating) =>
                  Cardinality(DOMAIN rows') - Cardinality(DOMAIN rows)
                    = Cardinality({i \in DOMAIN req[r].results : req[r].results[i].ok})
<1> DEFINE w == writes[r]
           noted == {i \in DOMAIN req[r].results : req[r].results[i].ok}
<1>1. /\ Audited(req[r], w) /\ Consistent(req[r], w, rows) /\ Counted(req[r], w, rows)
      /\ req[r].pc = "commit"
  BY DEF AInv, IInv, CInv, Commit
<1>2. /\ DOMAIN rows' = DOMAIN rows \cup DOMAIN w
      /\ \A id \in DOMAIN rows' : rows'[id] = IF id \in DOMAIN w THEN w[id] ELSE rows[id]
  BY DEF Commit, View
<1>3. ReportedIds(r) \subseteq DOMAIN rows'
  BY <1>1, <1>2 DEF ReportedIds, Reported, Counted
<1>4. \A id \in DOMAIN w : id \in ReportedIds(r)
  <2>1. \A id \in DOMAIN w : id # None
    BY <1>1, PropertyConstants DEF Consistent, IsTable
  <2> QED BY <1>1, <2>1 DEF Audited, Noted, ReportedIds, Reported
<1>5. ASSUME req[r].kind \in Creating
      PROVE  Cardinality(DOMAIN rows') - Cardinality(DOMAIN rows) = Cardinality(noted)
  <2> DEFINE f == [i \in noted |-> req[r].results[i].id]
  <2>1. /\ DOMAIN w \cap DOMAIN rows = {} /\ IsFiniteSet(DOMAIN w) /\ IsFiniteSet(DOMAIN rows)
        /\ \A i \in noted : req[r].results[i].id \in DOMAIN w
        /\ \A i, j \in noted : f[i] = f[j] => i = j
    BY <1>1, <1>5 DEF Counted, CInv
  <2>2. \A id \in DOMAIN w : \E i \in noted : f[i] = id
    <3> SUFFICES ASSUME NEW id \in DOMAIN w PROVE \E i \in noted : f[i] = id
      OBVIOUS
    <3>1. id # None
      BY <1>1, PropertyConstants DEF Consistent, IsTable
    <3>2. PICK i \in DOMAIN req[r].results : req[r].results[i].id = id
      BY <1>1 DEF Audited, Noted
    <3>3. req[r].results[i].ok
      BY <1>1, <1>5, <3>1, <3>2 DEF Counted
    <3> QED BY <3>2, <3>3
  <2>3. f \in Bijection(noted, DOMAIN w)
    BY <2>1, <2>2 DEF Bijection, Injection, Surjection, IsInjective
  <2>4. f \in Injection(noted, DOMAIN w) /\ f \in Surjection(noted, DOMAIN w)
    BY <2>3 DEF Bijection
  <2>5. IsFiniteSet(noted)
    BY <1>1, FS_Interval, FS_Subset DEF Consistent, Request
  <2>6. Cardinality(DOMAIN w) = Cardinality(noted)
    BY <2>4, <2>5, FS_Surjection
  <2>7. Cardinality(DOMAIN rows')
           = Cardinality(DOMAIN rows) + Cardinality(DOMAIN w) - Cardinality({})
    BY <1>2, <2>1, FS_Union
  <2>8. /\ Cardinality({}) = 0 /\ Cardinality(DOMAIN rows) \in Nat
        /\ Cardinality(DOMAIN w) \in Nat
    BY <2>1, FS_EmptySet, FS_CardinalityType
  <2> QED BY <2>6, <2>7, <2>8
<1> QED BY <1>2, <1>3, <1>4, <1>5

\* What a request reports is what it stores, for any number of overlapping requests and
\* any batches: every row reported as created or changed is stored, no other row is
\* touched, and a creation adds as many rows as it reports, one for each.
THEOREM BatchesAreReported == Spec => CommittedAsReported
<1> DEFINE Reports(r) ==
             /\ ReportedIds(r) \subseteq DOMAIN rows'
             /\ \A id \in DOMAIN rows' \ ReportedIds(r) :
                    id \in DOMAIN rows /\ rows'[id] = rows[id]
             /\ (req[r].kind \in Creating) =>
                    Cardinality(DOMAIN rows') - Cardinality(DOMAIN rows)
                      = Cardinality({i \in DOMAIN req[r].results : req[r].results[i].ok})
<1>1. ASSUME IInv, AInv, CInv, [Next]_vars, NEW r \in Requests,
             req[r].pc = "commit", trail' # trail, req'[r].pc = "idle"
      PROVE  Reports(r)
  <2>1. PICK x \in Requests : Commit(x)
    BY <1>1 DEF Next, vars, Start, StartCreate, StartUpdate, StartSwitch, Step, Insert, Find,
                Write, Index, DeadlockVictim, Abort
  <2>2. x = r
    BY <1>1, <2>1 DEF Commit, Answer, IInv, TypeOK
  <2> QED BY <1>1, <2>1, <2>2, CommitReports
<1>2. IInv /\ AInv /\ CInv /\ [Next]_vars
        => [\A r \in Requests :
               (req[r].pc = "commit" /\ trail' # trail /\ req'[r].pc = "idle")
                   => Reports(r)]_vars
  BY <1>1
<1>3. Spec => []AInv
  BY AuditInit, AuditPreserved, Invariance, PTL DEF Spec
<1>4. Spec => []CInv
  BY CountsInit, CountsPreserved, Invariance, PTL DEF Spec
<1> QED BY <1>2, <1>3, <1>4, Invariance, PTL DEF Spec, CommittedAsReported
=============================================================================
