------------------------ MODULE ConnectorLogosProofs ------------------------
(***************************************************************************)
(* Proofs about ConnectorLogos for every number of connectors, names,      *)
(* images and concurrent requests, and for a storage that may be faulty.   *)
(***************************************************************************)
EXTENDS SerialLogos, TableLemmas, SequenceTheorems

SeedPcs == {"seed", "seedInsert", "seedCommit"}

Creating(q) == q.pc # "idle" /\ q.kind = "create"

\* What the program point of a request says of its record and of what it has inserted,
\* when the table has the rows stored.
Consistent(q, inserted, stored) ==
    /\ q \in Request
    /\ q.pc \notin SeedPcs \cup {"idle"} =>
          /\ q.kind \in Coroutines \cup Threads
          /\ q.object \in Row /\ q.id \in ConnectorIds
          /\ q.kind # "create" => (q.seen \in Row /\ q.id \in stored)
    /\ q.pc \in {"readFile", "purge", "save"} => q.kind \in Coroutines
    /\ /\ q.pc \in {"readFile", "checkImage", "dropLogo", "purge", "save"}
       /\ q.kind \in Coroutines
       => q.image \in Images
    /\ q.pc = "insert" =>
          q.kind = "create" /\ q.object.digest = None /\ ~q.object.deleted
    /\ q.pc = "checkName" => q.kind \in {"rename", "restore"}
    /\ q.pc = "dropLogo" => q.kind \in Coroutines \cup {"clear"}
    /\ q.pc = "checkName" /\ q.kind = "rename" => q.object.logo = q.seen.logo
    /\ q.pc = "move" => q.kind = "rename" /\ q.seen.logo \in Keys
    /\ q.pc = "seedInsert" =>
          /\ q.todo # <<>>
          /\ \A id \in DOMAIN inserted : inserted[id].name # Head(q.todo)
    /\ q.pc \in {"idle", "insert"} => DOMAIN inserted = {}

\* A creation has its primary key for itself.
Claims ==
    \A r \in Requests : Creating(req[r]) =>
        /\ req[r].id \notin DOMAIN rows
        /\ \A q \in Requests \ {r} :
              /\ req[r].id \notin DOMAIN pending[q]
              /\ Creating(req[q]) => req[q].id # req[r].id

\* A row that is inserted and not committed has a name that no alive row and no other
\* inserted row has, and no image.
EntriesApart ==
    \A r \in Requests : \A id \in DOMAIN pending[r] :
        /\ pending[r][id].digest = None
        /\ \A i \in DOMAIN rows : Alive(i) => rows[i].name # pending[r][id].name
        /\ \A q \in Requests : \A j \in DOMAIN pending[q] :
              pending[q][j].name = pending[r][id].name => q = r /\ j = id

\* The inductive invariant.
IInv ==
    /\ TypeOK
    /\ pending = [r \in Requests |-> pending[r]]
    /\ \A r \in Requests : Consistent(req[r], pending[r], DOMAIN rows)
    /\ Claims
    /\ EntriesApart
    /\ AliveUnique

-----------------------------------------------------------------------------
(* The beginning.                                                          *)

\* An idle request is consistent.
LEMMA IdleConsistent ==
    ASSUME NEW failed \in BOOLEAN, NEW stored
    PROVE  Consistent(Idle(failed), EmptyTable, stored)
<1>1. Idle(failed) \in Request
  <2>1. <<>> \in Seq(Names)
    OBVIOUS
  <2> QED BY <2>1 DEF Idle, Request, Pcs
<1> QED BY <1>1 DEF Consistent, Idle, SeedPcs, EmptyTable

\* A table without rows is one of any keys and rows.
LEMMA EmptyIsTable ==
    ASSUME NEW K, NEW R
    PROVE  IsTable(EmptyTable, K, R) /\ DOMAIN EmptyTable = {}
BY DEF IsTable, EmptyTable

\* The invariant at the start.
LEMMA InitEstablishes == Init => IInv
<1> SUFFICES ASSUME Init PROVE IInv
  OBVIOUS
<1>1. \A r \in Requests : /\ req[r] = Idle(FALSE) /\ pending[r] = EmptyTable
                          /\ Consistent(req[r], pending[r], DOMAIN rows)
  BY IdleConsistent DEF Init
<1>2. TypeOK
  <2>1. req \in [Requests -> Request]
    BY <1>1 DEF Init, Consistent
  <2> QED BY <1>1, <2>1, EmptyIsTable DEF Init, TypeOK
<1>3. Claims
  BY <1>1 DEF Claims, Creating, Idle
<1>4. EntriesApart /\ AliveUnique
  BY <1>1, EmptyIsTable DEF Init, EntriesApart, AliveUnique
<1>5. pending = [r \in Requests |-> pending[r]]
  BY DEF Init
<1> QED BY <1>1, <1>2, <1>3, <1>4, <1>5 DEF IInv

-----------------------------------------------------------------------------
(* Steps of one request.                                                   *)

\* More committed rows leave a request consistent.
LEMMA MoreRowsConsistent ==
    ASSUME NEW q, NEW w, NEW stored, NEW more, stored \subseteq more,
           Consistent(q, w, stored)
    PROVE  Consistent(q, w, more)
BY DEF Consistent

\* One request goes on, and the promises about the rows and the names are kept.
LEMMA RequestStep ==
    ASSUME IInv, NEW r \in Requests, NEW q, NEW w,
           req' = [req EXCEPT ![r] = q], pending' = [pending EXCEPT ![r] = w],
           IsTable(w, ConnectorIds, Row), IsTable(rows', ConnectorIds, Row),
           files' \in [Keys -> Images \cup {None}], faulty' = faulty,
           DOMAIN rows \subseteq DOMAIN rows', Consistent(q, w, DOMAIN rows'),
           Claims', EntriesApart', AliveUnique'
    PROVE  IInv'
<1>1. DOMAIN req = Requests /\ DOMAIN pending = Requests
  BY DEF IInv, TypeOK
<1>2. \A x \in Requests : /\ req'[x] = IF x = r THEN q ELSE req[x]
                          /\ pending'[x] = IF x = r THEN w ELSE pending[x]
  BY <1>1
<1>3. \A x \in Requests : Consistent(req'[x], pending'[x], DOMAIN rows')
  BY <1>2, MoreRowsConsistent DEF IInv
<1>4. req' \in [Requests -> Request]
  BY <1>1, <1>3 DEF Consistent
<1>5. \A x \in Requests : IsTable(pending'[x], ConnectorIds, Row)
  BY <1>2 DEF IInv, TypeOK
<1>6. TypeOK'
  BY <1>1, <1>4, <1>5 DEF IInv, TypeOK
<1>7. pending' = [x \in Requests |-> pending'[x]]
  BY DEF IInv
<1> QED BY <1>3, <1>6, <1>7 DEF IInv

\* A step that inserts no row, commits none and claims no key.
LEMMA QuietStep ==
    ASSUME IInv, NEW r \in Requests, NEW q, NEW w \in {pending[r], EmptyTable},
           req' = [req EXCEPT ![r] = q], pending' = [pending EXCEPT ![r] = w],
           UNCHANGED <<rows, faulty>>, files' \in [Keys -> Images \cup {None}],
           Consistent(q, w, DOMAIN rows),
           Creating(q) => (Creating(req[r]) /\ q.id = req[r].id)
    PROVE  IInv'
<1>1. DOMAIN req = Requests /\ DOMAIN pending = Requests
  BY DEF IInv, TypeOK
<1>2. \A x \in Requests : /\ req'[x] = IF x = r THEN q ELSE req[x]
                          /\ pending'[x] = IF x = r THEN w ELSE pending[x]
  BY <1>1
<1>3. \A x \in Requests : /\ pending'[x] \in {pending[x], EmptyTable}
                          /\ DOMAIN pending'[x] \subseteq DOMAIN pending[x]
  BY <1>2, EmptyIsTable
<1>4. \A x \in Requests : Creating(req'[x]) => (Creating(req[x]) /\ req'[x].id = req[x].id)
  BY <1>2
<1>5. Claims'
  <2> SUFFICES ASSUME NEW x \in Requests, Creating(req'[x])
               PROVE  /\ req'[x].id \notin DOMAIN rows
                      /\ \A y \in Requests \ {x} :
                            /\ req'[x].id \notin DOMAIN pending'[y]
                            /\ Creating(req'[y]) => req'[y].id # req'[x].id
    BY DEF Claims, Creating
  <2>1. Creating(req[x]) /\ req'[x].id = req[x].id
    BY <1>4
  <2> QED BY <1>3, <1>4, <2>1 DEF IInv, Claims
<1>6. EntriesApart'
  BY <1>3, EmptyIsTable DEF IInv, EntriesApart, Alive
<1>7. AliveUnique'
  BY DEF IInv, AliveUnique, Alive
<1>8. IsTable(w, ConnectorIds, Row) /\ IsTable(rows, ConnectorIds, Row)
  BY EmptyIsTable DEF IInv, TypeOK
<1> QED BY <1>5, <1>6, <1>7, <1>8, RequestStep

\* Answered or failed, a request is idle and has inserted nothing.
LEMMA CloseStep ==
    ASSUME IInv, NEW r \in Requests, NEW failed \in BOOLEAN, Close(r, failed),
           UNCHANGED <<rows, files, faulty>>
    PROVE  IInv'
<1>1. ~Creating(Idle(failed))
  BY DEF Creating, Idle
<1>2. files \in [Keys -> Images \cup {None}]
  BY DEF IInv, TypeOK
<1> QED BY <1>1, <1>2, IdleConsistent, QuietStep DEF Close

\* A request goes on to a consistent record.
LEMMA GoStep ==
    ASSUME IInv, NEW r \in Requests, NEW q, req' = [req EXCEPT ![r] = q],
           UNCHANGED <<rows, pending, faulty>>, files' \in [Keys -> Images \cup {None}],
           Consistent(q, pending[r], DOMAIN rows),
           Creating(q) => (Creating(req[r]) /\ q.id = req[r].id)
    PROVE  IInv'
<1>1. pending' = [pending EXCEPT ![r] = pending[r]]
  BY DEF IInv, TypeOK
<1> QED BY <1>1, QuietStep

-----------------------------------------------------------------------------
(* The actions.                                                            *)

\* What the storage leaves is a storage.
LEMMA StorageTyped ==
    ASSUME TypeOK
    PROVE  /\ \A keys \in SUBSET Keys : Deleting(keys) \subseteq [Keys -> Images \cup {None}]
           /\ \A k \in Keys, image \in Images :
                 [files EXCEPT ![k] = image] \in [Keys -> Images \cup {None}]
           /\ \A src, dst \in Keys :
                 LocalMoving(src, dst) \cup S3Moving(src, dst) \subseteq [Keys -> Images \cup {None}]
<1>1. files \in [Keys -> Images \cup {None}]
  BY DEF TypeOK
<1>2. \A keys : Without(keys) \in [Keys -> Images \cup {None}]
  BY <1>1 DEF Without
<1>3. \A keys \in SUBSET Keys : Deleting(keys) \subseteq [Keys -> Images \cup {None}]
  BY <1>2 DEF Deleting
<1>4. \A src, dst \in Keys : /\ Copied(src, dst) \in [Keys -> Images \cup {None}]
                             /\ Moved(src, dst) \in [Keys -> Images \cup {None}]
  BY <1>1 DEF Copied, Moved
<1>5. \A src, dst \in Keys :
          LocalMoving(src, dst) \cup S3Moving(src, dst) \subseteq [Keys -> Images \cup {None}]
  BY <1>1, <1>2, <1>4 DEF LocalMoving, S3Moving
<1> QED BY <1>1, <1>3, <1>5

\* A logo's key for a name of the table is a key of the storage.
LEMMA KeysAreTyped ==
    ASSUME NEW name \in Names
    PROVE  /\ \A image \in Images : LogoKey(name, ExtOf[image]) \in Keys
           /\ \A logo \in Keys : LogoKey(name, logo.ext) \in Keys
BY LogoConstants DEF LogoKey, Keys

\* The UPDATE leaves a row of the table.
LEMMA FlushTyped ==
    ASSUME NEW stored \in Row, NEW seen \in Row, NEW object \in Row
    PROVE  Flush(stored, seen, object) \in Row
BY DEF Flush, Row

\* A request that loads a row has a consistent record.
LEMMA LoadStep ==
    ASSUME IInv, NEW r \in Requests, NEW id \in ConnectorIds,
           NEW kind \in {"upload"} \cup Threads, NEW image \in Images \cup {None},
           NEW pc \in {"readFile", "checkImage", "checkName", "dropLogo", "write"},
           NEW object, id \in DOMAIN rows => object \in Row,
           pc = "readFile" \/ pc = "checkImage" => kind = "upload" /\ image \in Images,
           pc = "checkName" => /\ kind \in {"rename", "restore"}
                               /\ kind = "rename" => object.logo = rows[id].logo,
           pc = "dropLogo" => kind = "clear",
           Load(r, kind, id, image, pc, object), UNCHANGED faulty
    PROVE  IInv'
<1> DEFINE q == Running(kind, pc, id, image, rows[id], object)
<1>0. files' \in [Keys -> Images \cup {None}] /\ UNCHANGED <<rows, files>>
  BY DEF Load, IInv, TypeOK
<1>1. CASE Alive(id) \/ (kind = "restore" /\ id \in DOMAIN rows)
  <2>1. id \in DOMAIN rows /\ rows[id] \in Row /\ object \in Row
    BY <1>1 DEF Alive, IInv, TypeOK, IsTable
  <2>2. q \in Request
    BY <2>1 DEF Running, Request, Pcs, Coroutines
  <2>3. Consistent(q, pending[r], DOMAIN rows)
    BY <2>1, <2>2 DEF Consistent, Running, SeedPcs, Coroutines, Threads
  <2>4. req' = [req EXCEPT ![r] = q] /\ UNCHANGED pending
    BY <1>1 DEF Load
  <2>5. ~Creating(q)
    BY DEF Creating, Running, Threads
  <2> HIDE DEF q
  <2> QED BY <1>0, <2>3, <2>4, <2>5, GoStep
<1>2. CASE ~(Alive(id) \/ (kind = "restore" /\ id \in DOMAIN rows))
  BY <1>0, <1>2, CloseStep DEF Load, Answer
<1> QED BY <1>1, <1>2

\* A request on one connector begins, or ends because there is none.
LEMMA LoadsKeep ==
    ASSUME IInv, NEW r \in Requests, NEW id \in ConnectorIds, UNCHANGED faulty,
           \/ \E image \in Images : StartUpload(r, id, image)
           \/ \E name \in Names : StartRename(r, id, name)
           \/ StartClear(r, id) \/ StartDelete(r, id) \/ StartRestore(r, id)
    PROVE  IInv'
<1>0. id \in DOMAIN rows => rows[id] \in Row
  BY DEF IInv, TypeOK, IsTable
<1>a. ASSUME Answer(r), UNCHANGED <<rows, files>> PROVE IInv'
  BY <1>a, CloseStep DEF Answer
<1>1. ASSUME NEW image \in Images, StartUpload(r, id, image) PROVE IInv'
  <2> DEFINE pc == IF Suspends(image) THEN "readFile" ELSE "checkImage"
  <2>1. Load(r, "upload", id, image, pc, rows[id]) /\ pc \in {"readFile", "checkImage"}
    BY <1>1 DEF StartUpload
  <2> HIDE DEF pc
  <2> QED BY <1>0, <2>1, LoadStep
<1>2. ASSUME NEW name \in Names, StartRename(r, id, name) PROVE IInv'
  <2> DEFINE object == [rows[id] EXCEPT !.name = name]
  <2>1. Load(r, "rename", id, None, "checkName", object)
    BY <1>2 DEF StartRename
  <2>2. id \in DOMAIN rows => object \in Row
    BY <1>0 DEF Row
  <2>3. object.logo = rows[id].logo
    OBVIOUS
  <2> HIDE DEF object
  <2> QED BY <2>1, <2>2, <2>3, LoadStep DEF Threads
<1>3. CASE StartClear(r, id)
  <2> DEFINE object == [rows[id] EXCEPT !.logo = None, !.digest = None]
  <2>1. Load(r, "clear", id, None, "dropLogo", object)
    BY <1>3 DEF StartClear
  <2>2. id \in DOMAIN rows => object \in Row
    BY <1>0 DEF Row
  <2> HIDE DEF object
  <2> QED BY <2>1, <2>2, LoadStep DEF Threads
<1>4. CASE StartDelete(r, id)
  <2> DEFINE object == [rows[id] EXCEPT !.deleted = TRUE]
  <2>1. \/ Load(r, "delete", id, None, "write", object)
        \/ Answer(r) /\ UNCHANGED <<rows, files>>
    BY <1>4 DEF StartDelete
  <2>2. id \in DOMAIN rows => object \in Row
    BY <1>0 DEF Row
  <2> HIDE DEF object
  <2> QED BY <1>a, <2>1, <2>2, LoadStep DEF Threads
<1>5. CASE StartRestore(r, id)
  <2> DEFINE object == [rows[id] EXCEPT !.deleted = FALSE]
  <2>1. \/ Load(r, "restore", id, None, "checkName", object)
        \/ Answer(r) /\ UNCHANGED <<rows, files>>
    BY <1>5 DEF StartRestore
  <2>2. id \in DOMAIN rows => object \in Row
    BY <1>0 DEF Row
  <2> HIDE DEF object
  <2> QED BY <1>a, <2>1, <2>2, LoadStep DEF Threads
<1> QED BY <1>1, <1>2, <1>3, <1>4, <1>5

\* Who needs a new key takes one that nobody has.
LEMMA UnclaimedIsNew ==
    ASSUME NEW id, id \notin Claimed
    PROVE  /\ id \notin DOMAIN rows
           /\ \A x \in Requests : id \notin DOMAIN pending[x] /\ id # req[x].id
<1>1. \A x \in Requests : DOMAIN pending[x] \subseteq Claimed
  BY DEF Claimed
<1>2. \A x \in Requests : req[x].id \in Claimed
  <2>1. \A x \in Requests : req[x].id \in {req[r].id : r \in Requests}
    OBVIOUS
  <2> QED BY <2>1 DEF Claimed
<1> QED BY <1>1, <1>2 DEF Claimed

\* A creation claims a key that no row, insert or creation has.
LEMMA CreateKeeps ==
    ASSUME IInv, NEW r \in Requests, NEW id \in ConnectorIds, NEW name \in Names,
           NEW padded \in BOOLEAN, NEW image \in Images \cup {None},
           StartCreate(r, id, name, padded, image), UNCHANGED faulty
    PROVE  IInv'
<1> DEFINE row == [name |-> name, logo |-> None, digest |-> None, deleted |-> FALSE]
           q == Running("create", "insert", id, image, None, row)
<1>0. UNCHANGED <<rows, files>> /\ files \in [Keys -> Images \cup {None}]
      /\ req[r].pc = "idle" /\ id \notin Claimed
  BY DEF StartCreate, IInv, TypeOK
<1>1. CASE ~padded /\ NameTaken(id, name)
  BY <1>0, <1>1, CloseStep DEF StartCreate, Answer
<1>2. CASE ~(~padded /\ NameTaken(id, name))
  <2>1. req' = [req EXCEPT ![r] = q] /\ UNCHANGED pending
    BY <1>2 DEF StartCreate
  <2>2. row \in Row /\ row.digest = None /\ ~row.deleted
    BY DEF Row
  <2>3. q \in Request
    BY <2>2 DEF Running, Request, Pcs, Coroutines
  <2>4. Consistent(req[r], pending[r], DOMAIN rows)
    BY DEF IInv
  <2>5. Consistent(q, pending[r], DOMAIN rows)
    BY <1>0, <2>2, <2>3, <2>4 DEF Consistent, Running, SeedPcs, Coroutines
  <2>6. q.id = id /\ q.pc = "insert"
    BY DEF Running
  <2> HIDE DEF q
  <2>7. \A x \in Requests : req'[x] = IF x = r THEN q ELSE req[x]
    BY <2>1 DEF IInv, TypeOK
  <2>8. /\ id \notin DOMAIN rows
        /\ \A x \in Requests : id \notin DOMAIN pending[x] /\ id # req[x].id
    BY <1>0, UnclaimedIsNew
  <2>9. Claims'
    <3>1. \A x \in Requests : Creating(req'[x]) =>
              /\ req'[x].id \notin DOMAIN rows
              /\ \A y \in Requests \ {x} :
                    /\ req'[x].id \notin DOMAIN pending[y]
                    /\ Creating(req'[y]) => req'[y].id # req'[x].id
      BY <2>6, <2>7, <2>8 DEF IInv, Claims
    <3> QED BY <1>0, <2>1, <3>1 DEF Claims, Creating
  <2>10. EntriesApart' /\ AliveUnique'
    BY <1>0, <2>1 DEF IInv, EntriesApart, AliveUnique, Alive
  <2>11. pending' = [pending EXCEPT ![r] = pending[r]]
         /\ IsTable(pending[r], ConnectorIds, Row) /\ IsTable(rows, ConnectorIds, Row)
    BY <2>1 DEF IInv, TypeOK
  <2> QED BY <1>0, <2>1, <2>5, <2>9, <2>10, <2>11, RequestStep
<1> QED BY <1>1, <1>2

\* The beginning of a seeder.
LEMMA StartSeedKeeps ==
    ASSUME IInv, NEW r \in Requests, StartSeed(r), UNCHANGED faulty
    PROVE  IInv'
<1> DEFINE q == [req[r] EXCEPT !.kind = "seed", !.pc = "seed", !.todo = Defaults,
                               !.failed = FALSE]
<1>1. req' = [req EXCEPT ![r] = q] /\ UNCHANGED <<rows, pending, files>>
      /\ files \in [Keys -> Images \cup {None}]
  BY DEF StartSeed, IInv, TypeOK
<1>2. req[r] \in Request
  BY DEF IInv, TypeOK
<1>3. q \in Request /\ q.pc = "seed" /\ q.kind = "seed"
  BY <1>2, LogoConstants DEF Request, Pcs
<1>4. Consistent(q, pending[r], DOMAIN rows)
  BY <1>3 DEF Consistent, SeedPcs
<1>5. ~Creating(q)
  BY <1>3 DEF Creating
<1> HIDE DEF q
<1> QED BY <1>1, <1>4, <1>5, GoStep

-----------------------------------------------------------------------------
(* Inserts and commits.                                                    *)

\* A row that passes the index checks is alone with its name and image.
LEMMA IndexesPassed ==
    ASSUME NEW id, NEW row, ~row.deleted, ~IndexesRefuse(id, row)
    PROVE  \A other \in DOMAIN rows \ {id} : Alive(other) =>
              /\ rows[other].name # row.name
              /\ row.digest # None => rows[other].digest # row.digest
BY DEF IndexesRefuse

\* An insert of a row without an image, under a key that no row or creation of another
\* request has and with a name that this transaction has not inserted.
LEMMA InsertStep ==
    ASSUME IInv, NEW r \in Requests, NEW q, NEW id \in ConnectorIds, NEW row \in Row,
           req' = [req EXCEPT ![r] = q],
           pending' = [pending EXCEPT ![r] = Put(@, id, row)],
           UNCHANGED <<rows, files, faulty>>,
           ~row.deleted, row.digest = None,
           ~NameHeld(r, row.name), ~IndexesRefuse(id, row),
           \A j \in DOMAIN pending[r] : pending[r][j].name # row.name /\ j # id,
           id \notin DOMAIN rows,
           \A x \in Requests \ {r} : Creating(req[x]) => req[x].id # id,
           Creating(q) => (Creating(req[r]) /\ q.id = req[r].id),
           Consistent(q, Put(pending[r], id, row), DOMAIN rows)
    PROVE  IInv'
<1> DEFINE w == Put(pending[r], id, row)
<1>0. /\ IsTable(pending[r], ConnectorIds, Row) /\ IsTable(rows, ConnectorIds, Row)
      /\ DOMAIN pending = Requests /\ DOMAIN req = Requests
      /\ files \in [Keys -> Images \cup {None}]
  BY DEF IInv, TypeOK
<1>1. /\ IsTable(w, ConnectorIds, Row) /\ DOMAIN w = DOMAIN pending[r] \cup {id}
      /\ w[id] = row /\ \A x \in DOMAIN pending[r] : w[x] = pending[r][x]
  <2>1. IsTable(w, ConnectorIds, Row)
    BY <1>0, PutIsTable
  <2> QED BY <2>1 DEF Put
<1>2. pending' = [pending EXCEPT ![r] = w]
  OBVIOUS
<1> HIDE DEF w
<1>3. \A x \in Requests : /\ req'[x] = IF x = r THEN q ELSE req[x]
                          /\ pending'[x] = IF x = r THEN w ELSE pending[x]
  BY <1>0, <1>2
<1>4. Claims'
  <2>1. \A x \in Requests : Creating(req'[x]) => (Creating(req[x]) /\ req'[x].id = req[x].id)
    BY <1>3
  <2>2. \A x \in Requests : DOMAIN pending'[x] \subseteq DOMAIN pending[x]
                                \cup (IF x = r THEN {id} ELSE {})
    BY <1>1, <1>3
  <2>3. \A x \in Requests : Creating(req'[x]) =>
              /\ req'[x].id \notin DOMAIN rows
              /\ \A y \in Requests \ {x} :
                    /\ req'[x].id \notin DOMAIN pending'[y]
                    /\ Creating(req'[y]) => req'[y].id # req'[x].id
    BY <2>1, <2>2 DEF IInv, Claims
  <2> QED BY <2>3 DEF Claims, Creating
<1>5. EntriesApart'
  <2>1. \A i \in DOMAIN rows : Alive(i) => rows[i].name # row.name
    BY IndexesPassed
  <2>2. \A x \in Requests \ {r} : \A j \in DOMAIN pending[x] : pending[x][j].name # row.name
    BY DEF NameHeld
  <2>3. ASSUME NEW x \in Requests, NEW i \in DOMAIN pending'[x]
        PROVE  \/ x = r /\ i = id /\ pending'[x][i] = row
               \/ /\ i \in DOMAIN pending[x] /\ pending'[x][i] = pending[x][i]
                  /\ pending[x][i].name # row.name
    BY <1>1, <1>3, <2>2
  <2>4. \A x \in Requests : \A i \in DOMAIN pending'[x] :
            /\ pending'[x][i].digest = None
            /\ \A k \in DOMAIN rows : Alive(k) => rows[k].name # pending'[x][i].name
    BY <2>1, <2>3 DEF IInv, EntriesApart
  <2>5. \A x, y \in Requests : \A i \in DOMAIN pending'[x], j \in DOMAIN pending'[y] :
            pending'[y][j].name = pending'[x][i].name => y = x /\ j = i
    BY <2>3 DEF IInv, EntriesApart
  <2> QED BY <2>4, <2>5 DEF EntriesApart, Alive
<1>6. AliveUnique'
  BY DEF IInv, AliveUnique, Alive
<1> QED BY <1>0, <1>1, <1>2, <1>4, <1>5, <1>6, RequestStep

\* A commit of one row: of a creation, or of a row that is stored.
LEMMA CommitRowStep ==
    ASSUME IInv, NEW r \in Requests, NEW id \in ConnectorIds, NEW row \in Row, Answer(r),
           rows' = Put(rows, id, row), UNCHANGED <<files, faulty>>,
           ~row.deleted => ~NameHeld(r, row.name),
           ~IndexesRefuse(id, row),
           id \in DOMAIN rows \/ (Creating(req[r]) /\ id = req[r].id)
    PROVE  IInv'
<1> DEFINE q == Idle(FALSE)
<1>0. /\ IsTable(rows, ConnectorIds, Row)
      /\ DOMAIN pending = Requests /\ DOMAIN req = Requests
      /\ files \in [Keys -> Images \cup {None}]
  BY DEF IInv, TypeOK
<1>1. /\ IsTable(rows', ConnectorIds, Row) /\ DOMAIN rows' = DOMAIN rows \cup {id}
      /\ rows'[id] = row /\ \A x \in DOMAIN rows : x # id => rows'[x] = rows[x]
  <2>1. IsTable(Put(rows, id, row), ConnectorIds, Row)
    BY <1>0, PutIsTable
  <2> QED BY <2>1 DEF Put
<1>2. req' = [req EXCEPT ![r] = q] /\ pending' = [pending EXCEPT ![r] = EmptyTable]
  BY DEF Answer, Close
<1>3. ~Creating(q) /\ Consistent(q, EmptyTable, DOMAIN rows')
  BY IdleConsistent DEF Creating, Idle
<1> HIDE DEF q
<1>4. \A x \in Requests : /\ req'[x] = IF x = r THEN q ELSE req[x]
                          /\ pending'[x] = IF x = r THEN EmptyTable ELSE pending[x]
  BY <1>0, <1>2
<1>5. \A x \in Requests : Creating(req'[x]) => x # r /\ req'[x] = req[x]
  BY <1>3, <1>4
<1>6. \A x \in Requests : DOMAIN pending'[x] \subseteq DOMAIN pending[x]
  BY <1>4, EmptyIsTable
<1>7. Claims'
  <2>1. \A x \in Requests : Creating(req'[x]) => req'[x].id # id
    BY <1>5 DEF IInv, Claims
  <2>2. \A x \in Requests : Creating(req'[x]) =>
              /\ req'[x].id \notin DOMAIN rows'
              /\ \A y \in Requests \ {x} :
                    /\ req'[x].id \notin DOMAIN pending'[y]
                    /\ Creating(req'[y]) => req'[y].id # req'[x].id
    BY <1>1, <1>5, <1>6, <2>1 DEF IInv, Claims
  <2> QED BY <2>2 DEF Claims, Creating
<1>8. \A i \in DOMAIN rows' : Alive(i)' =>
          \/ i = id /\ ~row.deleted
          \/ i # id /\ i \in DOMAIN rows /\ Alive(i) /\ rows'[i] = rows[i]
  BY <1>1 DEF Alive
<1>9. EntriesApart'
  <2>1. ASSUME NEW x \in Requests, NEW i \in DOMAIN pending'[x]
        PROVE  x # r /\ i \in DOMAIN pending[x] /\ pending'[x][i] = pending[x][i]
    BY <1>4, EmptyIsTable
  <2>2. ~row.deleted => \A x \in Requests \ {r} : \A j \in DOMAIN pending[x] :
                            pending[x][j].name # row.name
    BY DEF NameHeld
  <2>3. \A x \in Requests : \A i \in DOMAIN pending'[x] :
            /\ pending'[x][i].digest = None
            /\ \A k \in DOMAIN rows' : Alive(k)' => rows'[k].name # pending'[x][i].name
    BY <1>1, <1>8, <2>1, <2>2 DEF IInv, EntriesApart
  <2>4. \A x, y \in Requests : \A i \in DOMAIN pending'[x], j \in DOMAIN pending'[y] :
            pending'[y][j].name = pending'[x][i].name => y = x /\ j = i
    BY <2>1 DEF IInv, EntriesApart
  <2> QED BY <2>3, <2>4 DEF EntriesApart
<1>10. AliveUnique'
  <2>1. \A i, j \in DOMAIN rows' : i # j /\ Alive(i)' /\ Alive(j)'
            => /\ rows'[i].name # rows'[j].name
               /\ (rows'[i].digest # None => rows'[i].digest # rows'[j].digest)
    BY <1>1, <1>8, IndexesPassed DEF IInv, AliveUnique
  <2> QED BY <2>1 DEF AliveUnique
<1> QED BY <1>0, <1>1, <1>2, <1>3, <1>7, <1>9, <1>10, EmptyIsTable, RequestStep

\* A seeder commits what it has inserted.
LEMMA SeedCommitKeeps ==
    ASSUME IInv, NEW r \in Requests, SeedCommit(r), UNCHANGED faulty
    PROVE  IInv'
<1> DEFINE q == Idle(FALSE)
<1>0. /\ IsTable(rows, ConnectorIds, Row) /\ IsTable(pending[r], ConnectorIds, Row)
      /\ DOMAIN pending = Requests /\ DOMAIN req = Requests
      /\ files' \in [Keys -> Images \cup {None}]
  BY DEF IInv, TypeOK, SeedCommit
<1>1. rows' = [id \in DOMAIN rows \cup DOMAIN pending[r] |->
                  IF id \in DOMAIN rows THEN rows[id] ELSE pending[r][id]]
  BY DEF SeedCommit
<1>2. req' = [req EXCEPT ![r] = q] /\ pending' = [pending EXCEPT ![r] = EmptyTable]
  BY DEF SeedCommit, Answer, Close
<1>3. ~Creating(q) /\ Consistent(q, EmptyTable, DOMAIN rows')
  BY IdleConsistent DEF Creating, Idle
<1> HIDE DEF q
<1>4. \A x \in Requests : /\ req'[x] = IF x = r THEN q ELSE req[x]
                          /\ pending'[x] = IF x = r THEN EmptyTable ELSE pending[x]
  BY <1>0, <1>2
<1>5. IsTable(rows', ConnectorIds, Row)
  BY <1>0, <1>1 DEF IsTable
<1>6. \A x \in Requests : Creating(req'[x]) => x # r /\ req'[x] = req[x]
  BY <1>3, <1>4
<1>7. \A x \in Requests : DOMAIN pending'[x] \subseteq DOMAIN pending[x]
  BY <1>4, EmptyIsTable
<1>8. Claims'
  <2>1. \A x \in Requests : Creating(req'[x]) =>
              /\ req'[x].id \notin DOMAIN rows'
              /\ \A y \in Requests \ {x} :
                    /\ req'[x].id \notin DOMAIN pending'[y]
                    /\ Creating(req'[y]) => req'[y].id # req'[x].id
    BY <1>1, <1>6, <1>7 DEF IInv, Claims
  <2> QED BY <2>1 DEF Claims, Creating
<1>9. \A i \in DOMAIN rows' :
          \/ i \in DOMAIN rows /\ rows'[i] = rows[i] /\ Alive(i) = Alive(i)'
          \/ i \in DOMAIN pending[r] /\ rows'[i] = pending[r][i]
  BY <1>1 DEF Alive
<1>10. EntriesApart'
  <2>1. ASSUME NEW x \in Requests, NEW i \in DOMAIN pending'[x]
        PROVE  x # r /\ i \in DOMAIN pending[x] /\ pending'[x][i] = pending[x][i]
    BY <1>4, EmptyIsTable
  <2>2. \A x \in Requests : \A i \in DOMAIN pending'[x] :
            /\ pending'[x][i].digest = None
            /\ \A k \in DOMAIN rows' : Alive(k)' => rows'[k].name # pending'[x][i].name
    BY <1>9, <2>1 DEF IInv, EntriesApart
  <2>3. \A x, y \in Requests : \A i \in DOMAIN pending'[x], j \in DOMAIN pending'[y] :
            pending'[y][j].name = pending'[x][i].name => y = x /\ j = i
    BY <2>1 DEF IInv, EntriesApart
  <2> QED BY <2>2, <2>3 DEF EntriesApart
<1>11. AliveUnique'
  <2>1. \A i, j \in DOMAIN rows' : i # j /\ Alive(i)' /\ Alive(j)'
            => /\ rows'[i].name # rows'[j].name
               /\ (rows'[i].digest # None => rows'[i].digest # rows'[j].digest)
    BY <1>9 DEF IInv, AliveUnique, EntriesApart
  <2> QED BY <2>1 DEF AliveUnique
<1> QED BY <1>1, <1>0, <1>2, <1>3, <1>5, <1>8, <1>10, <1>11, EmptyIsTable, RequestStep

\* A commit of one row, or its refusal by the indexes.
LEMMA WriteKeeps ==
    ASSUME IInv, NEW r \in Requests, Write(r), UNCHANGED faulty
    PROVE  IInv'
<1> DEFINE id == req[r].id
           row == IF req[r].kind = "create" THEN req[r].object
                  ELSE Flush(rows[id], req[r].seen, req[r].object)
<1>1. Consistent(req[r], pending[r], DOMAIN rows) /\ req[r].pc = "write"
  BY DEF IInv, Write
<1>2. /\ id \in ConnectorIds /\ req[r].object \in Row
      /\ req[r].kind # "create" => req[r].seen \in Row /\ id \in DOMAIN rows
  BY <1>1 DEF Consistent, SeedPcs
<1>3. row \in Row
  BY <1>2, FlushTyped DEF IInv, TypeOK, IsTable
<1>4. id \in DOMAIN rows \/ (Creating(req[r]) /\ id = req[r].id)
  BY <1>1, <1>2 DEF Creating
<1>5. CASE IndexesRefuse(id, row)
  <2>1. Fail(r) /\ UNCHANGED <<rows, files>>
    BY <1>5 DEF Write
  <2> QED BY <2>1, CloseStep DEF Fail
<1>6. CASE ~IndexesRefuse(id, row)
  <2>1. /\ rows' = Put(rows, id, row) /\ Answer(r) /\ UNCHANGED files
        /\ ~row.deleted => ~NameHeld(r, row.name)
    BY <1>6 DEF Write
  <2> HIDE DEF id, row
  <2> QED BY <1>2, <1>3, <1>4, <1>6, <2>1, CommitRowStep
<1> QED BY <1>5, <1>6

\* The first flush of a creation, or its refusal by the indexes.
LEMMA InsertKeeps ==
    ASSUME IInv, NEW r \in Requests, Insert(r), UNCHANGED faulty
    PROVE  IInv'
<1> DEFINE id == req[r].id
           row == req[r].object
           image == req[r].image
           pc == IF image = None THEN "write"
                 ELSE IF Suspends(image) THEN "readFile" ELSE "checkImage"
           q == [req[r] EXCEPT !.pc = pc]
<1>1. Consistent(req[r], pending[r], DOMAIN rows) /\ req[r].pc = "insert"
      /\ req[r] \in Request
  BY DEF IInv, Insert, Consistent
<1>2. /\ id \in ConnectorIds /\ row \in Row /\ row.digest = None
      /\ req[r].kind = "create" /\ DOMAIN pending[r] = {}
  BY <1>1 DEF Consistent, SeedPcs
<1>3. Creating(req[r])
  BY <1>1, <1>2 DEF Creating
<1>4. id \notin DOMAIN rows /\ \A x \in Requests \ {r} : Creating(req[x]) => req[x].id # id
  BY <1>3 DEF IInv, Claims
<1>5. CASE IndexesRefuse(id, row)
  BY <1>5, CloseStep DEF Insert, Fail
<1>6. CASE ~IndexesRefuse(id, row)
  <2>1. /\ req' = [req EXCEPT ![r].pc = pc]
        /\ pending' = [pending EXCEPT ![r] = Put(@, id, row)]
        /\ UNCHANGED <<rows, files>> /\ ~NameHeld(r, row.name)
    BY <1>6 DEF Insert, Goto
  <2>2. req' = [req EXCEPT ![r] = q]
    BY <2>1
  <2>3. /\ image \in Images \cup {None} /\ pc \in {"write", "readFile", "checkImage"}
        /\ pc # "write" => image \in Images
    BY <1>1 DEF Request
  <2>4. /\ q \in Request /\ q.pc = pc /\ q.kind = "create" /\ q.object = row
        /\ q.id = req[r].id /\ q.image = image
    BY <1>1, <1>2, <2>3 DEF Request, Pcs
  <2> HIDE DEF q, pc
  <2>5. Consistent(q, Put(pending[r], id, row), DOMAIN rows)
    BY <1>2, <2>3, <2>4 DEF Consistent, SeedPcs, Coroutines
  <2>6. ~row.deleted
    BY <1>1 DEF Consistent
  <2> HIDE DEF id, row
  <2> QED BY <1>2, <1>3, <1>4, <1>6, <2>1, <2>2, <2>4, <2>5, <2>6, InsertStep
<1> QED BY <1>5, <1>6

\* The seeder inserts a connector with a default name.
LEMMA SeedInsertKeeps ==
    ASSUME IInv, NEW r \in Requests, SeedInsert(r), UNCHANGED faulty
    PROVE  IInv'
<1> DEFINE name == Head(req[r].todo)
           row == [name |-> name, logo |-> None, digest |-> None, deleted |-> FALSE]
           q == [req[r] EXCEPT !.todo = Tail(@), !.pc = "seed"]
<1>1. Consistent(req[r], pending[r], DOMAIN rows) /\ req[r].pc = "seedInsert"
      /\ req[r] \in Request
  BY DEF IInv, SeedInsert, Consistent
<1>2. /\ req[r].todo \in Seq(Names) /\ req[r].todo # <<>>
      /\ \A j \in DOMAIN pending[r] : pending[r][j].name # name
  BY <1>1 DEF Consistent, Request
<1>3. name \in Names /\ Tail(req[r].todo) \in Seq(Names)
  BY <1>2
<1>4. row \in Row /\ ~row.deleted /\ row.digest = None /\ row.name = name
  BY <1>3 DEF Row
<1>5. PICK id \in ConnectorIds \ Claimed :
         IF IndexesRefuse(id, row)
         THEN Fail(r)
         ELSE /\ pending' = [pending EXCEPT ![r] = Put(@, id, row)]
              /\ req' = [req EXCEPT ![r].todo = Tail(@), ![r].pc = "seed"]
  BY DEF SeedInsert
<1>6. UNCHANGED <<rows, files>> /\ ~NameHeld(r, row.name)
  BY DEF SeedInsert
<1>7. CASE IndexesRefuse(id, row)
  BY <1>5, <1>6, <1>7, CloseStep DEF Fail
<1>8. CASE ~IndexesRefuse(id, row)
  <2>1. pending' = [pending EXCEPT ![r] = Put(@, id, row)] /\ req' = [req EXCEPT ![r] = q]
    BY <1>5, <1>8
  <2>2. q \in Request /\ q.pc = "seed" /\ q.kind = req[r].kind /\ q.id = req[r].id
    BY <1>1, <1>3 DEF Request, Pcs
  <2>3. /\ id \notin DOMAIN rows
        /\ \A x \in Requests : id \notin DOMAIN pending[x] /\ id # req[x].id
    BY <1>5, UnclaimedIsNew
  <2>4. Consistent(q, Put(pending[r], id, row), DOMAIN rows)
    BY <2>2 DEF Consistent, SeedPcs
  <2>5. Creating(q) => (Creating(req[r]) /\ q.id = req[r].id)
    BY <1>1, <2>2 DEF Creating
  <2> HIDE DEF q
  <2>6. \A j \in DOMAIN pending[r] : pending[r][j].name # row.name /\ j # id
    BY <1>2, <1>4, <2>3
  <2> HIDE DEF row, name
  <2> QED BY <1>4, <1>5, <1>6, <1>8, <2>1, <2>3, <2>4, <2>5, <2>6, InsertStep
<1> QED BY <1>7, <1>8

\* The seeder looks a default name up.
LEMMA SeedLookupKeeps ==
    ASSUME IInv, NEW r \in Requests, SeedLookup(r), UNCHANGED faulty
    PROVE  IInv'
<1> DEFINE todo == req[r].todo
<1>1. Consistent(req[r], pending[r], DOMAIN rows) /\ req[r].pc = "seed"
      /\ req[r] \in Request /\ UNCHANGED <<rows, pending, files>>
      /\ files' \in [Keys -> Images \cup {None}]
  BY DEF IInv, SeedLookup, Consistent, TypeOK
<1>2. todo \in Seq(Names)
  BY <1>1 DEF Request
<1>3. CASE todo = <<>>
  <2> DEFINE q == [req[r] EXCEPT !.pc = "seedCommit"]
  <2>1. req' = [req EXCEPT ![r] = q]
    BY <1>3 DEF SeedLookup, Goto
  <2>2. q \in Request /\ q.pc = "seedCommit" /\ q.kind = req[r].kind /\ q.id = req[r].id
    BY <1>1 DEF Request, Pcs
  <2>3. Consistent(q, pending[r], DOMAIN rows)
    BY <2>2 DEF Consistent, SeedPcs
  <2>4. Creating(q) => (Creating(req[r]) /\ q.id = req[r].id)
    BY <1>1, <2>2 DEF Creating
  <2> HIDE DEF q
  <2> QED BY <1>1, <2>1, <2>3, <2>4, GoStep
<1>4. CASE todo # <<>> /\ Seeded(r, Head(todo))
  <2> DEFINE q == [req[r] EXCEPT !.todo = Tail(@)]
  <2>1. req' = [req EXCEPT ![r] = q]
    BY <1>4 DEF SeedLookup
  <2>2. Tail(todo) \in Seq(Names)
    BY <1>2, <1>4
  <2>3. q \in Request /\ q.pc = "seed" /\ q.kind = req[r].kind /\ q.id = req[r].id
    BY <1>1, <2>2 DEF Request, Pcs
  <2>4. Consistent(q, pending[r], DOMAIN rows)
    BY <2>3 DEF Consistent, SeedPcs
  <2>5. Creating(q) => (Creating(req[r]) /\ q.id = req[r].id)
    BY <1>1, <2>3 DEF Creating
  <2> HIDE DEF q
  <2> QED BY <1>1, <2>1, <2>4, <2>5, GoStep
<1>5. CASE todo # <<>> /\ ~Seeded(r, Head(todo))
  <2> DEFINE q == [req[r] EXCEPT !.pc = "seedInsert"]
  <2>1. req' = [req EXCEPT ![r] = q]
    BY <1>5 DEF SeedLookup, Goto
  <2>2. q \in Request /\ q.pc = "seedInsert" /\ q.kind = req[r].kind /\ q.id = req[r].id
        /\ q.todo = todo
    BY <1>1 DEF Request, Pcs
  <2>3. \A id \in DOMAIN pending[r] : pending[r][id].name # Head(todo)
    BY <1>5 DEF Seeded
  <2>4. Consistent(q, pending[r], DOMAIN rows)
    BY <1>5, <2>2, <2>3 DEF Consistent, SeedPcs
  <2>5. Creating(q) => (Creating(req[r]) /\ q.id = req[r].id)
    BY <1>1, <2>2 DEF Creating
  <2> HIDE DEF q
  <2> QED BY <1>1, <2>1, <2>4, <2>5, GoStep
<1> QED BY <1>3, <1>4, <1>5

\* A request moves on from one statement to the next.
LEMMA GotoStep ==
    ASSUME IInv, NEW r \in Requests, NEW pc \in Pcs \ (SeedPcs \cup {"idle", "insert"}),
           req[r].pc \notin SeedPcs \cup {"idle"},
           req' = [req EXCEPT ![r].pc = pc], UNCHANGED <<rows, pending, faulty>>,
           files' \in [Keys -> Images \cup {None}],
           pc \in {"readFile", "purge", "save"} => req[r].kind \in Coroutines,
           pc \in {"readFile", "checkImage", "dropLogo", "purge", "save"}
               /\ req[r].kind \in Coroutines => req[r].image \in Images,
           pc # "checkName",
           pc = "dropLogo" => req[r].kind \in Coroutines \cup {"clear"},
           pc = "move" => req[r].kind = "rename" /\ req[r].seen.logo \in Keys
    PROVE  IInv'
<1> DEFINE q == [req[r] EXCEPT !.pc = pc]
<1>1. Consistent(req[r], pending[r], DOMAIN rows) /\ req[r] \in Request
  BY DEF IInv, Consistent
<1>2. /\ q \in Request /\ q.pc = pc /\ q.kind = req[r].kind /\ q.id = req[r].id
      /\ q.image = req[r].image /\ q.seen = req[r].seen /\ q.object = req[r].object
  BY <1>1 DEF Request
<1>3. req' = [req EXCEPT ![r] = q]
  OBVIOUS
<1> HIDE DEF q
<1>4. Consistent(q, pending[r], DOMAIN rows)
  BY <1>1, <1>2 DEF Consistent, SeedPcs
<1>5. Creating(q) => (Creating(req[r]) /\ q.id = req[r].id)
  BY <1>2 DEF Creating
<1> QED BY <1>3, <1>4, <1>5, GoStep

\* The lookup of the new name.
LEMMA CheckNameKeeps ==
    ASSUME IInv, NEW r \in Requests, CheckName(r), UNCHANGED faulty
    PROVE  IInv'
<1> DEFINE object == req[r].object
<1>1. Consistent(req[r], pending[r], DOMAIN rows) /\ req[r].pc = "checkName"
      /\ UNCHANGED <<rows, files>> /\ files' \in [Keys -> Images \cup {None}]
  BY DEF IInv, CheckName, TypeOK
<1>2. /\ req[r].kind \in {"rename", "restore"} /\ object \in Row /\ req[r].seen \in Row
      /\ req[r].kind = "rename" => object.logo = req[r].seen.logo
  BY <1>1 DEF Consistent, SeedPcs
<1>3. CASE NameTaken(req[r].id, object.name)
  BY <1>1, <1>3, CloseStep DEF CheckName, Answer
<1>4. CASE ~NameTaken(req[r].id, object.name)
  <2>1. PICK pc \in {"write", "checkImage", "move"} :
           /\ req' = [req EXCEPT ![r].pc = pc] /\ UNCHANGED pending
           /\ pc = "move" => req[r].kind = "rename" /\ object.logo # None
    BY <1>2, <1>4 DEF CheckName, Goto
  <2>2. pc = "move" => req[r].seen.logo \in Keys
    BY <1>2, <2>1 DEF Row
  <2>3. req[r].kind \notin Coroutines
    BY <1>2 DEF Coroutines
  <2>4. pc \in Pcs \ (SeedPcs \cup {"idle", "insert"})
        /\ req[r].pc \notin SeedPcs \cup {"idle"}
    BY <1>1, <2>1 DEF Pcs, SeedPcs
  <2> QED BY <1>1, <2>1, <2>2, <2>3, <2>4, GotoStep
<1> QED BY <1>3, <1>4

\* The lookup of the image's digest.
LEMMA CheckImageKeeps ==
    ASSUME IInv, NEW r \in Requests, CheckImage(r), UNCHANGED faulty
    PROVE  IInv'
<1>1. Consistent(req[r], pending[r], DOMAIN rows) /\ req[r].pc = "checkImage"
      /\ UNCHANGED <<rows, files>> /\ files' \in [Keys -> Images \cup {None}]
  BY DEF IInv, CheckImage, TypeOK
<1>2. req[r].kind \in Coroutines => req[r].image \in Images
  BY <1>1 DEF Consistent
<1>3. CASE Answer(r)
  BY <1>1, <1>3, CloseStep DEF Answer
<1>4. CASE ~Answer(r)
  <2>1. PICK pc \in {"dropLogo", "write"} :
           /\ req' = [req EXCEPT ![r].pc = pc] /\ UNCHANGED pending
           /\ pc = "dropLogo" => req[r].kind \in Coroutines
    BY <1>4 DEF CheckImage, Goto
  <2>2. pc \in Pcs \ (SeedPcs \cup {"idle", "insert"})
        /\ req[r].pc \notin SeedPcs \cup {"idle"}
    BY <1>1, <2>1 DEF Pcs, SeedPcs
  <2> QED BY <1>1, <1>2, <2>1, <2>2, GotoStep
<1> QED BY <1>3, <1>4

\* The read of the image and the operations that drop files touch no row.
LEMMA StorageKeeps ==
    ASSUME IInv, NEW r \in Requests, ReadFile(r) \/ DropLogo(r) \/ Purge(r), UNCHANGED faulty
    PROVE  IInv'
<1>1. Consistent(req[r], pending[r], DOMAIN rows) /\ TypeOK
  BY DEF IInv
<1>2. CASE ReadFile(r)
  <2>1. /\ req[r].pc = "readFile" /\ req' = [req EXCEPT ![r].pc = "checkImage"]
        /\ UNCHANGED <<rows, pending, files>>
    BY <1>2 DEF ReadFile, Suspended, Goto
  <2>2. req[r].image \in Images /\ files' \in [Keys -> Images \cup {None}]
    BY <1>1, <2>1 DEF Consistent, TypeOK
  <2> QED BY <2>1, <2>2, GotoStep DEF Pcs, SeedPcs
<1>3. CASE DropLogo(r)
  <2> DEFINE old == IF req[r].kind = "create" THEN req[r].object ELSE req[r].seen
             keys == {k \in {old.logo} \ {None} :
                         ~ReferencedByOthers(req[r].id, k, old.digest)}
             pc == IF req[r].kind = "clear" THEN "write" ELSE "purge"
  <2>1. /\ req[r].pc = "dropLogo" /\ files' \in Deleting(keys)
        /\ req' = [req EXCEPT ![r].pc = pc] /\ UNCHANGED <<rows, pending>>
    BY <1>3 DEF DropLogo, Goto
  <2>2. old \in Row /\ req[r].kind \in Coroutines \cup {"clear"}
        /\ (req[r].kind \in Coroutines => req[r].image \in Images)
    BY <1>1, <2>1 DEF Consistent, SeedPcs
  <2>3. keys \in SUBSET Keys
    BY <2>2 DEF Row
  <2>4. files' \in [Keys -> Images \cup {None}]
    BY <1>1, <2>1, <2>3, StorageTyped
  <2>5. pc \in {"write", "purge"} /\ (pc = "purge" => req[r].kind \in Coroutines)
    BY <2>2
  <2> HIDE DEF pc
  <2>6. /\ pc \in Pcs \ (SeedPcs \cup {"idle", "insert"})
        /\ req[r].pc \notin SeedPcs \cup {"idle"}
    BY <2>1, <2>5 DEF Pcs, SeedPcs
  <2> QED BY <2>1, <2>2, <2>4, <2>5, <2>6, GotoStep
<1>4. CASE Purge(r)
  <2> DEFINE keep == LogoKey(req[r].object.name, ExtOf[req[r].image])
             keys == {k \in Stored(keep.slug) \ {keep} : ~ReferencedByOthers(req[r].id, k, None)}
  <2>1. /\ req[r].pc = "purge" /\ files' \in Deleting(keys)
        /\ req' = [req EXCEPT ![r].pc = "save"] /\ UNCHANGED <<rows, pending>>
    BY <1>4 DEF Purge, Goto
  <2>2. req[r].kind \in Coroutines /\ req[r].image \in Images
    BY <1>1, <2>1 DEF Consistent
  <2>3. keys \in SUBSET Keys
    BY DEF Stored
  <2>4. files' \in [Keys -> Images \cup {None}]
    BY <1>1, <2>1, <2>3, StorageTyped
  <2> QED BY <2>1, <2>2, <2>4, GotoStep DEF Pcs, SeedPcs
<1> QED BY <1>2, <1>3, <1>4

\* The new file, or the file that follows the new name.
LEMMA SaveKeeps ==
    ASSUME IInv, NEW r \in Requests, Save(r) \/ Move(r), UNCHANGED faulty
    PROVE  IInv'
<1>1. Consistent(req[r], pending[r], DOMAIN rows) /\ req[r] \in Request /\ TypeOK
  BY DEF IInv, Consistent
<1>a. ASSUME NEW object \in Row, req[r].pc \in {"save", "move"},
             req' = [req EXCEPT ![r] = [req[r] EXCEPT !.object = object, !.pc = "write"]],
             UNCHANGED <<rows, pending>>, files' \in [Keys -> Images \cup {None}]
      PROVE  IInv'
  <2> DEFINE q == [req[r] EXCEPT !.object = object, !.pc = "write"]
  <2>1. /\ q \in Request /\ q.pc = "write" /\ q.kind = req[r].kind /\ q.id = req[r].id
        /\ q.seen = req[r].seen /\ q.object = object
    BY <1>1 DEF Request, Pcs
  <2>2. req' = [req EXCEPT ![r] = q]
    BY <1>a
  <2> HIDE DEF q
  <2>3. Consistent(q, pending[r], DOMAIN rows)
    BY <1>1, <1>a, <2>1 DEF Consistent, SeedPcs
  <2>4. Creating(q) => (Creating(req[r]) /\ q.id = req[r].id)
    BY <1>a, <2>1 DEF Creating
  <2> QED BY <1>a, <2>2, <2>3, <2>4, GoStep
<1>2. CASE Save(r)
  <2> DEFINE image == req[r].image
             key == LogoKey(req[r].object.name, ExtOf[image])
             object == [req[r].object EXCEPT !.logo = key, !.digest = image]
  <2>1. req[r].pc = "save" /\ UNCHANGED <<rows, pending>>
        /\ files' = [files EXCEPT ![key] = image]
    BY <1>2 DEF Save
  <2>2. image \in Images /\ req[r].object \in Row
    BY <1>1, <2>1 DEF Consistent, SeedPcs
  <2>3. key \in Keys
    BY <2>2, KeysAreTyped DEF Row
  <2>4. files' \in [Keys -> Images \cup {None}]
    BY <1>1, <2>1, <2>2, <2>3, StorageTyped
  <2>5. object \in Row
    BY <2>2, <2>3 DEF Row
  <2>6. req' = [req EXCEPT ![r] = [req[r] EXCEPT !.object = object, !.pc = "write"]]
    BY <1>1, <1>2 DEF Save, Request
  <2> QED BY <1>a, <2>1, <2>4, <2>5, <2>6
<1>3. CASE Move(r)
  <2> DEFINE src == req[r].seen.logo
             logo == RenamedLogo(req[r].seen, req[r].object.name)
             dst == LogoKey(req[r].object.name, src.ext)
             object == [req[r].object EXCEPT !.logo = logo]
  <2>1. req[r].pc = "move" /\ UNCHANGED <<rows, pending>>
        /\ (files' = files \/ files' \in LocalMoving(src, dst) \cup S3Moving(src, dst))
    BY <1>3 DEF Move
  <2>2. src \in Keys /\ req[r].object \in Row
    BY <1>1, <2>1 DEF Consistent, SeedPcs
  <2>3. dst \in Keys /\ logo \in Keys
    BY <2>2, KeysAreTyped DEF Row, RenamedLogo
  <2>4. files' \in [Keys -> Images \cup {None}]
    <3> HIDE DEF src, dst, logo
    <3> QED BY <1>1, <2>1, <2>2, <2>3, StorageTyped DEF TypeOK
  <2>5. object \in Row
    BY <2>2, <2>3 DEF Row
  <2>6. req' = [req EXCEPT ![r] = [req[r] EXCEPT !.object = object, !.pc = "write"]]
    BY <1>1, <1>3 DEF Move, Request
  <2> QED BY <1>a, <2>1, <2>4, <2>5, <2>6
<1> QED BY <1>2, <1>3

-----------------------------------------------------------------------------
(* The theorems.                                                           *)

\* Every step keeps the invariant.
LEMMA StepPreserves ==
    ASSUME IInv, NEW r \in Requests,
           \/ Start(r) /\ UNCHANGED faulty
           \/ Step(r)
           \/ Abort(r) /\ UNCHANGED faulty
    PROVE  IInv'
<1>1. CASE Start(r) /\ UNCHANGED faulty
  BY <1>1, StartSeedKeeps, CreateKeeps, LoadsKeep DEF Start
<1>2. CASE Step(r)
  BY <1>2, InsertKeeps, CheckNameKeeps, CheckImageKeeps, StorageKeeps, SaveKeeps, WriteKeeps,
     SeedLookupKeeps, SeedInsertKeeps, SeedCommitKeeps DEF Step
<1>3. CASE Abort(r) /\ UNCHANGED faulty
  BY <1>3, CloseStep DEF Abort, Fail
<1> QED BY <1>1, <1>2, <1>3

\* The invariant holds throughout.
LEMMA Invariance == Spec => []IInv
<1>1. IInv /\ UNCHANGED vars => IInv'
  BY DEF IInv, TypeOK, Claims, EntriesApart, AliveUnique, Alive, vars
<1>2. IInv /\ [Next]_vars => IInv'
  BY <1>1, StepPreserves DEF Next
<1> QED BY InitEstablishes, <1>2, PTL DEF Spec

\* Rows, files and requests stay well typed: no request works on a row or a file that it
\* has not looked up.
THEOREM TypeCorrect == Spec => []TypeOK
<1>1. IInv => TypeOK
  BY DEF IInv
<1> QED BY Invariance, <1>1, PTL

\* No two alive connectors share a name or an image, however creations, renamings,
\* restorations and seeders overlap (the partial indexes of migration 008, whose entries a
\* flushed INSERT holds until its commit).
THEOREM AliveRowsAreUnique == Spec => []AliveUnique
<1>1. IInv => AliveUnique
  BY DEF IInv
<1> QED BY Invariance, <1>1, PTL

-----------------------------------------------------------------------------
(* Rows and files, while requests come one at a time (module SerialLogos). *)

\* A row's logo has the slug of its name, and a digest.
Filed(row) == row.logo # None => row.logo.slug = SlugOf[row.name] /\ row.digest # None

\* What a request means to store, as far as it has got, when the table has the rows
\* stored and w is what it has inserted.
Fits(q, w, stored) ==
    /\ q.kind = "create" /\ q.pc \notin {"idle", "insert"} =>
          q.id \in DOMAIN w /\ w[q.id].name = q.object.name
    /\ q.pc \in SeedPcs => q.kind = "seed"
    /\ q.pc \notin SeedPcs \cup {"idle"} =>
          /\ q.kind = "create" =>
                ~q.object.deleted /\ (q.pc # "write" => q.object.logo = None)
          /\ q.kind # "create" => q.id \in DOMAIN stored /\ q.seen = stored[q.id]
          /\ q.kind \notin {"create", "restore"} => ~q.seen.deleted
          /\ q.kind = "upload" => q.object.name = q.seen.name /\ ~q.object.deleted
          /\ q.kind = "rename" =>
                /\ q.object.name # q.seen.name /\ q.object.digest = q.seen.digest
                /\ q.pc # "write" => q.object.logo = q.seen.logo
          /\ q.kind = "clear" => q.object.logo = None
          /\ q.kind \in {"delete", "restore"} =>
                /\ q.object.name = q.seen.name /\ q.object.logo = q.seen.logo
                /\ q.object.digest = q.seen.digest /\ q.object.deleted # q.seen.deleted
          /\ q.pc = "checkImage" => q.kind \in Coroutines \cup {"restore"}
          /\ q.pc = "move" =>
                /\ q.seen.logo # None
                /\ \A other \in DOMAIN stored \ {q.id} :
                      ~stored[other].deleted => stored[other].name # q.object.name
          /\ q.pc = "write" => Filed(q.object)

\* The file of seen's logo is gone, or another row than id needs it.
Dropped(id, seen, stored, store) ==
    \/ seen.logo = None
    \/ store[seen.logo] = None
    \/ \E i \in DOMAIN stored \ {id} : \/ stored[i].logo = seen.logo
                                       \/ stored[i].digest = seen.digest

\* A row gives up its logo when its file has been dropped.
Cleared(q, stored, store) ==
    \/ q.pc \in {"purge", "save"} /\ q.kind = "upload"
    \/ q.pc = "write" /\ q.kind # "create" /\ q.object.logo # q.seen.logo
    => Dropped(q.id, q.seen, stored, store)

Calm ==
    /\ ~faulty
    /\ OneAtATime
    /\ \A id \in DOMAIN rows : Filed(rows[id])
    /\ \A r \in Requests : \A id \in DOMAIN pending[r] : pending[r][id].logo = None
    /\ \A r \in Requests : /\ Fits(req[r], pending[r], rows)
                           /\ Cleared(req[r], rows, files)

\* The file of a row's logo is the row's image.
Shows(row, store) == row.logo # None => store[row.logo] = row.digest

\* The request is replacing the files of the row id.
Replaces(q, id) == q.id = id /\ q.pc \in {"purge", "save", "write"}

\* What is about to be stored shows its image, unless the row is spoilt.
Ready(q, store, spoilt) == q.pc = "write" => q.id \in spoilt \/ Shows(q.object, store)

Shown ==
    /\ spoiled \subseteq DOMAIN rows
    /\ \A r \in Requests : Ready(req[r], files, spoiled)
    /\ \A id \in DOMAIN rows :
          id \notin spoiled /\ (\A r \in Requests : ~Replaces(req[r], id))
              => Shows(rows[id], files)

CalmInv  == undisturbed => Calm
ShownInv == undisturbed => Shown

-----------------------------------------------------------------------------
(* Calm is inductive.                                                      *)

\* While one request runs, the others have nothing to show.
LEMMA OthersIdle ==
    ASSUME OneAtATime, NEW r \in Requests, req[r].pc # "idle"
    PROVE  \A x \in Requests \ {r} : req[x].pc = "idle"
BY DEF OneAtATime

\* An idle request means to store nothing.
LEMMA IdleFits ==
    ASSUME NEW q, q.pc = "idle", NEW w, NEW stored, NEW store
    PROVE  Fits(q, w, stored) /\ Cleared(q, stored, store)
BY DEF Fits, Cleared, SeedPcs

\* One request goes on, and the others are idle unless rows and files stay.
LEMMA CalmStep ==
    ASSUME IInv, Calm, NEW r \in Requests, NEW q, NEW w,
           req' = [req EXCEPT ![r] = q], pending' = [pending EXCEPT ![r] = w],
           UNCHANGED faulty, OneAtATime',
           UNCHANGED <<rows, files>> \/ \A x \in Requests \ {r} : req[x].pc = "idle",
           \A id \in DOMAIN rows' : Filed(rows'[id]),
           \A id \in DOMAIN w : w[id].logo = None,
           Fits(q, w, rows'), Cleared(q, rows', files')
    PROVE  Calm'
<1>1. \A x \in Requests : /\ req'[x] = IF x = r THEN q ELSE req[x]
                          /\ pending'[x] = IF x = r THEN w ELSE pending[x]
  BY DEF IInv, TypeOK
<1>2. \A x \in Requests : \A id \in DOMAIN pending'[x] : pending'[x][id].logo = None
  BY <1>1 DEF Calm
<1>3. \A x \in Requests : /\ Fits(req'[x], pending'[x], rows')
                          /\ Cleared(req'[x], rows', files')
  <2> SUFFICES ASSUME NEW x \in Requests
               PROVE  Fits(req'[x], pending'[x], rows') /\ Cleared(req'[x], rows', files')
    OBVIOUS
  <2>1. CASE x = r
    BY <1>1, <2>1
  <2>2. CASE x # r /\ UNCHANGED <<rows, files>>
    BY <1>1, <2>2 DEF Calm
  <2>3. CASE x # r /\ req[x].pc = "idle"
    BY <1>1, <2>3, IdleFits
  <2> QED BY <2>1, <2>2, <2>3
<1> QED BY <1>2, <1>3 DEF Calm, Filed

\* A step that leaves rows and files alone.
LEMMA CalmGo ==
    ASSUME IInv, Calm, NEW r \in Requests, NEW q, req' = [req EXCEPT ![r] = q],
           UNCHANGED <<rows, pending, files, faulty>>, OneAtATime',
           Fits(q, pending[r], rows), Cleared(q, rows, files)
    PROVE  Calm'
<1>1. pending' = [pending EXCEPT ![r] = pending[r]]
  BY DEF IInv, TypeOK
<1>2. \A id \in DOMAIN pending[r] : pending[r][id].logo = None
  BY DEF Calm
<1>3. \A id \in DOMAIN rows' : Filed(rows'[id])
  BY DEF Calm
<1> QED BY <1>1, <1>2, <1>3, CalmStep

\* A request ends, and rows and files stay.
LEMMA CloseCalm ==
    ASSUME IInv, Calm, NEW r \in Requests, NEW failed, Close(r, failed),
           UNCHANGED <<rows, files, faulty>>, OneAtATime'
    PROVE  Calm'
<1>1. Fits(Idle(failed), EmptyTable, rows) /\ Cleared(Idle(failed), rows, files)
  <2>1. Idle(failed).pc = "idle"
    BY DEF Idle
  <2> QED BY <2>1, IdleFits
<1>2. \A id \in DOMAIN rows' : Filed(rows'[id])
  BY DEF Calm
<1> QED BY <1>1, <1>2, EmptyIsTable, CalmStep DEF Close

\* A request loads a row and goes on with a fitting record.
LEMMA LoadCalm ==
    ASSUME IInv, Calm, NEW r \in Requests, NEW id, NEW kind, NEW image, NEW pc, NEW object,
           Load(r, kind, id, image, pc, object), UNCHANGED faulty, OneAtATime',
           Alive(id) \/ (kind = "restore" /\ id \in DOMAIN rows) =>
               /\ Fits(Running(kind, pc, id, image, rows[id], object), pending[r], rows)
               /\ Cleared(Running(kind, pc, id, image, rows[id], object), rows, files)
    PROVE  Calm'
<1>1. UNCHANGED <<rows, files>>
  BY DEF Load
<1>2. CASE Alive(id) \/ (kind = "restore" /\ id \in DOMAIN rows)
  <2> DEFINE q == Running(kind, pc, id, image, rows[id], object)
  <2>1. Fits(q, pending[r], rows) /\ Cleared(q, rows, files)
    BY <1>2
  <2>2. req' = [req EXCEPT ![r] = q] /\ UNCHANGED pending
    BY <1>2 DEF Load
  <2> HIDE DEF q
  <2> QED BY <1>1, <2>1, <2>2, CalmGo
<1>3. CASE ~(Alive(id) \/ (kind = "restore" /\ id \in DOMAIN rows))
  BY <1>1, <1>3, CloseCalm DEF Load, Answer
<1> QED BY <1>2, <1>3

\* A request on one connector begins with the row as it is stored.
LEMMA LoadsCalm ==
    ASSUME IInv, Calm, NEW r \in Requests, NEW id \in ConnectorIds, UNCHANGED faulty,
           OneAtATime',
           \/ \E image \in Images : StartUpload(r, id, image)
           \/ \E name \in Names : StartRename(r, id, name)
           \/ StartClear(r, id) \/ StartDelete(r, id) \/ StartRestore(r, id)
    PROVE  Calm'
<1>0. /\ id \in DOMAIN rows => rows[id] \in Row /\ Filed(rows[id])
      /\ Alive(id) => id \in DOMAIN rows /\ ~rows[id].deleted
  BY DEF IInv, TypeOK, IsTable, Calm, Alive
<1>a. ASSUME Answer(r), UNCHANGED <<rows, files>> PROVE Calm'
  BY <1>a, CloseCalm DEF Answer
<1>1. ASSUME NEW image \in Images, StartUpload(r, id, image) PROVE Calm'
  <2> DEFINE pc == IF Suspends(image) THEN "readFile" ELSE "checkImage"
             q == Running("upload", pc, id, image, rows[id], rows[id])
  <2>1. Load(r, "upload", id, image, pc, rows[id]) /\ pc \in {"readFile", "checkImage"}
    BY <1>1 DEF StartUpload
  <2> HIDE DEF pc
  <2>2. Alive(id) => Fits(q, pending[r], rows) /\ Cleared(q, rows, files)
    BY <1>0, <2>1 DEF Fits, Cleared, Running, SeedPcs, Coroutines
  <2> QED BY <2>1, <2>2, LoadCalm
<1>2. ASSUME NEW name \in Names, StartRename(r, id, name) PROVE Calm'
  <2> DEFINE object == [rows[id] EXCEPT !.name = name]
             q == Running("rename", "checkName", id, None, rows[id], object)
  <2>1. Load(r, "rename", id, None, "checkName", object) /\ (Alive(id) => rows[id].name # name)
    BY <1>2 DEF StartRename
  <2>2. Alive(id) => /\ object.name = name /\ object.logo = rows[id].logo
                     /\ object.digest = rows[id].digest /\ object.deleted = rows[id].deleted
    BY <1>0 DEF Row
  <2> HIDE DEF object
  <2>3. Alive(id) => Fits(q, pending[r], rows) /\ Cleared(q, rows, files)
    BY <1>0, <2>1, <2>2 DEF Fits, Cleared, Running, SeedPcs
  <2> QED BY <2>1, <2>3, LoadCalm
<1>3. CASE StartClear(r, id)
  <2> DEFINE object == [rows[id] EXCEPT !.logo = None, !.digest = None]
             q == Running("clear", "dropLogo", id, None, rows[id], object)
  <2>1. Load(r, "clear", id, None, "dropLogo", object)
    BY <1>3 DEF StartClear
  <2>2. Alive(id) => object.logo = None
    BY <1>0 DEF Row
  <2> HIDE DEF object
  <2>3. Alive(id) => Fits(q, pending[r], rows) /\ Cleared(q, rows, files)
    BY <1>0, <2>1, <2>2 DEF Fits, Cleared, Running, SeedPcs
  <2> QED BY <2>1, <2>3, LoadCalm
<1>4. CASE StartDelete(r, id)
  <2> DEFINE object == [rows[id] EXCEPT !.deleted = TRUE]
             q == Running("delete", "write", id, None, rows[id], object)
  <2>1. \/ Load(r, "delete", id, None, "write", object)
        \/ Answer(r) /\ UNCHANGED <<rows, files>>
    BY <1>4 DEF StartDelete
  <2>2. Alive(id) => /\ object.name = rows[id].name /\ object.logo = rows[id].logo
                     /\ object.digest = rows[id].digest /\ object.deleted
    BY <1>0 DEF Row
  <2> HIDE DEF object
  <2>3. Alive(id) => Fits(q, pending[r], rows) /\ Cleared(q, rows, files)
    BY <1>0, <2>1, <2>2 DEF Fits, Cleared, Running, SeedPcs, Filed
  <2> QED BY <1>a, <2>1, <2>3, LoadCalm
<1>5. CASE StartRestore(r, id)
  <2> DEFINE object == [rows[id] EXCEPT !.deleted = FALSE]
             q == Running("restore", "checkName", id, None, rows[id], object)
  <2>1. \/ Load(r, "restore", id, None, "checkName", object) /\ ~Alive(id)
        \/ Answer(r) /\ UNCHANGED <<rows, files>>
    BY <1>5 DEF StartRestore
  <2>2. id \in DOMAIN rows => /\ object.name = rows[id].name /\ object.logo = rows[id].logo
                              /\ object.digest = rows[id].digest /\ ~object.deleted
    BY <1>0 DEF Row
  <2> HIDE DEF object
  <2>3. ~Alive(id) /\ id \in DOMAIN rows =>
            Fits(q, pending[r], rows) /\ Cleared(q, rows, files)
    BY <1>0, <2>1, <2>2 DEF Fits, Cleared, Running, SeedPcs, Alive
  <2> QED BY <1>a, <2>1, <2>3, LoadCalm
<1> QED BY <1>1, <1>2, <1>3, <1>4, <1>5

\* The beginnings of a creation and of a seeder.
LEMMA BeginCalm ==
    ASSUME IInv, Calm, NEW r \in Requests, UNCHANGED faulty, OneAtATime',
           \/ StartSeed(r)
           \/ \E id \in ConnectorIds, name \in Names, padded \in BOOLEAN,
                 image \in Images \cup {None} : StartCreate(r, id, name, padded, image)
    PROVE  Calm'
<1>1. CASE StartSeed(r)
  <2> DEFINE q == [req[r] EXCEPT !.kind = "seed", !.pc = "seed", !.todo = Defaults,
                                 !.failed = FALSE]
  <2>1. req' = [req EXCEPT ![r] = q] /\ UNCHANGED <<rows, pending, files>>
    BY <1>1 DEF StartSeed
  <2>2. q.kind = "seed" /\ q.pc = "seed"
    BY DEF IInv, TypeOK, Request
  <2> HIDE DEF q
  <2>3. Fits(q, pending[r], rows) /\ Cleared(q, rows, files)
    BY <2>2 DEF Fits, Cleared, SeedPcs
  <2> QED BY <2>1, <2>3, CalmGo
<1>2. ASSUME NEW id \in ConnectorIds, NEW name \in Names, NEW padded \in BOOLEAN,
             NEW image \in Images \cup {None}, StartCreate(r, id, name, padded, image)
      PROVE  Calm'
  <2> DEFINE row == [name |-> name, logo |-> None, digest |-> None, deleted |-> FALSE]
             q == Running("create", "insert", id, image, None, row)
  <2>1. \/ req' = [req EXCEPT ![r] = q] /\ UNCHANGED <<rows, pending, files>>
        \/ Answer(r) /\ UNCHANGED <<rows, files>>
    BY <1>2 DEF StartCreate
  <2>2. Fits(q, pending[r], rows) /\ Cleared(q, rows, files)
    BY DEF Fits, Cleared, Running, SeedPcs
  <2> HIDE DEF q
  <2> QED BY <2>1, <2>2, CalmGo, CloseCalm DEF Answer
<1> QED BY <1>1, <1>2

\* A request moves on from one statement to the next, and files may change.
LEMMA GotoCalm ==
    ASSUME IInv, Calm, NEW r \in Requests, NEW pc, pc \notin SeedPcs \cup {"idle", "insert"},
           req[r].pc \notin SeedPcs \cup {"idle", "insert", "write"},
           req' = [req EXCEPT ![r].pc = pc], UNCHANGED <<rows, pending, faulty>>,
           OneAtATime',
           pc = "checkImage" => req[r].kind \in Coroutines \cup {"restore"},
           pc = "move" => /\ req[r].seen.logo # None
                          /\ \A other \in DOMAIN rows \ {req[r].id} :
                                Alive(other) => rows[other].name # req[r].object.name,
           pc = "write" => Filed(req[r].object),
           \/ pc \in {"purge", "save"} /\ req[r].kind = "upload"
           \/ pc = "write" /\ req[r].kind # "create" /\ req[r].object.logo # req[r].seen.logo
           => Dropped(req[r].id, req[r].seen, rows, files')
    PROVE  Calm'
<1> DEFINE q == [req[r] EXCEPT !.pc = pc]
<1>1. req[r] \in Request /\ Fits(req[r], pending[r], rows)
  BY DEF IInv, TypeOK, Calm
<1>2. /\ q.pc = pc /\ q.kind = req[r].kind /\ q.id = req[r].id
      /\ q.seen = req[r].seen /\ q.object = req[r].object
  BY <1>1 DEF Request
<1>3. req' = [req EXCEPT ![r] = q] /\ pending' = [pending EXCEPT ![r] = pending[r]]
  BY DEF IInv, TypeOK
<1> HIDE DEF q
<1>4. Fits(q, pending[r], rows)
  BY <1>1, <1>2 DEF Fits, SeedPcs, Alive
<1>5. Cleared(q, rows, files')
  BY <1>2 DEF Cleared, Dropped
<1>6. \A x \in Requests \ {r} : req[x].pc = "idle"
  BY OthersIdle DEF Calm
<1>7. /\ \A id \in DOMAIN pending[r] : pending[r][id].logo = None
      /\ \A id \in DOMAIN rows' : Filed(rows'[id])
  BY DEF Calm
<1> QED BY <1>3, <1>4, <1>5, <1>6, <1>7, CalmStep

\* The first flush of a creation.
LEMMA InsertCalm ==
    ASSUME IInv, Calm, NEW r \in Requests, Insert(r), UNCHANGED faulty, OneAtATime'
    PROVE  Calm'
<1> DEFINE id == req[r].id
           row == req[r].object
           image == req[r].image
           pc == IF image = None THEN "write"
                 ELSE IF Suspends(image) THEN "readFile" ELSE "checkImage"
           q == [req[r] EXCEPT !.pc = pc]
           w == Put(pending[r], id, row)
<1>1. /\ req[r].pc = "insert" /\ req[r] \in Request /\ UNCHANGED <<rows, files>>
      /\ Consistent(req[r], pending[r], DOMAIN rows) /\ Fits(req[r], pending[r], rows)
  BY DEF IInv, Insert, Consistent, Calm
<1>2. row.logo = None /\ ~row.deleted /\ req[r].kind = "create" /\ DOMAIN pending[r] = {}
  BY <1>1 DEF Consistent, Fits, SeedPcs
<1>3. CASE IndexesRefuse(id, row)
  BY <1>1, <1>3, CloseCalm DEF Insert, Fail
<1>4. CASE ~IndexesRefuse(id, row)
  <2>1. req' = [req EXCEPT ![r] = q] /\ pending' = [pending EXCEPT ![r] = w]
    BY <1>4 DEF Insert, Goto
  <2>2. /\ q.pc = pc /\ q.kind = "create" /\ q.object = row /\ q.id = id
        /\ pc \in {"write", "readFile", "checkImage"}
    BY <1>1, <1>2 DEF Request
  <2>3. DOMAIN w = {id} /\ w[id] = row
    BY <1>2 DEF Put
  <2> HIDE DEF q, pc, w
  <2>4. Fits(q, w, rows) /\ Cleared(q, rows, files)
    BY <1>2, <2>2, <2>3 DEF Fits, Cleared, SeedPcs, Coroutines, Filed
  <2>5. \A i \in DOMAIN w : w[i].logo = None
    BY <1>2, <2>3
  <2>6. \A i \in DOMAIN rows' : Filed(rows'[i])
    BY <1>1 DEF Calm
  <2> QED BY <1>1, <2>1, <2>4, <2>5, <2>6, CalmStep
<1> QED BY <1>3, <1>4

\* The lookups, and the read of the image.
LEMMA ChecksCalm ==
    ASSUME IInv, Calm, NEW r \in Requests, CheckName(r) \/ CheckImage(r) \/ ReadFile(r),
           UNCHANGED faulty, OneAtATime'
    PROVE  Calm'
<1> DEFINE object == req[r].object
           seen == req[r].seen
<1>1. /\ UNCHANGED <<rows, files>> /\ req[r].pc \in {"checkName", "checkImage", "readFile"}
      /\ Consistent(req[r], pending[r], DOMAIN rows) /\ Fits(req[r], pending[r], rows)
  BY DEF IInv, Calm, CheckName, CheckImage, ReadFile, Suspended
<1>a. ASSUME Answer(r) PROVE Calm'
  BY <1>a, <1>1, CloseCalm DEF Answer
<1>2. CASE CheckName(r)
  <2>1. req[r].pc = "checkName" /\ req[r].kind \in {"rename", "restore"}
        /\ object.logo = seen.logo /\ object.digest = seen.digest /\ Filed(seen)
        /\ (req[r].kind = "restore" => object.name = seen.name)
    BY <1>1, <1>2 DEF CheckName, Consistent, Fits, SeedPcs, Calm
  <2>2. CASE NameTaken(req[r].id, object.name)
    BY <1>a, <1>2, <2>2 DEF CheckName
  <2>3. CASE ~NameTaken(req[r].id, object.name)
    <3>1. PICK pc \in {"write", "checkImage", "move"} :
             /\ req' = [req EXCEPT ![r].pc = pc] /\ UNCHANGED pending
             /\ pc = "checkImage" => req[r].kind = "restore"
             /\ pc = "move" => object.logo # None
             /\ pc = "write" => IF req[r].kind = "restore" THEN object.digest = None
                                ELSE object.logo = None
      BY <1>2, <2>3 DEF CheckName, Goto
    <3>2. \A other \in DOMAIN rows \ {req[r].id} : Alive(other) => rows[other].name # object.name
      BY <2>3 DEF NameTaken
    <3>3. Filed(object) \/ pc # "write"
      BY <2>1, <3>1 DEF Filed
    <3> QED BY <1>1, <2>1, <3>1, <3>2, <3>3, GotoCalm DEF SeedPcs
  <2> QED BY <2>2, <2>3
<1>3. CASE CheckImage(r)
  <2>1. req[r].pc = "checkImage" /\ req[r].kind \in Coroutines \cup {"restore"}
    BY <1>1, <1>3 DEF CheckImage, Fits, SeedPcs
  <2>2. CASE Answer(r)
    BY <1>a, <2>2
  <2>3. CASE ~Answer(r)
    <3>1. PICK pc \in {"dropLogo", "write"} :
             /\ req' = [req EXCEPT ![r].pc = pc] /\ UNCHANGED pending
             /\ pc = "write" => req[r].kind \notin Coroutines
      BY <1>3, <2>3 DEF CheckImage, Goto
    <3>2. pc = "write" => Filed(object) /\ object.logo = seen.logo
      <4> SUFFICES ASSUME pc = "write" PROVE Filed(object) /\ object.logo = seen.logo
        OBVIOUS
      <4>1. req[r].kind = "restore"
        BY <2>1, <3>1
      <4>2. /\ object.logo = seen.logo /\ object.digest = seen.digest
            /\ object.name = seen.name /\ Filed(seen)
        BY <1>1, <4>1 DEF Fits, SeedPcs, Calm
      <4> QED BY <4>2 DEF Filed
    <3> QED BY <1>1, <2>1, <3>1, <3>2, GotoCalm DEF SeedPcs
  <2> QED BY <2>2, <2>3
<1>4. CASE ReadFile(r)
  <2> DEFINE pc == "checkImage"
  <2>1. /\ req[r].pc = "readFile" /\ req' = [req EXCEPT ![r].pc = pc]
        /\ UNCHANGED pending /\ req[r].kind \in Coroutines
    BY <1>1, <1>4 DEF ReadFile, Suspended, Goto, Consistent
  <2>2. pc = "checkImage"
    OBVIOUS
  <2> HIDE DEF pc
  <2>3. req[r].pc \notin SeedPcs \cup {"idle", "insert", "write"}
    BY <2>1 DEF SeedPcs
  <2>4. pc \notin SeedPcs \cup {"idle", "insert"}
    BY <2>2 DEF SeedPcs
  <2>5. pc \notin {"purge", "save", "write", "move"}
    BY <2>2
  <2>6. (pc = "checkImage" => req[r].kind \in Coroutines \cup {"restore"})
    BY <2>1
  <2> QED BY <1>1, <2>1, <2>3, <2>4, <2>5, <2>6, GotoCalm
<1> QED BY <1>2, <1>3, <1>4

\* A storage that works deletes what it is asked to delete, and nothing else.
LEMMA DeletesAll ==
    ASSUME ~faulty, NEW keys, files' \in Deleting(keys), NEW k \in Keys
    PROVE  files'[k] = IF k \in keys THEN None ELSE files[k]
BY DEF Deleting, Without

\* A storage that works moves the file.
LEMMA MovesAll ==
    ASSUME ~faulty, TypeOK, NEW src \in Keys, NEW dst \in Keys,
           files' \in LocalMoving(src, dst) \cup S3Moving(src, dst), NEW k \in Keys
    PROVE  files'[k] = IF k = src THEN None ELSE IF k = dst THEN files[src] ELSE files[k]
<1>1. files' = Moved(src, dst)
  BY DEF LocalMoving, S3Moving
<1> QED BY <1>1 DEF Moved, TypeOK

\* The row's old file is dropped, or another row needs it.
LEMMA DropCalm ==
    ASSUME IInv, Calm, NEW r \in Requests, DropLogo(r), UNCHANGED faulty, OneAtATime'
    PROVE  Calm'
<1> DEFINE old == IF req[r].kind = "create" THEN req[r].object ELSE req[r].seen
           keys == {k \in {old.logo} \ {None} : ~ReferencedByOthers(req[r].id, k, old.digest)}
           pc == IF req[r].kind = "clear" THEN "write" ELSE "purge"
           seen == req[r].seen
<1>1. /\ req[r].pc = "dropLogo" /\ files' \in Deleting(keys)
      /\ req' = [req EXCEPT ![r].pc = pc] /\ UNCHANGED <<rows, pending>>
  BY DEF DropLogo, Goto
<1>2. Consistent(req[r], pending[r], DOMAIN rows) /\ Fits(req[r], pending[r], rows) /\ ~faulty
  BY DEF IInv, Calm
<1>3. pc = "write" => Filed(req[r].object)
  BY <1>1, <1>2 DEF Fits, SeedPcs, Filed
<1>4. ASSUME req[r].kind # "create"
      PROVE  Dropped(req[r].id, seen, rows, files')
  <2>1. seen \in Row
    BY <1>1, <1>2, <1>4 DEF Consistent, SeedPcs
  <2>2. CASE seen.logo # None /\ ~ReferencedByOthers(req[r].id, seen.logo, seen.digest)
    <3>1. seen.logo \in keys /\ seen.logo \in Keys
      BY <1>4, <2>1, <2>2 DEF Row
    <3> HIDE DEF keys
    <3> QED BY <1>1, <1>2, <3>1, DeletesAll DEF Dropped
  <2>3. CASE ReferencedByOthers(req[r].id, seen.logo, seen.digest)
    BY <2>3 DEF ReferencedByOthers, Dropped
  <2> QED BY <2>2, <2>3 DEF Dropped
<1>5. pc \notin SeedPcs \cup {"idle", "insert"} /\ pc \in {"write", "purge"}
      /\ (pc = "write" => req[r].kind = "clear")
  BY DEF SeedPcs
<1> HIDE DEF pc, keys
<1> QED BY <1>1, <1>3, <1>4, <1>5, GotoCalm DEF SeedPcs

\* The other files of the row's slug are dropped where no row names them.
LEMMA PurgeCalm ==
    ASSUME IInv, Calm, NEW r \in Requests, Purge(r), UNCHANGED faulty, OneAtATime'
    PROVE  Calm'
<1> DEFINE keep == LogoKey(req[r].object.name, ExtOf[req[r].image])
           keys == {k \in Stored(keep.slug) \ {keep} : ~ReferencedByOthers(req[r].id, k, None)}
           seen == req[r].seen
           pc == "save"
<1>1. /\ req[r].pc = "purge" /\ files' \in Deleting(keys) /\ pc = "save"
      /\ req' = [req EXCEPT ![r].pc = pc] /\ UNCHANGED <<rows, pending>>
  BY DEF Purge, Goto
<1> HIDE DEF keys, pc
<1>2. /\ Consistent(req[r], pending[r], DOMAIN rows) /\ Cleared(req[r], rows, files)
      /\ ~faulty
  BY DEF IInv, Calm
<1>3. ASSUME req[r].kind = "upload"
      PROVE  Dropped(req[r].id, seen, rows, files')
  <2>1. seen \in Row
    BY <1>1, <1>2, <1>3 DEF Consistent, SeedPcs
  <2>2. seen.logo # None /\ files[seen.logo] = None => files'[seen.logo] = None
    BY <1>1, <1>2, <2>1, DeletesAll DEF Row
  <2> QED BY <1>1, <1>2, <1>3, <2>2 DEF Cleared, Dropped
<1>4. /\ req[r].pc \notin SeedPcs \cup {"idle", "insert", "write"}
      /\ pc \notin SeedPcs \cup {"idle", "insert"}
  BY <1>1 DEF SeedPcs
<1>5. pc \notin {"checkImage", "write", "move"}
  BY <1>1
<1> QED BY <1>1, <1>3, <1>4, <1>5, GotoCalm

\* The storage has the new file, and the request's object the new logo.
LEMMA NewLogoCalm ==
    ASSUME NEW r \in Requests, NEW q, IInv, Calm, req[r].pc \in {"save", "move"},
           req' = [req EXCEPT ![r] = q], UNCHANGED <<rows, pending, faulty>>, OneAtATime',
           q.pc = "write", q.kind = req[r].kind, q.id = req[r].id, q.seen = req[r].seen,
           q.object.name = req[r].object.name, q.object.deleted = req[r].object.deleted,
           q.kind \in Coroutines \/ (q.kind = "rename" /\ q.object.digest = q.seen.digest),
           Filed(q.object),
           q.kind # "create" /\ q.object.logo # q.seen.logo => Dropped(q.id, q.seen, rows, files')
    PROVE  Calm'
<1>1. Fits(req[r], pending[r], rows) /\ pending' = [pending EXCEPT ![r] = pending[r]]
  BY DEF IInv, TypeOK, Calm
<1>2. Fits(q, pending[r], rows)
  BY <1>1 DEF Fits, SeedPcs, Coroutines
<1>3. Cleared(q, rows, files')
  BY DEF Cleared
<1>4. \A x \in Requests \ {r} : req[x].pc = "idle"
  BY OthersIdle DEF Calm
<1>5. /\ \A id \in DOMAIN pending[r] : pending[r][id].logo = None
      /\ \A id \in DOMAIN rows' : Filed(rows'[id])
  BY DEF Calm
<1> QED BY <1>1, <1>2, <1>3, <1>4, <1>5, CalmStep

\* The new file is saved under the key of the row's name.
LEMMA SaveCalm ==
    ASSUME IInv, Calm, NEW r \in Requests, Save(r), UNCHANGED faulty, OneAtATime'
    PROVE  Calm'
<1> DEFINE image == req[r].image
           key == LogoKey(req[r].object.name, ExtOf[image])
           object == [req[r].object EXCEPT !.logo = key, !.digest = image]
           q == [req[r] EXCEPT !.object = object, !.pc = "write"]
           seen == req[r].seen
<1>1. /\ Consistent(req[r], pending[r], DOMAIN rows) /\ Fits(req[r], pending[r], rows)
      /\ Cleared(req[r], rows, files) /\ req[r] \in Request
      /\ files \in [Keys -> Images \cup {None}]
  BY DEF IInv, TypeOK, Calm
<1>2. req[r].pc = "save" /\ UNCHANGED <<rows, pending>> /\ files' = [files EXCEPT ![key] = image]
  BY DEF Save
<1>3. /\ image \in Images /\ req[r].object \in Row /\ req[r].kind \in Coroutines
      /\ req[r].kind # "create" => seen \in Row
  BY <1>1, <1>2 DEF Consistent, SeedPcs
<1>4. key \in Keys /\ key.slug = SlugOf[req[r].object.name]
  BY <1>3, KeysAreTyped DEF Row, LogoKey
<1>5. req' = [req EXCEPT ![r] = q]
  BY <1>1 DEF Save, Request
<1>6. /\ object.name = req[r].object.name /\ object.deleted = req[r].object.deleted
      /\ object.logo = key /\ object.digest = image
  BY <1>3 DEF Row
<1>7. req[r].kind # "create" /\ key # seen.logo =>
          Dropped(req[r].id, seen, rows, files')
  BY <1>1, <1>2, <1>3 DEF Cleared, Dropped, Row, Coroutines
<1> HIDE DEF key, object
<1>8. Filed(object)
  BY <1>3, <1>4, <1>6, LogoConstants DEF Filed
<1>9. /\ q.pc = "write" /\ q.kind = req[r].kind /\ q.id = req[r].id
      /\ q.seen = seen /\ q.object = object
  BY <1>1 DEF Request
<1> HIDE DEF q
<1>10. /\ Filed(q.object)
       /\ q.object.name = req[r].object.name /\ q.object.deleted = req[r].object.deleted
       /\ q.kind \in Coroutines \/ (q.kind = "rename" /\ q.object.digest = q.seen.digest)
       /\ req[r].pc \in {"save", "move"}
  BY <1>2, <1>3, <1>6, <1>8, <1>9
<1>11. q.kind # "create" /\ q.object.logo # q.seen.logo
          => Dropped(q.id, q.seen, rows, files')
  BY <1>6, <1>7, <1>9
<1>12. UNCHANGED <<rows, pending, faulty>> /\ req' = [req EXCEPT ![r] = q]
       /\ q.pc = "write" /\ q.kind = req[r].kind /\ q.id = req[r].id
       /\ q.seen = req[r].seen
  BY <1>2, <1>5, <1>9
<1> QED BY <1>10, <1>11, <1>12, NewLogoCalm

\* The file follows the new name.
LEMMA MoveCalm ==
    ASSUME IInv, Calm, NEW r \in Requests, Move(r), UNCHANGED faulty, OneAtATime'
    PROVE  Calm'
<1> DEFINE seen == req[r].seen
           src == seen.logo
           dst == LogoKey(req[r].object.name, src.ext)
           object == [req[r].object EXCEPT !.logo = dst]
           q == [req[r] EXCEPT !.object = object, !.pc = "write"]
<1>1. /\ Consistent(req[r], pending[r], DOMAIN rows) /\ Fits(req[r], pending[r], rows)
      /\ req[r] \in Request /\ TypeOK /\ ~faulty
  BY DEF IInv, TypeOK, Calm
<1>2. /\ req[r].pc = "move" /\ UNCHANGED <<rows, pending>>
      /\ IF src = dst \/ files[src] = None
         THEN UNCHANGED files
         ELSE files' \in LocalMoving(src, dst) \cup S3Moving(src, dst)
  BY DEF Move
<1>3. /\ req[r].kind = "rename" /\ src \in Keys /\ req[r].object \in Row
      /\ req[r].object.digest = seen.digest /\ Filed(seen)
  BY <1>1, <1>2 DEF Consistent, SeedPcs, Fits, Calm
<1>4. dst \in Keys /\ dst.slug = SlugOf[req[r].object.name]
  BY <1>3, KeysAreTyped DEF Row, LogoKey
<1>5. req' = [req EXCEPT ![r] = q]
  BY <1>1 DEF Move, Request, RenamedLogo
<1>6. /\ object.name = req[r].object.name /\ object.deleted = req[r].object.deleted
      /\ object.logo = dst /\ object.digest = seen.digest
  BY <1>3 DEF Row
<1>7. dst # src => Dropped(req[r].id, seen, rows, files')
  <2>1. dst # src => files'[src] = None
    <3> HIDE DEF src, dst
    <3> QED BY <1>1, <1>2, <1>3, <1>4, MovesAll
  <2> QED BY <2>1 DEF Dropped
<1>8. Filed(object)
  <2>1. src # None
    BY <1>1, <1>2 DEF Fits, SeedPcs
  <2> QED BY <1>3, <1>4, <1>6, <2>1 DEF Filed
<1> HIDE DEF dst, object
<1>9. /\ q.pc = "write" /\ q.kind = req[r].kind /\ q.id = req[r].id
      /\ q.seen = seen /\ q.object = object
  BY <1>1 DEF Request
<1> HIDE DEF q
<1>10. /\ Filed(q.object)
       /\ q.object.name = req[r].object.name /\ q.object.deleted = req[r].object.deleted
       /\ q.kind \in Coroutines \/ (q.kind = "rename" /\ q.object.digest = q.seen.digest)
       /\ req[r].pc \in {"save", "move"}
  BY <1>2, <1>3, <1>6, <1>8, <1>9
<1>11. q.kind # "create" /\ q.object.logo # q.seen.logo
          => Dropped(q.id, q.seen, rows, files')
  BY <1>6, <1>7, <1>9
<1>12. UNCHANGED <<rows, pending, faulty>> /\ req' = [req EXCEPT ![r] = q]
       /\ q.pc = "write" /\ q.kind = req[r].kind /\ q.id = req[r].id
       /\ q.seen = req[r].seen
  BY <1>2, <1>5, <1>9
<1> QED BY <1>10, <1>11, <1>12, NewLogoCalm

\* Nothing was stored since the row was loaded: the UPDATE stores the object.
LEMMA FlushLoaded ==
    ASSUME NEW seen, NEW object
    PROVE  /\ Flush(seen, seen, object).name = object.name
           /\ Flush(seen, seen, object).logo = object.logo
           /\ Flush(seen, seen, object).digest = object.digest
           /\ Flush(seen, seen, object).deleted = object.deleted
BY DEF Flush

\* What a commit of one row stores, and where.
LEMMA CommittedRow ==
    ASSUME NEW r \in Requests, IInv, Calm, Write(r),
           ~IndexesRefuse(req[r].id, IF req[r].kind = "create" THEN req[r].object
                                     ELSE Flush(rows[req[r].id], req[r].seen, req[r].object))
    PROVE  /\ Answer(r) /\ UNCHANGED files
           /\ DOMAIN rows' = DOMAIN rows \cup {req[r].id}
           /\ \A id \in DOMAIN rows \ {req[r].id} : rows'[id] = rows[id]
           /\ rows'[req[r].id].name = req[r].object.name
           /\ rows'[req[r].id].logo = req[r].object.logo
           /\ rows'[req[r].id].digest = req[r].object.digest
           /\ rows'[req[r].id].deleted = req[r].object.deleted
<1> DEFINE id == req[r].id
           row == IF req[r].kind = "create" THEN req[r].object
                  ELSE Flush(rows[id], req[r].seen, req[r].object)
<1>1. req[r].pc = "write" /\ Fits(req[r], pending[r], rows)
  BY DEF Write, Calm
<1>2. req[r].kind # "create" => req[r].seen = rows[id]
  BY <1>1 DEF Fits, SeedPcs
<1>3. /\ row.name = req[r].object.name /\ row.logo = req[r].object.logo
      /\ row.digest = req[r].object.digest /\ row.deleted = req[r].object.deleted
  BY <1>2, FlushLoaded
<1>4. rows' = Put(rows, id, row) /\ Answer(r) /\ UNCHANGED files
  BY DEF Write
<1> HIDE DEF row
<1>5. /\ DOMAIN rows' = DOMAIN rows \cup {id} /\ rows'[id] = row
      /\ \A x \in DOMAIN rows \ {id} : rows'[x] = rows[x]
  BY <1>4 DEF Put
<1> QED BY <1>3, <1>4, <1>5

\* The commit stores the object as the request means it, since its copy is not stale.
LEMMA WriteCalm ==
    ASSUME NEW r \in Requests, IInv, Calm, Write(r), UNCHANGED faulty, OneAtATime'
    PROVE  Calm'
<1> DEFINE id == req[r].id
           row == IF req[r].kind = "create" THEN req[r].object
                  ELSE Flush(rows[id], req[r].seen, req[r].object)
<1>1. CASE IndexesRefuse(id, row)
  <2>1. Fail(r) /\ UNCHANGED <<rows, files>>
    BY <1>1 DEF Write
  <2> QED BY <2>1, CloseCalm DEF Fail
<1>2. CASE ~IndexesRefuse(id, row)
  <2>1. /\ Answer(r) /\ UNCHANGED files /\ DOMAIN rows' = DOMAIN rows \cup {id}
        /\ \A x \in DOMAIN rows \ {id} : rows'[x] = rows[x]
        /\ rows'[id].name = req[r].object.name /\ rows'[id].logo = req[r].object.logo
        /\ rows'[id].digest = req[r].object.digest
    BY <1>2, CommittedRow
  <2> HIDE DEF row
  <2>2. req[r].pc = "write" /\ Fits(req[r], pending[r], rows)
    BY DEF Write, Calm
  <2>3. Filed(req[r].object)
    BY <2>2 DEF Fits, SeedPcs
  <2>4. \A x \in DOMAIN rows' : Filed(rows'[x])
    BY <2>1, <2>3 DEF Calm, Filed
  <2>5. \A x \in Requests \ {r} : req[x].pc = "idle"
    BY <2>2, OthersIdle DEF Calm
  <2>6. /\ req' = [req EXCEPT ![r] = Idle(FALSE)]
        /\ pending' = [pending EXCEPT ![r] = EmptyTable]
    BY <2>1 DEF Answer, Close
  <2>7. Fits(Idle(FALSE), EmptyTable, rows') /\ Cleared(Idle(FALSE), rows', files')
    <3>1. Idle(FALSE).pc = "idle"
      BY DEF Idle
    <3> QED BY <3>1, IdleFits
  <2> QED BY <2>4, <2>5, <2>6, <2>7, EmptyIsTable, CalmStep
<1> QED BY <1>1, <1>2

\* What a seeder stores has no logo.
LEMMA SeedCalm ==
    ASSUME NEW r \in Requests, IInv, Calm, UNCHANGED faulty, OneAtATime',
           SeedLookup(r) \/ SeedInsert(r) \/ SeedCommit(r)
    PROVE  Calm'
<1>1. Fits(req[r], pending[r], rows) /\ req[r] \in Request
      /\ \A i \in DOMAIN pending[r] : pending[r][i].logo = None
  BY DEF Calm, IInv, TypeOK
<1>2. ASSUME NEW q, NEW w, UNCHANGED <<rows, files>>, req' = [req EXCEPT ![r] = q],
             pending' = [pending EXCEPT ![r] = w], q.kind = "seed", q.pc \in SeedPcs,
             \A i \in DOMAIN w : w[i].logo = None
      PROVE  Calm'
  <2>1. Fits(q, w, rows) /\ Cleared(q, rows, files)
    BY <1>2 DEF Fits, Cleared, SeedPcs
  <2>2. \A i \in DOMAIN rows' : Filed(rows'[i])
    BY <1>2 DEF Calm
  <2> QED BY <1>2, <2>1, <2>2, CalmStep
<1>3. CASE SeedLookup(r)
  <2>1. req[r].pc = "seed" /\ req[r].kind = "seed" /\ UNCHANGED <<rows, pending, files>>
    BY <1>1, <1>3 DEF SeedLookup, Fits, SeedPcs
  <2>2. PICK q : req' = [req EXCEPT ![r] = q] /\ q.kind = "seed" /\ q.pc \in SeedPcs
    <3>1. \/ req' = [req EXCEPT ![r] = [req[r] EXCEPT !.pc = "seedCommit"]]
          \/ req' = [req EXCEPT ![r] = [req[r] EXCEPT !.todo = Tail(@)]]
          \/ req' = [req EXCEPT ![r] = [req[r] EXCEPT !.pc = "seedInsert"]]
      BY <1>3 DEF SeedLookup, Goto
    <3> QED BY <1>1, <2>1, <3>1 DEF Request, SeedPcs
  <2>3. pending' = [pending EXCEPT ![r] = pending[r]]
    BY <2>1 DEF IInv, TypeOK
  <2> QED BY <1>1, <1>2, <2>1, <2>2, <2>3
<1>4. CASE SeedInsert(r)
  <2> DEFINE row == [name |-> Head(req[r].todo), logo |-> None, digest |-> None,
                     deleted |-> FALSE]
             q == [req[r] EXCEPT !.todo = Tail(@), !.pc = "seed"]
  <2>1. req[r].pc = "seedInsert" /\ req[r].kind = "seed" /\ UNCHANGED <<rows, files>>
    BY <1>1, <1>4 DEF SeedInsert, Fits, SeedPcs
  <2>2. PICK id : \/ Fail(r)
                  \/ /\ pending' = [pending EXCEPT ![r] = Put(@, id, row)]
                     /\ req' = [req EXCEPT ![r] = q]
    BY <1>4 DEF SeedInsert
  <2>3. CASE Fail(r)
    BY <2>1, <2>3, CloseCalm DEF Fail
  <2>4. CASE ~Fail(r)
    <3> DEFINE w == Put(pending[r], id, row)
    <3>1. req' = [req EXCEPT ![r] = q] /\ pending' = [pending EXCEPT ![r] = w]
      BY <2>2, <2>4
    <3>2. q.kind = "seed" /\ q.pc \in SeedPcs
      BY <1>1, <2>1 DEF Request, SeedPcs
    <3>3. \A i \in DOMAIN w : w[i].logo = None
      BY <1>1 DEF Put
    <3> HIDE DEF q, w
    <3> QED BY <1>2, <2>1, <3>1, <3>2, <3>3
  <2> QED BY <2>3, <2>4
<1>5. CASE SeedCommit(r)
  <2>1. /\ req[r].pc = "seedCommit" /\ UNCHANGED files
        /\ req' = [req EXCEPT ![r] = Idle(FALSE)]
        /\ pending' = [pending EXCEPT ![r] = EmptyTable]
        /\ rows' = [id \in DOMAIN rows \cup DOMAIN pending[r] |->
                       IF id \in DOMAIN rows THEN rows[id] ELSE pending[r][id]]
    BY <1>5 DEF SeedCommit, Answer, Close
  <2>2. \A i \in DOMAIN rows' : Filed(rows'[i])
    BY <1>1, <2>1 DEF Calm, Filed
  <2>3. \A x \in Requests \ {r} : req[x].pc = "idle"
    BY <2>1, OthersIdle DEF Calm
  <2>4. Fits(Idle(FALSE), EmptyTable, rows') /\ Cleared(Idle(FALSE), rows', files')
    <3>1. Idle(FALSE).pc = "idle"
      BY DEF Idle
    <3> QED BY <3>1, IdleFits
  <2> QED BY <2>1, <2>2, <2>3, <2>4, EmptyIsTable, CalmStep
<1> QED BY <1>3, <1>4, <1>5

\* Every step that leaves the requests undisturbed keeps rows and files in step.
LEMMA NextCalm ==
    ASSUME IInv, Calm, Next, OneAtATime'
    PROVE  Calm'
<1> PICK r \in Requests : \/ Start(r) /\ UNCHANGED faulty
                          \/ Step(r)
                          \/ Abort(r) /\ UNCHANGED faulty
  BY DEF Next
<1>1. CASE Start(r) /\ UNCHANGED faulty
  BY <1>1, BeginCalm, LoadsCalm DEF Start
<1>2. CASE Step(r)
  BY <1>2, InsertCalm, ChecksCalm, DropCalm, PurgeCalm, SaveCalm, MoveCalm, WriteCalm,
     SeedCalm DEF Step
<1>3. CASE Abort(r) /\ UNCHANGED faulty
  BY <1>3, CloseCalm DEF Abort, Fail
<1> QED BY <1>1, <1>2, <1>3

-----------------------------------------------------------------------------
(* Files are dropped in time, and not too early.                           *)

\* While a request changes files, no row but its own loses one, unless by a renaming.
LEMMA ReferencedStays ==
    ASSUME NEW r \in Requests, IInv, Calm, DropLogo(r) \/ Purge(r) \/ Save(r),
           NEW id \in DOMAIN rows \ {req[r].id}, NEW k \in Keys, rows[id].logo = k,
           files[k] # None
    PROVE  files'[k] # None /\ (~Save(r) => files'[k] = files[k])
<1>1. ~faulty
  BY DEF Calm
<1>2. CASE DropLogo(r)
  <2> DEFINE old == IF req[r].kind = "create" THEN req[r].object ELSE req[r].seen
             keys == {key \in {old.logo} \ {None} :
                         ~ReferencedByOthers(req[r].id, key, old.digest)}
  <2>1. files' \in Deleting(keys)
    BY <1>2 DEF DropLogo
  <2>2. k \notin keys
    BY DEF ReferencedByOthers
  <2> HIDE DEF keys
  <2> QED BY <1>1, <2>1, <2>2, DeletesAll
<1>3. CASE Purge(r)
  <2> DEFINE keep == LogoKey(req[r].object.name, ExtOf[req[r].image])
             keys == {key \in Stored(keep.slug) \ {keep} :
                         ~ReferencedByOthers(req[r].id, key, None)}
  <2>1. files' \in Deleting(keys)
    BY <1>3 DEF Purge
  <2>2. k \notin keys
    BY DEF ReferencedByOthers
  <2> HIDE DEF keys
  <2> QED BY <1>1, <2>1, <2>2, DeletesAll
<1>4. CASE Save(r)
  <2> DEFINE key == LogoKey(req[r].object.name, ExtOf[req[r].image])
  <2>1. req[r].pc = "save" /\ files' = [files EXCEPT ![key] = req[r].image]
    BY <1>4 DEF Save
  <2>2. Consistent(req[r], pending[r], DOMAIN rows) /\ files \in [Keys -> Images \cup {None}]
    BY DEF IInv, TypeOK
  <2>3. req[r].image # None
    BY <2>1, <2>2, LogoConstants DEF Consistent
  <2> QED BY <1>4, <2>1, <2>2, <2>3
<1> QED BY <1>2, <1>3, <1>4

\* Which steps change a row or a file.
LEMMA StartsAreQuiet ==
    ASSUME NEW r \in Requests, Start(r)
    PROVE  UNCHANGED <<rows, files>>
<1>1. StartSeed(r) => UNCHANGED <<rows, files>>
  BY DEF StartSeed
<1>2. ASSUME NEW id, NEW name, NEW padded, NEW image, StartCreate(r, id, name, padded, image)
      PROVE  UNCHANGED <<rows, files>>
  BY <1>2 DEF StartCreate
<1>3. ASSUME NEW kind, NEW id, NEW image, NEW pc, NEW object, Load(r, kind, id, image, pc, object)
      PROVE  UNCHANGED <<rows, files>>
  BY <1>3 DEF Load
<1>4. ASSUME NEW id, NEW image, StartUpload(r, id, image) PROVE UNCHANGED <<rows, files>>
  BY <1>3, <1>4 DEF StartUpload
<1>5. ASSUME NEW id, NEW name, StartRename(r, id, name) PROVE UNCHANGED <<rows, files>>
  BY <1>3, <1>5 DEF StartRename
<1>6. ASSUME NEW id, StartClear(r, id) \/ StartDelete(r, id) \/ StartRestore(r, id)
      PROVE  UNCHANGED <<rows, files>>
  BY <1>3, <1>6 DEF StartClear, StartDelete, StartRestore
<1> QED BY <1>1, <1>2, <1>4, <1>5, <1>6 DEF Start

\* Only commits change rows, and only the storage operations change files.
LEMMA Changes ==
    ASSUME Next
    PROVE  /\ UNCHANGED rows \/ \E r \in Requests : Write(r) \/ SeedCommit(r)
           /\ UNCHANGED files
              \/ \E r \in Requests : DropLogo(r) \/ Purge(r) \/ Save(r) \/ Move(r)
<1> PICK r \in Requests : Start(r) \/ Step(r) \/ Abort(r)
  BY DEF Next
<1>1. CASE Start(r) \/ Abort(r)
  BY <1>1, StartsAreQuiet DEF Abort
<1>2. Insert(r) \/ ReadFile(r) \/ CheckName(r) \/ CheckImage(r) \/ SeedLookup(r)
          \/ SeedInsert(r) => UNCHANGED <<rows, files>>
  BY DEF Insert, ReadFile, CheckName, CheckImage, SeedLookup, SeedInsert
<1>3. Write(r) \/ SeedCommit(r) => UNCHANGED files
  BY DEF Write, SeedCommit
<1>4. DropLogo(r) \/ Purge(r) \/ Save(r) \/ Move(r) => UNCHANGED rows
  BY DEF DropLogo, Purge, Save, Move
<1>5. CASE Step(r)
  BY <1>2, <1>3, <1>4, <1>5 DEF Step
<1> QED BY <1>1, <1>5

\* An undisturbed step removes the file of a row only for that row or for a renaming.
LEMMA FilesOfOthersStay ==
    ASSUME IInv, CalmInv, Next
    PROVE  KeepsReferenced
<1> SUFFICES ASSUME undisturbed, NEW k \in Keys, NEW id \in DOMAIN rows, files[k] # None,
                    rows[id].logo = k, files'[k] = None
             PROVE  \E r \in Requests : req[r].id = id \/ req[r].pc = "move"
  BY DEF KeepsReferenced
<1>1. Calm
  BY DEF CalmInv
<1>2. PICK r \in Requests : DropLogo(r) \/ Purge(r) \/ Save(r) \/ Move(r)
  BY Changes
<1>3. CASE Move(r)
  BY <1>3 DEF Move
<1>4. CASE ~Move(r)
  BY <1>1, <1>2, <1>4, ReferencedStays
<1> QED BY <1>3, <1>4

\* A commit changes the row of its request, whose old file has been dropped.
LEMMA CommitsLeaveNoOrphan ==
    ASSUME IInv, CalmInv, Next
    PROVE  LeavesNoOrphan
<1> SUFFICES ASSUME undisturbed, NEW id \in DOMAIN rows, rows[id].logo # None,
                    \A i \in DOMAIN rows : rows'[i].logo # rows[id].logo
             PROVE  \/ files'[rows[id].logo] = None
                    \/ \E i \in DOMAIN rows \ {id} : rows[i].digest = rows[id].digest
  BY DEF LeavesNoOrphan
<1>1. Calm
  BY DEF CalmInv
<1>2. ~UNCHANGED rows
  OBVIOUS
<1>3. PICK r \in Requests : Write(r) \/ SeedCommit(r)
  BY <1>2, Changes
<1>4. ~SeedCommit(r)
  BY DEF SeedCommit
<1> DEFINE row == IF req[r].kind = "create" THEN req[r].object
                  ELSE Flush(rows[req[r].id], req[r].seen, req[r].object)
<1>5. Write(r) /\ ~IndexesRefuse(req[r].id, row)
  BY <1>2, <1>3, <1>4 DEF Write
<1>6. /\ UNCHANGED files /\ \A i \in DOMAIN rows \ {req[r].id} : rows'[i] = rows[i]
      /\ rows'[req[r].id].logo = req[r].object.logo
  BY <1>1, <1>5, CommittedRow
<1>7. id = req[r].id
  BY <1>6
<1>8. req[r].pc = "write" /\ Fits(req[r], pending[r], rows) /\ Cleared(req[r], rows, files)
  BY <1>1, <1>5 DEF Write, Calm
<1>9. req[r].kind # "create"
  BY <1>7, <1>8 DEF IInv, Claims, Creating
<1>10. req[r].seen = rows[id]
  BY <1>7, <1>8, <1>9 DEF Fits, SeedPcs
<1>11. Dropped(id, rows[id], rows, files)
  BY <1>6, <1>7, <1>8, <1>9, <1>10 DEF Cleared
<1> QED BY <1>6, <1>7, <1>11 DEF Dropped

-----------------------------------------------------------------------------
(* Shown is inductive.                                                     *)

\* What a step makes of the rows that are spoilt.
SpoiltStep ==
    /\ spoiled' \subseteq DOMAIN rows
    /\ \A id \in DOMAIN rows : id \notin spoiled' =>
          /\ \A r \in Requests : ~TakesFileOf(r, id) /\ ~(req[r].id = id /\ FailsOverFiles(r))
          /\ id \notin spoiled \/ \E r \in Requests : StoresFileOf(r, id)

\* It is what the history variable says.
LEMMA HistorySpoils ==
    ASSUME HistoryNext, undisturbed'
    PROVE  SpoiltStep
BY DEF HistoryNext, SpoiltStep, Spoilt

\* A row is spoilt no longer only when its own request stores a file.
LEMMA StaysSpoilt ==
    ASSUME NEW r \in Requests, NEW q, IInv, SpoiltStep, req' = [req EXCEPT ![r] = q],
           NEW id \in DOMAIN rows, id \notin spoiled',
           req[r].pc # "save" \/ q.pc # "write" \/ req[r].id # id
    PROVE  id \notin spoiled
<1>1. \A x \in Requests : req'[x] = IF x = r THEN q ELSE req[x]
  BY DEF IInv, TypeOK
<1>2. \A x \in Requests : ~StoresFileOf(x, id)
  BY <1>1 DEF StoresFileOf
<1> QED BY <1>2 DEF SpoiltStep

\* A step that leaves rows and files alone, of a request that is not replacing files, or
\* that fails over them.
LEMMA QuietShown ==
    ASSUME NEW r \in Requests, NEW q, IInv, Shown, SpoiltStep, UNCHANGED <<rows, files>>,
           req' = [req EXCEPT ![r] = q],
           \/ req[r].pc \notin {"purge", "save", "write"}
           \/ FailsOverFiles(r) /\ q.pc = "idle",
           q.pc = "write" =>
               \/ Shows(q.object, files)
               \/ /\ q.id \in DOMAIN rows /\ q.object.logo = rows[q.id].logo
                  /\ q.object.digest = rows[q.id].digest
                  /\ \A x \in Requests \ {r} : req[x].pc = "idle"
    PROVE  Shown'
<1>1. \A x \in Requests : req'[x] = IF x = r THEN q ELSE req[x]
  BY DEF IInv, TypeOK
<1>2. \A id \in DOMAIN rows : id \notin spoiled' => id \notin spoiled
  BY StaysSpoilt
<1>3. ASSUME NEW id \in DOMAIN rows, id \notin spoiled',
             \A x \in Requests \ {r} : ~Replaces(req[x], id)
      PROVE  Shows(rows[id], files)
  <2>1. ~Replaces(req[r], id)
    BY <1>3 DEF Replaces, SpoiltStep
  <2> QED BY <1>2, <1>3, <2>1 DEF Shown
<1>4. Ready(q, files, spoiled')
  <2> SUFFICES ASSUME q.pc = "write", q.id \notin spoiled', ~Shows(q.object, files)
               PROVE  FALSE
    BY DEF Ready
  <2>1. /\ q.id \in DOMAIN rows /\ q.object.logo = rows[q.id].logo
        /\ q.object.digest = rows[q.id].digest
        /\ \A x \in Requests \ {r} : req[x].pc = "idle"
    OBVIOUS
  <2>2. Shows(rows[q.id], files)
    BY <1>3, <2>1 DEF Replaces
  <2> QED BY <2>1, <2>2 DEF Shows
<1>5. \A x \in Requests : Ready(req'[x], files', spoiled')
  BY <1>1, <1>2, <1>4 DEF Shown, Ready, Shows
<1>6. ASSUME NEW id \in DOMAIN rows', id \notin spoiled',
             \A x \in Requests : ~Replaces(req'[x], id)
      PROVE  Shows(rows'[id], files')
  <2>1. \A x \in Requests \ {r} : ~Replaces(req[x], id)
    BY <1>1, <1>6
  <2>2. Shows(rows[id], files)
    BY <1>3, <1>6, <2>1
  <2> QED BY <2>2 DEF Shows
<1>7. spoiled' \subseteq DOMAIN rows'
  BY DEF SpoiltStep
<1> QED BY <1>5, <1>6, <1>7 DEF Shown, Ready, Replaces, Shows

\* A step of the only request that runs.
LEMMA WorkShown ==
    ASSUME NEW r \in Requests, NEW q, IInv, SpoiltStep, req' = [req EXCEPT ![r] = q],
           DOMAIN rows \subseteq DOMAIN rows',
           \A x \in Requests \ {r} : req[x].pc = "idle",
           Ready(q, files', spoiled'),
           \A id \in DOMAIN rows' :
               id \notin spoiled' /\ ~Replaces(q, id) => Shows(rows'[id], files')
    PROVE  Shown'
<1>1. \A x \in Requests : req'[x] = IF x = r THEN q ELSE req[x]
  BY DEF IInv, TypeOK
<1>2. \A x \in Requests : Ready(req'[x], files', spoiled')
  BY <1>1 DEF Ready
<1>3. spoiled' \subseteq DOMAIN rows'
  BY DEF SpoiltStep
<1> QED BY <1>1, <1>2, <1>3 DEF Shown, Ready, Replaces, Shows

\* A request ends before it has changed a file of its row, or with an error.
LEMMA CloseShown ==
    ASSUME NEW r \in Requests, NEW failed \in BOOLEAN, IInv, Shown, SpoiltStep,
           Close(r, failed), UNCHANGED <<rows, files>>,
           failed = FALSE => req[r].pc \notin {"purge", "save", "write"}
    PROVE  Shown'
<1> DEFINE q == Idle(failed)
<1>1. req' = [req EXCEPT ![r] = q]
  BY DEF Close
<1>2. q.pc = "idle" /\ q.failed = failed
  BY DEF Idle
<1> HIDE DEF q
<1>3. req'[r] = q
  BY <1>1 DEF IInv, TypeOK
<1>4. \/ req[r].pc \notin {"purge", "save", "write"}
      \/ FailsOverFiles(r)
  BY <1>2, <1>3 DEF FailsOverFiles
<1> QED BY <1>1, <1>2, <1>4, QuietShown

\* Requests on one connector begin.
LEMMA LoadsShown ==
    ASSUME NEW r \in Requests, NEW id \in ConnectorIds, IInv, Shown, SpoiltStep, OneAtATime',
           \/ \E image \in Images : StartUpload(r, id, image)
           \/ \E name \in Names : StartRename(r, id, name)
           \/ StartClear(r, id) \/ StartDelete(r, id) \/ StartRestore(r, id)
    PROVE  Shown'
<1>a. ASSUME Answer(r), UNCHANGED <<rows, files>>, req[r].pc = "idle" PROVE Shown'
  BY <1>a, CloseShown DEF Answer
<1>b. ASSUME NEW kind, NEW image, NEW pc, NEW object, Load(r, kind, id, image, pc, object),
             pc # "idle",
             Alive(id) /\ pc = "write" =>
                 object.logo = rows[id].logo /\ object.digest = rows[id].digest,
             kind = "restore" => pc # "write"
      PROVE  Shown'
  <2> DEFINE q == Running(kind, pc, id, image, rows[id], object)
  <2>1. req[r].pc = "idle" /\ UNCHANGED <<rows, files>>
    BY <1>b DEF Load
  <2>2. CASE Alive(id) \/ (kind = "restore" /\ id \in DOMAIN rows)
    <3>1. req' = [req EXCEPT ![r] = q]
      BY <2>2, <1>b DEF Load
    <3>2. q.pc = pc /\ q.id = id /\ q.object = object
      BY DEF Running
    <3> HIDE DEF q
    <3>3. \A x \in Requests : req'[x] = IF x = r THEN q ELSE req[x]
      BY <3>1 DEF IInv, TypeOK
    <3>4. \A x \in Requests \ {r} : req[x].pc = "idle"
      BY <1>b, <3>2, <3>3 DEF OneAtATime
    <3>5. pc = "write" => Alive(id)
      BY <1>b, <2>2
    <3> QED BY <1>b, <2>1, <3>1, <3>2, <3>4, <3>5, QuietShown DEF Alive
  <2>3. CASE ~(Alive(id) \/ (kind = "restore" /\ id \in DOMAIN rows))
    BY <1>a, <1>b, <2>1, <2>3 DEF Load
  <2> QED BY <2>2, <2>3
<1>1. ASSUME NEW image \in Images, StartUpload(r, id, image) PROVE Shown'
  BY <1>b, <1>1 DEF StartUpload
<1>2. ASSUME NEW name \in Names, StartRename(r, id, name) PROVE Shown'
  BY <1>b, <1>2 DEF StartRename
<1>3. CASE StartClear(r, id)
  BY <1>b, <1>3 DEF StartClear
<1>4. CASE StartDelete(r, id)
  <2> DEFINE object == [rows[id] EXCEPT !.deleted = TRUE]
  <2>1. \/ Load(r, "delete", id, None, "write", object)
        \/ req[r].pc = "idle" /\ Answer(r) /\ UNCHANGED <<rows, files>>
    BY <1>4 DEF StartDelete
  <2>2. Alive(id) => object.logo = rows[id].logo /\ object.digest = rows[id].digest
    BY DEF Alive, IInv, TypeOK, IsTable, Row
  <2> HIDE DEF object
  <2> QED BY <1>a, <1>b, <2>1, <2>2
<1>5. CASE StartRestore(r, id)
  BY <1>a, <1>b, <1>5 DEF StartRestore
<1> QED BY <1>1, <1>2, <1>3, <1>4, <1>5

\* A request begins, and rows and files stay.
LEMMA StartsShown ==
    ASSUME NEW r \in Requests, IInv, Shown, SpoiltStep, OneAtATime', Start(r)
    PROVE  Shown'
<1>1. CASE StartSeed(r)
  <2> DEFINE q == [req[r] EXCEPT !.kind = "seed", !.pc = "seed", !.todo = Defaults,
                                 !.failed = FALSE]
  <2>1. req' = [req EXCEPT ![r] = q] /\ UNCHANGED <<rows, pending, files>>
        /\ req[r].pc = "idle"
    BY <1>1 DEF StartSeed
  <2>2. q.pc = "seed"
    BY DEF IInv, TypeOK, Request
  <2> HIDE DEF q
  <2> QED BY <2>1, <2>2, QuietShown
<1>2. ASSUME NEW id \in ConnectorIds, NEW name \in Names, NEW padded \in BOOLEAN,
             NEW image \in Images \cup {None}, StartCreate(r, id, name, padded, image)
      PROVE  Shown'
  <2> DEFINE row == [name |-> name, logo |-> None, digest |-> None, deleted |-> FALSE]
             q == Running("create", "insert", id, image, None, row)
  <2>1. \/ req' = [req EXCEPT ![r] = q]
        \/ Answer(r)
    BY <1>2 DEF StartCreate
  <2>2. UNCHANGED <<rows, files>> /\ req[r].pc = "idle"
    BY <1>2 DEF StartCreate
  <2>3. q.pc = "insert"
    BY DEF Running
  <2> HIDE DEF q
  <2> QED BY <2>1, <2>2, <2>3, QuietShown, CloseShown DEF Answer
<1> QED BY <1>1, <1>2, LoadsShown DEF Start

\* The steps that change neither committed rows nor files.
LEMMA ChecksShown ==
    ASSUME NEW r \in Requests, IInv, Calm, Shown, SpoiltStep,
           \/ Insert(r) \/ CheckName(r) \/ CheckImage(r) \/ ReadFile(r)
           \/ SeedLookup(r) \/ SeedInsert(r) \/ Abort(r)
    PROVE  Shown'
<1>0. /\ req[r] \in Request /\ Consistent(req[r], pending[r], DOMAIN rows)
      /\ Fits(req[r], pending[r], rows)
  BY DEF IInv, TypeOK, Calm
<1>a. ASSUME Fail(r), UNCHANGED <<rows, files>> PROVE Shown'
  BY <1>a, CloseShown DEF Fail
<1>b. ASSUME Answer(r), UNCHANGED <<rows, files>>, req[r].pc \in {"checkName", "checkImage"}
      PROVE  Shown'
  BY <1>b, CloseShown DEF Answer
<1>c. ASSUME NEW pc, req' = [req EXCEPT ![r].pc = pc], UNCHANGED <<rows, files>>,
             req[r].pc \notin {"idle", "purge", "save", "write"} \cup SeedPcs,
             pc = "write" => req[r].object.logo = None \/ req[r].kind = "restore"
      PROVE  Shown'
  <2> DEFINE q == [req[r] EXCEPT !.pc = pc]
  <2>1. q.pc = pc /\ q.object = req[r].object /\ q.kind = req[r].kind /\ q.id = req[r].id
    BY <1>0 DEF Request
  <2>2. req' = [req EXCEPT ![r] = q]
    BY <1>c
  <2> HIDE DEF q
  <2>3. req[r].kind = "restore" =>
            /\ req[r].id \in DOMAIN rows /\ req[r].object.logo = rows[req[r].id].logo
            /\ req[r].object.digest = rows[req[r].id].digest
    BY <1>0, <1>c DEF Fits
  <2>4. \A x \in Requests \ {r} : req[x].pc = "idle"
    BY <1>c, OthersIdle DEF Calm
  <2>5. pc = "write" =>
            \/ Shows(q.object, files)
            \/ /\ q.id \in DOMAIN rows /\ q.object.logo = rows[q.id].logo
               /\ q.object.digest = rows[q.id].digest
               /\ \A x \in Requests \ {r} : req[x].pc = "idle"
    BY <1>c, <2>1, <2>3, <2>4 DEF Shows
  <2> QED BY <1>c, <2>1, <2>2, <2>5, QuietShown
<1>1. CASE Insert(r)
  <2>1. req[r].pc = "insert" /\ req[r].object.logo = None /\ UNCHANGED <<rows, files>>
    BY <1>0, <1>1 DEF Insert, Fits, Consistent, SeedPcs
  <2>2. Fail(r) \/ \E pc : req' = [req EXCEPT ![r].pc = pc]
    BY <1>1 DEF Insert, Goto
  <2> QED BY <1>a, <1>c, <2>1, <2>2 DEF SeedPcs
<1>2. CASE CheckName(r)
  <2>1. req[r].pc = "checkName" /\ req[r].kind \in {"rename", "restore"}
        /\ UNCHANGED <<rows, files>>
    BY <1>0, <1>2 DEF CheckName, Consistent
  <2>2. \/ Answer(r)
        \/ \E pc : /\ req' = [req EXCEPT ![r].pc = pc]
                   /\ pc = "write" => req[r].object.logo = None \/ req[r].kind = "restore"
    BY <1>2, <2>1 DEF CheckName, Goto
  <2> QED BY <1>b, <1>c, <2>1, <2>2 DEF SeedPcs
<1>3. CASE CheckImage(r)
  <2>1. req[r].pc = "checkImage" /\ req[r].kind \in Coroutines \cup {"restore"}
        /\ UNCHANGED <<rows, files>>
    BY <1>0, <1>3 DEF CheckImage, Fits, SeedPcs
  <2>2. \/ Answer(r)
        \/ \E pc : /\ req' = [req EXCEPT ![r].pc = pc]
                   /\ pc = "write" => req[r].kind \notin Coroutines
    BY <1>3, <2>1 DEF CheckImage, Goto
  <2> QED BY <1>b, <1>c, <2>1, <2>2 DEF SeedPcs
<1>4. CASE ReadFile(r)
  <2> DEFINE pc == "checkImage"
  <2>1. req[r].pc = "readFile" /\ req' = [req EXCEPT ![r].pc = pc] /\ UNCHANGED <<rows, files>>
        /\ pc # "write"
    BY <1>4 DEF ReadFile, Suspended, Goto
  <2> HIDE DEF pc
  <2> QED BY <1>c, <2>1 DEF SeedPcs
<1>5. CASE SeedLookup(r) \/ SeedInsert(r)
  <2> DEFINE inserted == [req[r] EXCEPT !.todo = Tail(@), !.pc = "seed"]
  <2>1. req[r].pc \in {"seed", "seedInsert"} /\ UNCHANGED <<rows, files>>
    BY <1>5 DEF SeedLookup, SeedInsert
  <2>2. inserted.pc = "seed"
    BY <1>0 DEF Request
  <2>3. Fail(r) \/ \E q : req' = [req EXCEPT ![r] = q] /\ q.pc # "write"
    <3>1. CASE SeedLookup(r)
      <4>1. \/ req' = [req EXCEPT ![r] = [req[r] EXCEPT !.pc = "seedCommit"]]
            \/ req' = [req EXCEPT ![r] = [req[r] EXCEPT !.todo = Tail(@)]]
            \/ req' = [req EXCEPT ![r] = [req[r] EXCEPT !.pc = "seedInsert"]]
        BY <3>1 DEF SeedLookup, Goto
      <4> QED BY <1>0, <2>1, <4>1 DEF Request
    <3>2. CASE SeedInsert(r)
      <4>1. Fail(r) \/ req' = [req EXCEPT ![r] = inserted]
        BY <3>2 DEF SeedInsert
      <4> HIDE DEF inserted
      <4> QED BY <2>2, <4>1
    <3> QED BY <1>5, <3>1, <3>2
  <2>4. req[r].pc \notin {"purge", "save", "write"}
    BY <2>1
  <2> HIDE DEF inserted
  <2> QED BY <1>a, <2>1, <2>3, <2>4, QuietShown
<1>6. CASE Abort(r)
  BY <1>a, <1>6 DEF Abort
<1> QED BY <1>1, <1>2, <1>3, <1>4, <1>5, <1>6

\* A request deletes files of its own row, and of no other.
LEMMA DropsShown ==
    ASSUME NEW r \in Requests, IInv, Calm, Shown, SpoiltStep, DropLogo(r) \/ Purge(r)
    PROVE  Shown'
<1> DEFINE pc == IF DropLogo(r) /\ req[r].kind = "clear" THEN "write" ELSE
                 IF DropLogo(r) THEN "purge" ELSE "save"
           q == [req[r] EXCEPT !.pc = pc]
<1>1. /\ req[r] \in Request /\ Fits(req[r], pending[r], rows) /\ IsTable(rows, ConnectorIds, Row)
      /\ req[r].pc \in {"dropLogo", "purge"}
  BY DEF IInv, TypeOK, Calm, DropLogo, Purge
<1>2. /\ q.pc = pc /\ q.kind = req[r].kind /\ q.object = req[r].object /\ q.id = req[r].id
      /\ pc \in {"purge", "save"} \/ (pc = "write" /\ req[r].kind = "clear")
  BY <1>1 DEF Request
<1>3. req' = [req EXCEPT ![r] = q] /\ UNCHANGED rows
  BY DEF DropLogo, Purge, Goto
<1> HIDE DEF q, pc
<1>4. \A x \in Requests \ {r} : req[x].pc = "idle"
  BY <1>1, OthersIdle DEF Calm
<1>5. Ready(q, files', spoiled')
  <2>1. pc = "write" => req[r].object.logo = None
    BY <1>1, <1>2 DEF Fits, SeedPcs
  <2> QED BY <1>2, <2>1 DEF Ready, Shows
<1>6. ASSUME NEW id \in DOMAIN rows', id \notin spoiled', ~Replaces(q, id)
      PROVE  Shows(rows'[id], files')
  <2>1. id \in DOMAIN rows \ {req[r].id}
    BY <1>2, <1>3, <1>6 DEF Replaces
  <2>2. id \notin spoiled
    BY <1>1, <1>3, <1>6, <2>1, StaysSpoilt
  <2>3. Shows(rows[id], files)
    BY <1>4, <2>1, <2>2 DEF Shown, Replaces
  <2>4. CASE rows[id].logo = None
    BY <1>3, <2>4 DEF Shows
  <2>5. CASE rows[id].logo # None
    <3>1. rows[id].logo \in Keys /\ rows[id].digest # None /\ files[rows[id].logo] = rows[id].digest
      BY <1>1, <2>1, <2>3, <2>5 DEF Shows, Calm, Filed, IsTable, Row
    <3>2. ~Save(r)
      BY <1>1 DEF Save
    <3>3. files'[rows[id].logo] = files[rows[id].logo]
      BY <2>1, <3>1, <3>2, ReferencedStays
    <3> QED BY <1>3, <3>1, <3>3 DEF Shows
  <2> QED BY <2>4, <2>5
<1> QED BY <1>3, <1>4, <1>5, <1>6, WorkShown

\* A request stores or moves a file: the rows it takes one from are spoilt.
LEMMA TakesShown ==
    ASSUME NEW r \in Requests, NEW q, IInv, Calm, Shown, SpoiltStep, Save(r) \/ Move(r),
           req' = [req EXCEPT ![r] = q], q.pc = "write", q.id = req[r].id,
           Ready(q, files', spoiled')
    PROVE  Shown'
<1>1. req[r].pc \in {"save", "move"} /\ UNCHANGED rows
  BY DEF Save, Move
<1>2. \A x \in Requests \ {r} : req[x].pc = "idle"
  BY <1>1, OthersIdle DEF Calm
<1>3. ASSUME NEW id \in DOMAIN rows', id \notin spoiled', ~Replaces(q, id)
      PROVE  Shows(rows'[id], files')
  <2>1. id \in DOMAIN rows /\ id # req[r].id
    BY <1>1, <1>3 DEF Replaces
  <2>2. id \notin spoiled
    BY <1>3, <2>1, StaysSpoilt
  <2>3. Shows(rows[id], files)
    BY <1>1, <1>2, <2>1, <2>2 DEF Shown, Replaces
  <2>4. ~TakesFileOf(r, id)
    BY <1>3, <2>1 DEF SpoiltStep
  <2>5. rows[id].logo # None => files'[rows[id].logo] = files[rows[id].logo]
    BY <1>1, <2>1, <2>4 DEF TakesFileOf
  <2> QED BY <1>1, <2>3, <2>5 DEF Shows
<1> QED BY <1>1, <1>2, <1>3, WorkShown

\* The saved file is the new image.
LEMMA SaveShown ==
    ASSUME NEW r \in Requests, IInv, Calm, Shown, SpoiltStep, Save(r)
    PROVE  Shown'
<1> DEFINE image == req[r].image
           key == LogoKey(req[r].object.name, ExtOf[image])
           object == [req[r].object EXCEPT !.logo = key, !.digest = image]
           q == [req[r] EXCEPT !.object = object, !.pc = "write"]
<1>1. /\ Consistent(req[r], pending[r], DOMAIN rows)
      /\ req[r] \in Request /\ files \in [Keys -> Images \cup {None}]
  BY DEF IInv, TypeOK
<1>2. req[r].pc = "save" /\ files' = [files EXCEPT ![key] = image]
  BY DEF Save
<1>3. image \in Images /\ req[r].object \in Row
  BY <1>1, <1>2 DEF Consistent, SeedPcs
<1>4. key \in Keys
  BY <1>3, KeysAreTyped DEF Row, LogoKey
<1>5. req' = [req EXCEPT ![r] = q]
  BY <1>1 DEF Save, Request
<1>6. object.logo = key /\ object.digest = image
  BY <1>3 DEF Row
<1>7. q.pc = "write" /\ q.id = req[r].id /\ q.object = object
  BY <1>1 DEF Request
<1> HIDE DEF key, object, q
<1>8. Ready(q, files', spoiled')
  BY <1>1, <1>2, <1>4, <1>6, <1>7 DEF Ready, Shows
<1> QED BY <1>5, <1>7, <1>8, TakesShown

\* The moved file is the row's image.
LEMMA MoveShown ==
    ASSUME NEW r \in Requests, IInv, Calm, Shown, SpoiltStep, Move(r)
    PROVE  Shown'
<1> DEFINE seen == req[r].seen
           src == seen.logo
           dst == LogoKey(req[r].object.name, src.ext)
           object == [req[r].object EXCEPT !.logo = dst]
           q == [req[r] EXCEPT !.object = object, !.pc = "write"]
<1>1. /\ Consistent(req[r], pending[r], DOMAIN rows) /\ Fits(req[r], pending[r], rows)
      /\ req[r] \in Request /\ TypeOK /\ ~faulty
  BY DEF IInv, Calm, TypeOK
<1>2. /\ req[r].pc = "move"
      /\ IF src = dst \/ files[src] = None
         THEN UNCHANGED files
         ELSE files' \in LocalMoving(src, dst) \cup S3Moving(src, dst)
  BY DEF Move
<1>3. /\ req[r].kind = "rename" /\ src \in Keys /\ src # None /\ req[r].object \in Row
      /\ req[r].object.digest = seen.digest
      /\ req[r].id \in DOMAIN rows /\ seen = rows[req[r].id] /\ seen \in Row
  BY <1>1, <1>2 DEF Consistent, SeedPcs, Fits
<1>4. Filed(seen)
  BY <1>3 DEF Calm
<1>5. dst \in Keys /\ seen.digest # None
  BY <1>3, <1>4, KeysAreTyped DEF Row, LogoKey, Filed
<1>6. req' = [req EXCEPT ![r] = q]
  BY <1>1 DEF Move, Request, RenamedLogo
<1>7. object.logo = dst /\ object.digest = seen.digest
  BY <1>3 DEF Row
<1>8. q.pc = "write" /\ q.id = req[r].id /\ q.object = object
  BY <1>1 DEF Request
<1>9. \A x \in Requests \ {r} : req[x].pc = "idle"
  BY <1>2, OthersIdle DEF Calm
<1>10. files[src] # None => files'[dst] = files[src]
  <2>1. CASE src = dst
    BY <1>2, <2>1
  <2>2. CASE src # dst
    <3> HIDE DEF src, dst
    <3> QED BY <1>1, <1>2, <1>3, <1>5, <2>2, MovesAll
  <2> QED BY <2>1, <2>2
<1> HIDE DEF dst, object, q
<1>11. ASSUME req[r].id \notin spoiled' PROVE files[src] = seen.digest
  <2>1. req[r].id \notin spoiled
    BY <1>2, <1>3, <1>6, <1>11, StaysSpoilt
  <2>2. \A x \in Requests : ~Replaces(req[x], req[r].id)
    BY <1>2, <1>9 DEF Replaces
  <2>3. Shows(seen, files)
    BY <1>3, <2>1, <2>2 DEF Shown
  <2> QED BY <1>3, <2>3 DEF Shows
<1>12. Ready(q, files', spoiled')
  BY <1>5, <1>7, <1>8, <1>10, <1>11 DEF Ready, Shows
<1> QED BY <1>6, <1>8, <1>12, TakesShown

\* What is committed shows its image, or its row is spoilt.
LEMMA CommitsShown ==
    ASSUME NEW r \in Requests, IInv, Calm, Shown, SpoiltStep, Write(r) \/ SeedCommit(r)
    PROVE  Shown'
<1>0. /\ req[r].pc \in {"write", "seedCommit"} /\ Ready(req[r], files, spoiled)
      /\ req' = [req EXCEPT ![r] = Idle(FALSE)] =>
            \A id \in DOMAIN rows : id \notin spoiled' => id \notin spoiled
  <2>1. req[r].pc \in {"write", "seedCommit"} /\ Ready(req[r], files, spoiled)
    BY DEF Write, SeedCommit, Shown
  <2> QED BY <2>1, StaysSpoilt
<1>1. \A x \in Requests \ {r} : req[x].pc = "idle"
  BY <1>0, OthersIdle DEF Calm
<1>2. CASE Write(r)
  <2> DEFINE row == IF req[r].kind = "create" THEN req[r].object
                    ELSE Flush(rows[req[r].id], req[r].seen, req[r].object)
  <2>0. req[r].pc = "write"
    BY <1>2 DEF Write
  <2>1. CASE IndexesRefuse(req[r].id, row)
    <3>1. Fail(r) /\ UNCHANGED <<rows, files>>
      BY <1>2, <2>1 DEF Write
    <3> QED BY <3>1, CloseShown DEF Fail
  <2>2. CASE ~IndexesRefuse(req[r].id, row)
    <3>1. /\ Answer(r) /\ UNCHANGED files /\ DOMAIN rows' = DOMAIN rows \cup {req[r].id}
          /\ \A x \in DOMAIN rows \ {req[r].id} : rows'[x] = rows[x]
          /\ rows'[req[r].id].logo = req[r].object.logo
          /\ rows'[req[r].id].digest = req[r].object.digest
      BY <1>2, <2>2, CommittedRow
    <3> HIDE DEF row
    <3>2. req' = [req EXCEPT ![r] = Idle(FALSE)] /\ Ready(Idle(FALSE), files', spoiled')
      BY <3>1 DEF Answer, Close, Idle, Ready
    <3>3. ASSUME NEW id \in DOMAIN rows', id \notin spoiled' PROVE Shows(rows'[id], files')
      <4>1. id \notin spoiled
        BY <1>0, <3>2, <3>3 DEF Shown
      <4>2. CASE id = req[r].id
        <5>1. Shows(req[r].object, files)
          BY <1>0, <2>0, <4>1, <4>2 DEF Ready
        <5> QED BY <3>1, <4>2, <5>1 DEF Shows
      <4>3. CASE id # req[r].id
        <5>1. id \in DOMAIN rows /\ rows'[id] = rows[id]
          BY <3>1, <4>3
        <5>2. Shows(rows[id], files)
          BY <1>1, <4>1, <4>3, <5>1 DEF Shown, Replaces
        <5> QED BY <3>1, <5>1, <5>2 DEF Shows
      <4> QED BY <4>2, <4>3
    <3> QED BY <1>1, <3>1, <3>2, <3>3, WorkShown
  <2> QED BY <2>1, <2>2
<1>3. CASE SeedCommit(r)
  <2>1. /\ req[r].pc = "seedCommit" /\ UNCHANGED files
        /\ req' = [req EXCEPT ![r] = Idle(FALSE)]
        /\ rows' = [id \in DOMAIN rows \cup DOMAIN pending[r] |->
                       IF id \in DOMAIN rows THEN rows[id] ELSE pending[r][id]]
    BY <1>3 DEF SeedCommit, Answer, Close
  <2>2. Ready(Idle(FALSE), files', spoiled')
    BY DEF Idle, Ready
  <2>3. ASSUME NEW id \in DOMAIN rows', id \notin spoiled' PROVE Shows(rows'[id], files')
    <3>1. CASE id \in DOMAIN rows
      <4>1. rows'[id] = rows[id] /\ id \notin spoiled
        BY <1>0, <2>1, <2>3, <3>1
      <4>2. Shows(rows[id], files)
        BY <1>1, <2>1, <3>1, <4>1 DEF Shown, Replaces
      <4> QED BY <2>1, <4>1, <4>2 DEF Shows
    <3>2. CASE id \notin DOMAIN rows
      BY <2>1, <2>3, <3>2 DEF Shows, Calm
    <3> QED BY <3>1, <3>2
  <2> QED BY <1>1, <2>1, <2>2, <2>3, WorkShown
<1> QED BY <1>2, <1>3

\* Every step that leaves the requests undisturbed keeps the images shown.
LEMMA NextShown ==
    ASSUME IInv, Calm, Shown, HistoryNext, undisturbed'
    PROVE  Shown'
<1>1. SpoiltStep /\ OneAtATime'
  BY HistorySpoils DEF HistoryNext
<1>2. PICK r \in Requests : Start(r) \/ Step(r) \/ Abort(r)
  BY DEF HistoryNext, Next
<1>3. CASE Start(r)
  BY <1>1, <1>3, StartsShown
<1>4. CASE Step(r)
  BY <1>1, <1>4, ChecksShown, DropsShown, SaveShown, MoveShown, CommitsShown DEF Step
<1>5. CASE Abort(r)
  BY <1>1, <1>5, ChecksShown
<1> QED BY <1>2, <1>3, <1>4, <1>5

-----------------------------------------------------------------------------
(* The theorems about rows and files.                                      *)

\* Both invariants hold throughout.
LEMMA CalmInvariance == HistorySpec => [](IInv /\ CalmInv)
<1>1. HistoryInit => IInv /\ CalmInv
  <2> SUFFICES ASSUME HistoryInit PROVE IInv /\ CalmInv
    OBVIOUS
  <2>1. IInv
    BY InitEstablishes DEF HistoryInit
  <2>2. undisturbed => Calm
    <3>1. \A r \in Requests : req[r].pc = "idle" /\ pending[r] = EmptyTable
      BY DEF HistoryInit, Init, Idle
    <3>2. \A r \in Requests : Fits(req[r], pending[r], rows) /\ Cleared(req[r], rows, files)
      BY <3>1, IdleFits
    <3> QED BY <3>1, <3>2, EmptyIsTable DEF HistoryInit, Init, Calm, OneAtATime
  <2> QED BY <2>1, <2>2 DEF CalmInv
<1>2. IInv /\ CalmInv /\ [HistoryNext]_hvars => (IInv /\ CalmInv)'
  <2>1. CASE HistoryNext /\ IInv /\ CalmInv
    <3>1. IInv'
      BY <2>1, StepPreserves DEF HistoryNext, Next
    <3>2. undisturbed' => undisturbed /\ OneAtATime'
      BY <2>1 DEF HistoryNext
    <3>3. undisturbed' => Calm'
      BY <2>1, <3>2, NextCalm DEF CalmInv, HistoryNext
    <3> QED BY <3>1, <3>3 DEF CalmInv
  <2>2. CASE UNCHANGED hvars /\ IInv /\ CalmInv
    <3>1. UNCHANGED <<rows, pending, files, faulty, req, undisturbed>>
      BY <2>2 DEF hvars, vars
    <3>2. IInv'
      BY <2>2, <3>1 DEF IInv, TypeOK, Claims, EntriesApart, AliveUnique, Alive
    <3>3. CalmInv'
      BY <2>2, <3>1 DEF CalmInv, Calm, OneAtATime, Filed, Fits, Cleared, Dropped
    <3> QED BY <3>2, <3>3
  <2> QED BY <2>1, <2>2
<1> QED BY <1>1, <1>2, PTL DEF HistorySpec

\* While requests come one at a time and the storage works, failing or not, a row
\* gives up its logo only after the file was dropped or because another row has the same
\* image (_is_logo_referenced_by_others and the deletions that it guards).
THEOREM NoOrphanLeft == HistorySpec => CommitLeavesNoOrphan
<1>1. IInv /\ CalmInv /\ [HistoryNext]_hvars => [LeavesNoOrphan]_hvars
  BY CommitsLeaveNoOrphan DEF HistoryNext
<1> QED BY <1>1, CalmInvariance, PTL DEF HistorySpec, CommitLeavesNoOrphan

\* Under the same conditions, and but for a renaming, no request removes a file that the
\* row of another connector points to.
THEOREM FilesAreKept == HistorySpec => ReferencedFileKept
<1>1. IInv /\ CalmInv /\ [HistoryNext]_hvars => [KeepsReferenced]_hvars
  BY FilesOfOthersStay DEF HistoryNext
<1> QED BY <1>1, CalmInvariance, PTL DEF HistorySpec, ReferencedFileKept

\* Under the same conditions a row's logo is filed under its name, and is its image unless
\* another row ended up under the same key or a request on the row failed over its files:
\* whatever names share a slug, clearing, deleting, restoring, purging and failing harm the
\* logo of no other row.
THEOREM LogosAreShown == HistorySpec => []LogoShown
<1>1. HistoryInit => ShownInv
  BY DEF HistoryInit, Init, Idle, ShownInv, Shown, Ready, EmptyTable
<1>2. IInv /\ CalmInv /\ ShownInv /\ [HistoryNext]_hvars => ShownInv'
  <2>1. CASE HistoryNext /\ IInv /\ CalmInv /\ ShownInv
    <3>1. undisturbed' => undisturbed
      BY <2>1 DEF HistoryNext
    <3> QED BY <2>1, <3>1, NextShown DEF CalmInv, ShownInv
  <2>2. CASE UNCHANGED hvars /\ ShownInv
    <3>1. UNCHANGED <<rows, files, req, undisturbed, spoiled>>
      BY <2>2 DEF hvars, vars
    <3> QED BY <2>2, <3>1 DEF ShownInv, Shown, Ready, Replaces, Shows
  <2> QED BY <2>1, <2>2
<1>3. CalmInv /\ ShownInv => LogoShown
  BY DEF CalmInv, Calm, Filed, ShownInv, Shown, Shows, Replaces, LogoShown
<1> QED BY <1>1, <1>2, <1>3, CalmInvariance, PTL DEF HistorySpec
=============================================================================
