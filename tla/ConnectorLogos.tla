--------------------------- MODULE ConnectorLogos ---------------------------
(***************************************************************************)
(* Names and logos of the connector catalog: the name, logo_url,           *)
(* logo_sha256 and is_deleted columns of table connectors, and the files   *)
(* in the logo storage.  Module Bindings has the rest of the row.          *)
(*                                                                         *)
(* Creation and upload are coroutines: they run on the event loop of the   *)
(* one API process, and only reading an upload that was spooled to disk    *)
(* suspends them.  Renaming, clearing, deleting and restoring run in the   *)
(* thread pool, and a seeder may run in a process of its own; these        *)
(* interleave with everything.  A storage operation takes effect at once,  *)
(* a row when its transaction commits; a flushed INSERT keeps its entry in *)
(* the unique name index until then, and who wants that entry waits.       *)
(***************************************************************************)
EXTENDS Naturals, FiniteSets, Sequences, FiniteSetsExt, Tables

CONSTANTS ConnectorIds,  \* connectors.id, a bound on the rows stored
          Names,         \* connectors.name, up to case and outer blanks
          Slugs, SlugOf, \* what _slugify makes of a name
          Images,        \* contents of a logo file; equal content, equal digest
          Exts, ExtOf,   \* the file extension of an image
          Large,         \* images of more than 1 MB, which are spooled to disk
          Defaults,      \* the names that the seeder stores, in its order
          Requests,      \* requests and seeders running at the same time
          None           \* the value of an unused field

ASSUME LogoConstants ==
    /\ SlugOf \in [Names -> Slugs]
    /\ ExtOf \in [Images -> Exts]
    /\ Large \subseteq Images
    /\ Defaults \in Seq(Names)
    /\ None \notin Names \cup Images

VARIABLES
    rows,     \* connectors: the committed rows
    pending,  \* the rows each transaction has inserted and not committed
    files,    \* the image stored under each key of the logo storage, or None
    faulty,   \* whether the storage may fail without telling its caller
    req       \* what each request executes

vars == <<rows, pending, files, faulty, req>>

Keys == [slug : Slugs, ext : Exts]

\* logo_url and storage key stand for each other (url_for, key_from_url): no route
\* takes a URL from the caller.
Row == [name : Names, logo : Keys \cup {None}, digest : Images \cup {None},
        deleted : BOOLEAN]

Coroutines == {"create", "upload"}
Threads    == {"rename", "clear", "delete", "restore"}
Pcs == {"idle", "insert", "readFile", "checkName", "checkImage", "move",
        "dropLogo", "purge", "save", "write", "seed", "seedInsert", "seedCommit"}

Request == [kind   : Coroutines \cup Threads \cup {"seed", None},
            pc     : Pcs,
            id     : ConnectorIds \cup {None},
            image  : Images \cup {None},
            seen   : Row \cup {None},   \* the row as the session loaded it
            object : Row \cup {None},   \* the session's object
            todo   : Seq(Names),        \* the names a seeder has not dealt with
            failed : BOOLEAN]           \* the last answer was a 500

Idle(failed) == [kind |-> None, pc |-> "idle", id |-> None, image |-> None,
                 seen |-> None, object |-> None, todo |-> <<>>, failed |-> failed]

Running(kind, pc, id, image, seen, object) ==
    [kind |-> kind, pc |-> pc, id |-> id, image |-> image,
     seen |-> seen, object |-> object, todo |-> <<>>, failed |-> FALSE]

TypeOK ==
    /\ IsTable(rows, ConnectorIds, Row)
    /\ DOMAIN pending = Requests
    /\ \A r \in Requests : IsTable(pending[r], ConnectorIds, Row)
    /\ files \in [Keys -> Images \cup {None}]
    /\ faulty \in BOOLEAN
    /\ req \in [Requests -> Request]

Init ==
    /\ rows = EmptyTable
    /\ pending = [r \in Requests |-> EmptyTable]
    /\ files = [k \in Keys |-> None]
    /\ faulty \in BOOLEAN
    /\ req = [r \in Requests |-> Idle(FALSE)]

\* Mistake: the session is not closed after an error.
CloseNoRollback(r, failed) ==
    /\ req' = [req EXCEPT ![r] = Idle(failed)]
    /\ UNCHANGED pending

\* The session is closed: what was flushed and not committed is rolled back.
Close(r, failed) ==
    /\ req' = [req EXCEPT ![r] = Idle(failed)]
    /\ pending' = [pending EXCEPT ![r] = EmptyTable]

\* 200, 201 or, when the request is refused, 400, 404, 409, 413 or 415.
Answer(r) == Close(r, FALSE)

\* 500
Fail(r) == Close(r, TRUE)

Goto(r, pc) == req' = [req EXCEPT ![r].pc = pc]

-----------------------------------------------------------------------------
(* The event loop and the database.                                        *)

\* UploadFile.read returns at once what is still in memory.
Suspends(image) == image \in Large

Suspended(r) == req[r].pc = "readFile"

\* Coroutines run one at a time.
LoopFree(r) ==
    \A q \in Requests \ {r} : req[q].kind \in Coroutines => Suspended(q)

MayRun(r) == req[r].kind \in Coroutines => LoopFree(r)

Alive(id) == id \in DOMAIN rows /\ ~rows[id].deleted

\* Another transaction holds the entry of this name in the unique index.
NameHeld(r, name) ==
    \E q \in Requests \ {r} : \E id \in DOMAIN pending[q] : pending[q][id].name = name

\* Mistake: the partial indexes of migration 008 are missing.
IndexesRefuseNothing(id, row) == FALSE

\* connectors_name_lower_uniq and connectors_logo_sha256_uniq, over the alive rows.
IndexesRefuse(id, row) ==
    /\ ~row.deleted
    /\ \E other \in DOMAIN rows \ {id} :
          /\ Alive(other)
          /\ \/ rows[other].name = row.name
             \/ row.digest # None /\ rows[other].digest = row.digest

\* A bound: the primary keys that no row, insert or seeder has claimed.
Claimed == DOMAIN rows \cup {req[r].id : r \in Requests}
                       \cup UNION {DOMAIN pending[r] : r \in Requests}
RoomFor(n) ==
    n + MapThenSumSet(LAMBDA r : Len(req[r].todo), Requests)
        <= Cardinality(ConnectorIds \ Claimed)

-----------------------------------------------------------------------------
(* Start of a request: the first SELECT.                                   *)

NameTaken(id, name) ==
    \E other \in DOMAIN rows \ {id} : Alive(other) /\ rows[other].name = name

\* The check sees the name as it was sent.  Outer blanks are stripped only for the
\* row, so a padded name is never found.
StartCreate(r, id, name, padded, image) ==
    /\ req[r].pc = "idle"
    /\ \A q \in Requests : req[q].kind \in Coroutines => Suspended(q)
    /\ id \notin Claimed /\ RoomFor(1)
    /\ LET row == [name |-> name, logo |-> None, digest |-> None, deleted |-> FALSE]
       IN  IF ~padded /\ NameTaken(id, name)
           THEN Answer(r)
           ELSE /\ req' = [req EXCEPT ![r] =
                       Running("create", "insert", id, image, None, row)]
                /\ UNCHANGED pending
    /\ UNCHANGED <<rows, files>>

\* get_connector_or_404, or for restore the lookup that also finds deleted rows.
Load(r, kind, id, image, pc, object) ==
    /\ req[r].pc = "idle"
    /\ IF Alive(id) \/ (kind = "restore" /\ id \in DOMAIN rows)
       THEN /\ req' = [req EXCEPT ![r] =
                   Running(kind, pc, id, image, rows[id], object)]
            /\ UNCHANGED pending
       ELSE Answer(r)
    /\ UNCHANGED <<rows, files>>

StartUpload(r, id, image) ==
    /\ \A q \in Requests : req[q].kind \in Coroutines => Suspended(q)
    /\ Load(r, "upload", id, image,
            IF Suspends(image) THEN "readFile" ELSE "checkImage", rows[id])

\* A PUT whose name is the stored one is an update without a name: Bindings.
StartRename(r, id, name) ==
    /\ Alive(id) => rows[id].name # name
    /\ Load(r, "rename", id, None, "checkName", [rows[id] EXCEPT !.name = name])

StartClear(r, id) ==
    Load(r, "clear", id, None, "dropLogo",
         [rows[id] EXCEPT !.logo = None, !.digest = None])

\* Whether a binding refuses the deletion is modelled in Bindings.
StartDelete(r, id) ==
    \/ Load(r, "delete", id, None, "write", [rows[id] EXCEPT !.deleted = TRUE])
    \/ Alive(id) /\ req[r].pc = "idle" /\ Answer(r) /\ UNCHANGED <<rows, files>>

StartRestore(r, id) ==
    IF Alive(id)
    THEN req[r].pc = "idle" /\ Answer(r) /\ UNCHANGED <<rows, files>>
    ELSE Load(r, "restore", id, None, "checkName", [rows[id] EXCEPT !.deleted = FALSE])

-----------------------------------------------------------------------------
(* Statements of a running request.                                        *)

\* The first flush of create_connector.  A stripped name may be taken after all.
Insert(r) ==
    /\ req[r].pc = "insert" /\ MayRun(r)
    /\ LET id == req[r].id
           row == req[r].object
           image == req[r].image
       IN  /\ ~NameHeld(r, row.name)
           /\ IF IndexesRefuse(id, row)
              THEN Fail(r)
              ELSE /\ pending' = [pending EXCEPT ![r] = Put(@, id, row)]
                   /\ Goto(r, IF image = None THEN "write"
                              ELSE IF Suspends(image) THEN "readFile" ELSE "checkImage")
    /\ UNCHANGED <<rows, files>>

\* The thread that reads the spooled file is done, the event loop resumes.
ReadFile(r) ==
    /\ Suspended(r) /\ MayRun(r)
    /\ Goto(r, "checkImage")
    /\ UNCHANGED <<rows, pending, files>>

CheckName(r) ==
    /\ req[r].pc = "checkName"
    /\ LET object == req[r].object
           next == IF req[r].kind = "restore"
                   THEN IF object.digest = None THEN "write" ELSE "checkImage"
                   ELSE IF object.logo = None THEN "write" ELSE "move"
       IN  IF NameTaken(req[r].id, object.name)
           THEN Answer(r)
           ELSE Goto(r, next) /\ UNCHANGED pending
    /\ UNCHANGED <<rows, files>>

\* An upload is refused when it is no image of an accepted size and type, and an
\* upload or a restored row when another alive row has the same image.
CheckImage(r) ==
    /\ req[r].pc = "checkImage" /\ MayRun(r)
    /\ LET uploading == req[r].kind \in Coroutines
           digest == IF uploading THEN req[r].image ELSE req[r].object.digest
           taken == \E other \in DOMAIN rows \ {req[r].id} :
                       Alive(other) /\ rows[other].digest = digest
       IN  \/ uploading /\ Answer(r)
           \/ taken /\ Answer(r)
           \/ /\ ~taken
              /\ Goto(r, IF uploading THEN "dropLogo" ELSE "write")
              /\ UNCHANGED pending
    /\ UNCHANGED <<rows, files>>

\* Mistake: the row itself is not excluded.
ReferencedByAnyone(id, logo, digest) ==
    \E other \in DOMAIN rows :
        \/ rows[other].logo = logo
        \/ digest # None /\ rows[other].digest = digest

\* Mistake: only alive rows count.
ReferencedByAlive(id, logo, digest) ==
    \E other \in DOMAIN rows \ {id} :
        /\ Alive(other)
        /\ \/ rows[other].logo = logo
           \/ digest # None /\ rows[other].digest = digest

\* _is_logo_referenced_by_others: deleted rows count.
ReferencedByOthers(id, logo, digest) ==
    \E other \in DOMAIN rows \ {id} :
        \/ rows[other].logo = logo
        \/ digest # None /\ rows[other].digest = digest

-----------------------------------------------------------------------------
(* The logo storage: local files or S3.                                    *)

Without(keys) == [k \in Keys |-> IF k \in keys THEN None ELSE files[k]]

\* An error of unlink is hidden.
Deleting(keys) ==
    IF faulty THEN {Without(gone) : gone \in SUBSET keys} ELSE {Without(keys)}

\* list_prefix
Stored(slug) == {k \in Keys : k.slug = slug /\ files[k] # None}

Copied(src, dst) == [files EXCEPT ![dst] = files[src]]
Moved(src, dst)  == [files EXCEPT ![dst] = files[src], ![src] = None]

\* An error is hidden: nothing has happened, or the old destination is gone.
LocalMoving(src, dst) ==
    {Moved(src, dst)} \cup (IF faulty THEN {files, Without({dst})} ELSE {})

\* An error of the second call is hidden: the source is kept.
S3Moving(src, dst) ==
    {Moved(src, dst)} \cup (IF faulty THEN {Copied(src, dst)} ELSE {})

-----------------------------------------------------------------------------
(* Replacing, removing and renaming a logo.                                *)

\* The old logo goes before the new one is stored or the row is written.
DropLogo(r) ==
    /\ req[r].pc = "dropLogo" /\ MayRun(r)
    /\ LET old == IF req[r].kind = "create" THEN req[r].object ELSE req[r].seen
       IN  files' \in Deleting({k \in {old.logo} \ {None} :
                                   ~ReferencedByOthers(req[r].id, k, old.digest)})
    /\ Goto(r, IF req[r].kind = "clear" THEN "write" ELSE "purge")
    /\ UNCHANGED <<rows, pending>>

LogoKey(name, ext) == [slug |-> SlugOf[name], ext |-> ext]

\* Mistake: nobody asks whether another row has the file.
PurgeUnasked(r) ==
    /\ req[r].pc = "purge" /\ MayRun(r)
    /\ LET keep == LogoKey(req[r].object.name, ExtOf[req[r].image])
       IN  files' \in Deleting(Stored(keep.slug) \ {keep})
    /\ Goto(r, "save")
    /\ UNCHANGED <<rows, pending>>

\* Files of the same slug with another extension.
Purge(r) ==
    /\ req[r].pc = "purge" /\ MayRun(r)
    /\ LET keep == LogoKey(req[r].object.name, ExtOf[req[r].image])
       IN  files' \in Deleting({k \in Stored(keep.slug) \ {keep} :
                                   ~ReferencedByOthers(req[r].id, k, None)})
    /\ Goto(r, "save")
    /\ UNCHANGED <<rows, pending>>

Save(r) ==
    /\ req[r].pc = "save" /\ MayRun(r)
    /\ LET image == req[r].image
           key == LogoKey(req[r].object.name, ExtOf[image])
       IN  /\ files' = [files EXCEPT ![key] = image]
           /\ req' = [req EXCEPT ![r].object.logo = key,
                                 ![r].object.digest = image,
                                 ![r].pc = "write"]
    /\ UNCHANGED <<rows, pending>>

\* Mistake: the new key has no extension.
RenamedLogoBare(seen, name) == [slug |-> SlugOf[name], ext |-> None]

RenamedLogo(seen, name) == LogoKey(name, seen.logo.ext)

\* A missing source is not an error.  The row follows the new name even when the
\* storage has hidden one.
Move(r) ==
    /\ req[r].pc = "move"
    /\ LET src == req[r].seen.logo
           logo == RenamedLogo(req[r].seen, req[r].object.name)
           dst == LogoKey(req[r].object.name, src.ext)
       IN  /\ IF src = dst \/ files[src] = None
              THEN UNCHANGED files
              ELSE files' \in LocalMoving(src, dst) \cup S3Moving(src, dst)
           /\ req' = [req EXCEPT ![r].object.logo = logo, ![r].pc = "write"]
    /\ UNCHANGED <<rows, pending>>

\* The UPDATE sets only the columns in which the object differs from what the
\* session loaded.
Flush(stored, seen, object) ==
    [c \in {"name", "logo", "digest", "deleted"} |->
        IF object[c] = seen[c] THEN stored[c] ELSE object[c]]

\* Flush, audit row and commit.
Write(r) ==
    /\ req[r].pc = "write" /\ MayRun(r)
    /\ LET id == req[r].id
           row == IF req[r].kind = "create" THEN req[r].object
                  ELSE Flush(rows[id], req[r].seen, req[r].object)
       IN  /\ ~row.deleted => ~NameHeld(r, row.name)
           /\ IF IndexesRefuse(id, row)
              THEN Fail(r) /\ UNCHANGED rows
              ELSE /\ rows' = Put(rows, id, row)
                   /\ Answer(r)
    /\ UNCHANGED files

-----------------------------------------------------------------------------
(* Seeding: at the start of a process, or by hand.                         *)

StartSeed(r) ==
    /\ req[r].pc = "idle"
    /\ RoomFor(Len(Defaults))
    /\ req' = [req EXCEPT ![r].kind = "seed", ![r].pc = "seed",
                          ![r].todo = Defaults, ![r].failed = FALSE]
    /\ UNCHANGED <<rows, pending, files>>

Seeded(r, name) ==
    \/ \E id \in DOMAIN rows : rows[id].name = name
    \/ \E id \in DOMAIN pending[r] : pending[r][id].name = name

SeedLookup(r) ==
    /\ req[r].pc = "seed"
    /\ IF req[r].todo = <<>>
       THEN Goto(r, "seedCommit")
       ELSE IF Seeded(r, Head(req[r].todo))
            THEN req' = [req EXCEPT ![r].todo = Tail(@)]
            ELSE Goto(r, "seedInsert")
    /\ UNCHANGED <<rows, pending, files>>

\* run_seeders logs the failure of a seeder and closes the session.
SeedInsert(r) ==
    /\ req[r].pc = "seedInsert"
    /\ LET name == Head(req[r].todo)
           row == [name |-> name, logo |-> None, digest |-> None, deleted |-> FALSE]
       IN  /\ ~NameHeld(r, name)
           /\ \E id \in ConnectorIds \ Claimed :
                 IF IndexesRefuse(id, row)
                 THEN Fail(r)
                 ELSE /\ pending' = [pending EXCEPT ![r] = Put(@, id, row)]
                      /\ req' = [req EXCEPT ![r].todo = Tail(@), ![r].pc = "seed"]
    /\ UNCHANGED <<rows, files>>

SeedCommit(r) ==
    /\ req[r].pc = "seedCommit"
    /\ rows' = [id \in DOMAIN rows \cup DOMAIN pending[r] |->
                   IF id \in DOMAIN rows THEN rows[id] ELSE pending[r][id]]
    /\ Answer(r)
    /\ UNCHANGED files

-----------------------------------------------------------------------------
\* A statement, a storage operation or the process fails: the transaction is
\* rolled back, what the request did to the files stays.
Abort(r) ==
    /\ req[r].pc # "idle"
    /\ Fail(r)
    /\ UNCHANGED <<rows, files>>

Start(r) ==
    \/ StartSeed(r)
    \/ \E id \in ConnectorIds :
          \/ \E name \in Names, padded \in BOOLEAN, image \in Images \cup {None} :
                StartCreate(r, id, name, padded, image)
          \/ \E image \in Images : StartUpload(r, id, image)
          \/ \E name \in Names : StartRename(r, id, name)
          \/ StartClear(r, id)
          \/ StartDelete(r, id)
          \/ StartRestore(r, id)

Step(r) ==
    /\ \/ Insert(r) \/ ReadFile(r) \/ CheckName(r) \/ CheckImage(r)
       \/ DropLogo(r) \/ Purge(r) \/ Save(r) \/ Move(r) \/ Write(r)
       \/ SeedLookup(r) \/ SeedInsert(r) \/ SeedCommit(r)
    /\ UNCHANGED faulty

Next ==
    \E r \in Requests :
        \/ Start(r) /\ UNCHANGED faulty
        \/ Step(r)
        \/ Abort(r) /\ UNCHANGED faulty

\* The event loop resumes its coroutines and the database grants its locks in the
\* order of arrival: a step that is possible again and again is taken.
Fairness == \A r \in Requests : SF_vars(Step(r))

Spec == Init /\ [][Next]_vars /\ Fairness

-----------------------------------------------------------------------------
(* Properties.                                                             *)

\* However creations, renamings, restorations and seeders overlap, two alive
\* connectors have neither the same name nor the same image.
AliveUnique ==
    \A i, j \in DOMAIN rows :
        i # j /\ Alive(i) /\ Alive(j)
            => /\ rows[i].name # rows[j].name
               /\ (rows[i].digest # None => rows[i].digest # rows[j].digest)

\* A coroutine waits for a name that a suspended coroutine holds: the event loop
\* of the process runs nothing any more.
LoopHangs ==
    \E r, q \in Requests :
        /\ req[r].kind \in Coroutines /\ req[r].pc = "insert"
        /\ Suspended(q) /\ q # r
        /\ \E id \in DOMAIN pending[q] : pending[q][id].name = req[r].object.name

\* Every request and every seeder ends, whatever they wait for, unless a creation
\* with a large logo has hung the event loop.
AnsweredUnlessLoopHangs ==
    \A r \in Requests : req[r].pc # "idle" ~> (req[r].pc = "idle" \/ LoopHangs)

=============================================================================
