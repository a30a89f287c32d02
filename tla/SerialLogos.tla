---------------------------- MODULE SerialLogos ----------------------------
(***************************************************************************)
(* ConnectorLogos with two history variables, for what holds of rows and   *)
(* files only while requests come one at a time and the storage works.     *)
(* Requests may fail at any step, and names may share a slug.              *)
(***************************************************************************)
EXTENDS ConnectorLogos

VARIABLES
    undisturbed,  \* whether all that has been so until now
    spoiled       \* the rows whose file another row has changed, or whose own request
                  \* failed over it, since they last stored one

hvars == <<vars, undisturbed, spoiled>>

HistoryInit == Init /\ undisturbed = ~faulty /\ spoiled = {}

OneAtATime ==
    \A q, r \in Requests : req[q].pc # "idle" /\ req[r].pc # "idle" => q = r

\* The request ends with an error after it has begun to change files.
FailsOverFiles(r) ==
    /\ req[r].pc \in {"dropLogo", "purge", "save", "move", "write"}
    /\ req'[r].failed

\* An upload stores over the file of another row, or a renaming moves a file over it
\* or away from it: neither looks at who else has the key.
TakesFileOf(r, id) ==
    /\ req[r].pc \in {"save", "move"} /\ req[r].id # id
    /\ rows[id].logo # None /\ files'[rows[id].logo] # files[rows[id].logo]

StoresFileOf(r, id) == req[r].pc = "save" /\ req'[r].pc = "write" /\ req[r].id = id

Spoilt(id) ==
    \/ \E r \in Requests : TakesFileOf(r, id) \/ (req[r].id = id /\ FailsOverFiles(r))
    \/ id \in spoiled /\ ~\E r \in Requests : StoresFileOf(r, id)

HistoryNext ==
    /\ Next
    /\ undisturbed' = (undisturbed /\ OneAtATime')
    /\ spoiled' = IF undisturbed' THEN {id \in DOMAIN rows : Spoilt(id)} ELSE {}

HistorySpec == HistoryInit /\ [][HistoryNext]_hvars

-----------------------------------------------------------------------------
(* Properties.                                                             *)

\* A row's logo is filed under its name, and the file that a row points to is the image
\* whose digest the row has, deleted rows included and restored ones too.  Only an upload
\* or a renaming of another row that ends up under the same key can break the second
\* part, and a failed request only for its own row.
LogoShown ==
    undisturbed => \A id \in DOMAIN rows :
        rows[id].logo # None =>
            /\ rows[id].logo.slug = SlugOf[rows[id].name]
            /\ id \notin spoiled /\ (\A r \in Requests : req[r].pc = "idle")
                   => files[rows[id].logo] = rows[id].digest

\* A commit that drops the last reference to a stored file leaves the file only
\* if another row, deleted or not, has the same image.
LeavesNoOrphan ==
    undisturbed => \A id \in DOMAIN rows :
        LET key == rows[id].logo
        IN  key # None /\ (\A i \in DOMAIN rows : rows'[i].logo # key)
                => \/ files'[key] = None
                   \/ \E i \in DOMAIN rows \ {id} : rows[i].digest = rows[id].digest

CommitLeavesNoOrphan == [][LeavesNoOrphan]_hvars

\* A stored file that a row points to is removed only by a request on that row,
\* or by a renaming.
KeepsReferenced ==
    undisturbed => \A k \in Keys, id \in DOMAIN rows :
        files[k] # None /\ rows[id].logo = k /\ files'[k] = None
            => \E r \in Requests : req[r].id = id \/ req[r].pc = "move"

ReferencedFileKept == [][KeepsReferenced]_hvars
=============================================================================
