----------------------------- MODULE Credentials -----------------------------
(***************************************************************************)
(* The columns of one binding (a row of property_connectors) under         *)
(* concurrent requests: api_key, api_secret and the settings (scopes,      *)
(* config and base_url count as one column here), and is_active.           *)
(*                                                                         *)
(* As in Bindings, a handler loads the row in one statement and ends with  *)
(* a flush, a refresh and, perhaps, a commit, which form one step: the     *)
(* UPDATE holds the row's lock.  The flush emits only the columns whose    *)
(* value differs from the loaded one.                                      *)
(***************************************************************************)
EXTENDS Naturals, Tables

CONSTANTS Requests,  \* requests in progress at the same time
          Values,    \* the values of a column
          None       \* no row loaded

VARIABLES
    columns,  \* the committed credentials and settings
    active,   \* the committed is_active
    req       \* the request that each thread executes

vars == <<columns, active, req>>

Columns == {"api_key", "api_secret", "settings"}
RowColumns == [Columns -> Values]

\* Pydantic's exclude_unset: a payload has the fields the client sent.
UpdatePayloads == UNION {[fields -> Values] : fields \in SUBSET Columns}

Pcs == {"update", "refresh", "deactivate", "reactivate"}

Request == [pc        : {"idle"} \cup Pcs,
            payload   : UpdatePayloads,
            loaded    : RowColumns \cup {None},
            wasActive : BOOLEAN,
            status    : {0, 200, 201, 400, 409, 500}]

Idle(status) == [pc |-> "idle", payload |-> EmptyTable, loaded |-> None,
                 wasActive |-> FALSE, status |-> status]

TypeOK ==
    /\ columns \in RowColumns
    /\ active \in BOOLEAN
    /\ req \in [Requests -> Request]

\* The row as its first activation left it.
Init ==
    /\ columns \in RowColumns
    /\ active = TRUE
    /\ req = [r \in Requests |-> Idle(0)]

Answer(r, status) == req' = [req EXCEPT ![r] = Idle(status)]

Load(r, pc, payload) ==
    req' = [req EXCEPT ![r] = [pc |-> pc, payload |-> payload, loaded |-> columns,
                               wasActive |-> active, status |-> 0]]

\* PUT: an empty payload is refused.  One that only has nulls for the credentials
\* is not empty, but it changes nothing either.
StartUpdate(r, payload) ==
    /\ req[r].pc = "idle"
    /\ \/ DOMAIN payload = {} /\ Answer(r, 400)
       \/ Load(r, "update", payload)
    /\ UNCHANGED <<columns, active>>

\* POST of the pair again: the payload has every column.
StartRefresh(r, payload) ==
    /\ req[r].pc = "idle"
    /\ IF active THEN Answer(r, 409) ELSE Load(r, "refresh", payload)
    /\ UNCHANGED <<columns, active>>

StartToggle(r) ==
    /\ req[r].pc = "idle"
    /\ \/ Load(r, IF active THEN "deactivate" ELSE "reactivate", EmptyTable)
       \/ Answer(r, 200)
    /\ UNCHANGED <<columns, active>>

\* The encryption of a secret never gives the same column value twice.
Emitted(r) ==
    {c \in DOMAIN req[r].payload :
        c = "api_secret" \/ req[r].payload[c] # req[r].loaded[c]}

\* Mistake: exclude_unset is forgotten, and omitted fields are cleared.
FlushedCleared(r) ==
    [c \in Columns |-> IF c \in DOMAIN req[r].payload THEN req[r].payload[c] ELSE None]

\* Mistake: the UPDATE writes every column of the loaded object.
FlushedWholeRow(r) ==
    [c \in Columns |-> IF c \in DOMAIN req[r].payload THEN req[r].payload[c]
                       ELSE req[r].loaded[c]]

\* What the transaction sees after its flush, and db.refresh reads back.
Flushed(r) ==
    [c \in Columns |-> IF c \in Emitted(r) THEN req[r].payload[c] ELSE columns[c]]

\* Mistake: the handler only compares the snapshots.
ChangedSnapshotOnly(r) == req[r].loaded["settings"] # Flushed(r)["settings"]

\* The snapshots have is_active and the settings, but no credentials.
Changed(r) ==
    \/ "api_secret" \in DOMAIN req[r].payload
    \/ req[r].loaded["settings"] # Flushed(r)["settings"]
    \/ req[r].wasActive # active

\* The route commits only a change; otherwise the session is closed and with it
\* the transaction is rolled back.
WriteUpdate(r) ==
    /\ req[r].pc = "update"
    /\ columns' = IF Changed(r) THEN Flushed(r) ELSE columns
    /\ Answer(r, 200)
    /\ UNCHANGED active

\* Mistake: the stored secret is kept, as reactivation keeps it.
WriteRefreshKeepsSecret(r) ==
    /\ req[r].pc = "refresh"
    /\ columns' = [Flushed(r) EXCEPT !["api_secret"] = columns["api_secret"]]
    /\ active' = TRUE
    /\ Answer(r, 201)

WriteRefresh(r) ==
    /\ req[r].pc = "refresh"
    /\ columns' = Flushed(r)
    /\ active' = TRUE
    /\ Answer(r, 201)

WriteToggle(r) ==
    /\ req[r].pc \in {"deactivate", "reactivate"}
    /\ active' = (req[r].pc = "reactivate")
    /\ Answer(r, 200)
    /\ UNCHANGED columns

\* The connection drops or the commit fails.
Abort(r) ==
    /\ req[r].pc # "idle"
    /\ Answer(r, 500)
    /\ UNCHANGED <<columns, active>>

Step(r) ==
    \/ \E payload \in UpdatePayloads : StartUpdate(r, payload)
    \/ \E payload \in RowColumns : StartRefresh(r, payload)
    \/ StartToggle(r)
    \/ WriteUpdate(r)
    \/ WriteRefresh(r)
    \/ WriteToggle(r)
    \/ Abort(r)

Next == \E r \in Requests : Step(r)

Spec == Init /\ [][Next]_vars

-----------------------------------------------------------------------------

Ends(r, pc) == req[r].pc = pc /\ req'[r].pc = "idle" /\ req'[r].status # 500

\* UpdateConnector: "omitted fields are left unchanged", also when another
\* request changed them after this one loaded the row: a column only takes the
\* value that a request sent for it, and no update touches is_active.
OnlySentFieldsChange ==
    [][/\ \A c \in Columns : columns'[c] # columns[c] =>
             \E r \in Requests :
                 /\ Ends(r, "update") \/ Ends(r, "refresh")
                 /\ c \in DOMAIN req[r].payload /\ columns'[c] = req[r].payload[c]
       /\ active' # active =>
             ~ \E r \in Requests : Ends(r, "update")]_vars

Stored(payload) == \A c \in DOMAIN payload : columns'[c] = payload[c]

\* No other request wrote the row since this one loaded it.
Undisturbed(r) == columns = req[r].loaded /\ active = req[r].wasActive

\* Activating the pair again stores the credentials and settings that it was
\* given, all of them, unless another request wrote in between: then a value that
\* equals the loaded one is not written, and the row mixes both requests.
RefreshStoresPayload ==
    [][\A r \in Requests :
          Ends(r, "refresh") /\ Undisturbed(r) => Stored(req[r].payload)]_vars

\* So does an update that rotates the secret.
SecretRotationSticks ==
    [][\A r \in Requests :
          Ends(r, "update") /\ Undisturbed(r) /\ "api_secret" \in DOMAIN req[r].payload
              => Stored(req[r].payload)]_vars

\* UpdateConnector: "api_key and api_secret may be rotated independently": what an
\* update answered with 200 sent is stored.
UpdateStoresPayload ==
    [][\A r \in Requests : Ends(r, "update") => Stored(req[r].payload)]_vars
=============================================================================
