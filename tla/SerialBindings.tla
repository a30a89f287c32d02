--------------------------- MODULE SerialBindings ---------------------------
(***************************************************************************)
(* Bindings with history variables: the order in which the transactions    *)
(* began, the audit row that the audit routes list first for a binding,    *)
(* and whether requests have overlapped.                                   *)
(*                                                                         *)
(* An audit row's timestamp is the database's now(), the beginning of its  *)
(* transaction, so the routes, which list the newest timestamp first, need *)
(* not list the rows in the order of the commits.  Only the order of the   *)
(* beginnings matters: each open transaction has the set of those open     *)
(* ones that began before it.                                              *)
(***************************************************************************)
EXTENDS Bindings

VARIABLES
    began,      \* of each open transaction, the open ones that began before it
    listed,     \* the audit row of each binding that is listed first
    overlapped  \* whether two requests have been in progress at the same time

svars == <<vars, began, listed, overlapped>>

Opened == {r \in Requests : req[r].pc # "idle"}

Overlap == \E r, s \in Requests : r # s /\ req[r].pc # "idle" /\ req[s].pc # "idle"

SerialInit ==
    /\ Init
    /\ began = [r \in Requests |-> {}]
    /\ listed = EmptyTable
    /\ overlapped = FALSE

Ends(r) == req'[r].pc = "idle"

\* The open transaction r is the youngest when it begins, and forgotten at its end.
Timestamps(r) ==
    CASE req[r].pc = "idle" -> [began EXCEPT ![r] = Opened]
      [] Ends(r)            -> [s \in Requests |-> IF s = r THEN {} ELSE began[s] \ {r}]
      [] OTHER              -> began

\* The bindings of which r's step commits a write, together with its audit row.
Audited(r) ==
    CASE req'[r].status \notin {200, 201} -> {}
      [] req[r].pc = "insertBinding"      -> DOMAIN bindings' \ DOMAIN bindings
      [] req[r].pc \in {"refreshBinding", "reactivate", "deactivate"} -> {req[r].bid}
      [] OTHER                            -> {}

\* active: is_active in the row's after_value.
\* older:  the open transactions that began before that of the row.
\* rivals: the open transactions that were so when the binding was written.
\* alone:  whether the one that wrote it last was not among the rivals.
ListedRow == [active : BOOLEAN, older : SUBSET Requests,
              rivals : SUBSET Requests, alone : BOOLEAN]

\* The first audit row of a binding; it has no rivals.
FirstRow(r, active) ==
    [active |-> active, older |-> began[r], rivals |-> Opened \ {r}, alone |-> TRUE]

\* A further one, listed before or behind the row that was listed first so far.
NextRow(row, r, active) ==
    [active |-> IF r \in row.older THEN row.active ELSE active,
     older  |-> (IF r \in row.older THEN row.older ELSE began[r]) \ {r},
     rivals |-> (row.rivals \cup Opened) \ {r},
     alone  |-> r \notin row.rivals]

Without(row, r) == [row EXCEPT !.older = @ \ {r}, !.rivals = @ \ {r}]

Listing(r) ==
    IF ~Ends(r) THEN listed
    ELSE [b \in DOMAIN listed \cup Audited(r) |->
             CASE b \notin DOMAIN listed -> FirstRow(r, bindingAudit'[b])
               [] b \in DOMAIN listed /\ b \in Audited(r) ->
                      NextRow(listed[b], r, bindingAudit'[b])
               [] OTHER -> Without(listed[b], r)]

SerialNext ==
    /\ \E r \in Requests : Step(r) /\ began' = Timestamps(r) /\ listed' = Listing(r)
    /\ overlapped' = (overlapped \/ Overlap')

SerialSpec == SerialInit /\ [][SerialNext]_svars

\* Of the audit rows of a binding's activations, deactivations and reactivations, the one
\* that the audit routes list first shows whether the binding is active now, unless the
\* request that wrote the binding last was in progress when another one wrote it: then
\* the rows may be listed in another order than the writes.  Requests that overlap
\* without writing the binding disturb nothing, and the next request that writes it alone
\* puts the list right again.
ListedAuditShowsBinding ==
    /\ DOMAIN listed = DOMAIN bindings
    /\ \A b \in DOMAIN bindings :
          listed[b].alone => listed[b].active = bindings[b].active

\* Without overlap a deleted connector has no active binding: deletion counts the
\* bindings, and no binding is activated on a connector that is gone.
SerialDeletedHasNoActiveBinding == overlapped \/ DeletedHasNoActiveBinding

\* Without overlap a deleted connector is inactive: nothing but a restoration
\* changes it, and a restoration leaves it inactive.
SerialDeletedIsInactive == overlapped \/ DeletedIsInactive

\* Without overlap the newest audit row of a connector, which is both the one that was
\* committed last and the one that is listed first, shows the stored row, also when
\* requests fail.
SerialAuditShowsConnector == overlapped \/ AuditShowsConnector
=============================================================================
