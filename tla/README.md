# Verification of the RatingLift backend core

TLA+ models of the backend, checked by TLC on small instances, and theorems
about them checked by TLAPS for every value of the constants. The source is the
FastAPI service under `app/`, with its migrations under `alembic/`.

## 1. The system

| Part | State | Operations | Hard behaviour |
|---|---|---|---|
| Connector catalog (`admin/connectors`) | `connectors` rows: name, logo, `is_active`, `is_deleted`, order | create, update, reorder, activate, deactivate, soft delete, restore, logo upload and delete | checks and writes in separate statements; several rows and a file store changed by one request |
| Bindings (`property_connector`, `admin/property_connectors`) | `property_connectors` rows: pair, credentials, `is_active` | activate (insert or refresh), update, deactivate, reactivate; the same for admins | two activations of a pair; activation against deletion of the connector; column-wise UPDATEs of stale objects |
| Properties (`property`, `admin/property_routes`) | `properties` rows | create, update, (de)activate, bulk create, bulk deactivate | bulk requests with partial failure, unique place ids |
| Sessions (`auth/service`, `auth/tokens`) | `login_sessions`, JWTs and refresh tokens at clients | login, refresh, logout, revoke, password reset, authentication of a request | requests in several processes; tokens that outlive the row they refer to |
| Login guard (`auth/service`, `security`) | failure counter and lock of a user, `login_attempts`, `ip_blocklist`, Redis counters | every login step, success and failure | counters read, changed and written back; keys with a lifetime; time |
| One-time secrets (`auth/mfa`, `auth/password_reset`, `auth/totp`) | Redis keys of OTPs and tokens, the MFA columns of `users` | issue, verify, consume, enable, disable | GET and DELETE of a key as two commands; commit after a consumed token |
| Tenant context (`core/middleware`, `core/dependencies`) | the JWT claims of a request | filters and assertions on every query | none of its own: its effect is part of Bindings |
| Audit (`audit`, `admin/audit_routes`) | `audit_logs` | written with every change | before and after values of stale objects |
| Logo storage (`core/storage`, `admin/connectors`) | files or S3 objects | save, copy, delete, purge | not part of the database transaction |
| Start-up (`db/seed`, `auth/bootstrap`, `scripts`) | first rows, first admin, logo backfill | run once per process start, by hand | concurrent starts, a crash half-way |

Handlers declared `def` (properties, connectors, bindings) run in a thread pool:
any two interleave between any two database statements, at READ COMMITTED. The
handlers of `auth` are `async def` and do not await inside the service, so in one
process they run one at a time; two processes (the deployment notes foresee more
than one) interleave them like threads. A request's dependencies
(`get_current_user`) always run in a thread.

A session of the ORM writes, at its flush, only the columns whose value differs
from the one it loaded, and holds the row's lock until the commit. Both facts
decide the outcome of races, and the models keep them.

What has to be right:

- catalog and bindings: one row per pair of property and connector, no active
  binding on a deleted connector, a deleted connector inactive, no access across
  tenants, an audit trail that shows the stored state first;
- credentials: a request stores what it sent and nothing else;
- login guard: a lock, a limit or a block protects and ends, and never outlives
  its reason;
- names and logos: no two alive connectors share a name or an image, a row's
  logo follows its name and shows the image it has, no file is lost that a row
  points to, nothing waits for ever;
- properties: unique places per tenant, a batch stores and audits what it
  reports, no request touches another tenant's property, every request ends;
- second factor: a code or link works once, only a proven address or secret
  counts as verified, login codes go to their user only;
- sessions: revocation is final, a reset ends the sessions of the old password,
  a refresh token works once, only the owner ends a session.

## 2. Modules

| Module | Models | Extends |
|---|---|---|
| `Tables` | a table as a function from the stored keys to rows | |
| `Bindings` | catalog and bindings, tenant and admin routes | `Tables` |
| `Credentials` | the columns of one binding under concurrent requests | `Tables` |
| `Sessions` | login sessions, tokens, revocation, password reset | `Tables` |
| `LoginGuard` | failure counter and lock, address block, rate limit, with time | |
| `BindingRegistry` | what the bindings promise: each pair absent, on or off, and a trail that shows it | |
| `ConnectorLogos` | names and logos of the catalog, the logo storage, the event loop, the connector seeder | `Tables` |
| `PropertyStore` | the properties, single and bulk requests, row locks and index entries | `Tables` |
| `SecondFactor` | a user's codes, links, channels and authenticator app | |
| `SerialBindings`, `SerialSessions`, `SerialLogos` | history variables and properties: what holds as long as requests come one at a time | `Bindings`, `Sessions`, `ConnectorLogos` |
| `SecondFactorHistory` | history variables and properties: what was accepted, proven and shown | `SecondFactor` |
| `TableLemmas` | lemmas about tables | `Tables` |
| `BindingsProofs`, `CredentialsProofs`, `SessionsProofs`, `LoginGuardProofs`, `PropertyStoreProofs`, `SecondFactorProofs`, `ConnectorLogosProofs` | lemmas and theorems | the module they are about, or its history |
| `MCBindings`, `MCCredentials`, `MCSessions`, `MCLoginGuard`, `MCConnectorLogos`, `MCPropertyStore`, `MCSecondFactor` | instances for TLC: values of constants and bounds | the same |

### How the state corresponds to the code

A table is a function from the primary keys that are stored to rows, and holds
committed rows only. A request is a record in `req` whose `pc` names the
statement it executes next; the other fields are what the handler keeps between
statements (the loaded row `seen`, the ids of the path, the tenant of the
context). `Answer(r, status)` ends the request with the status code of the
response. The handlers of `Bindings`, `Credentials` and `Sessions` write at their end, and
flush, audit row and commit are one step, because the row lock keeps other writers
out from the flush to the commit and other requests only see committed rows. In
`ConnectorLogos` and `PropertyStore`, where a request goes on after a flush, what
it has flushed is private to it (`pending`, `writes`) and keeps its locks until
the commit. `Abort` is every way to lose a request: its transaction is rolled back.

`Bindings`. `catalog` and `bindings` are the tables; `catalogAudit` and
`bindingAudit` hold the audit row of each that was committed last (for a binding,
of its activations, deactivations and reactivations). `Begin` is the first query
of `get_current_user`, with which the transaction begins. `ReadOwnedProperty`,
`ReadConnector`, `ReadExisting` and then `InsertBinding` or `RefreshBinding` are
the statements of `activate_connector`; `StartDeactivate`, `StartReactivate` and
`StartUpdateBinding` the lookups of the other routes, `WriteToggle` and
`WriteUpdate` their ends. An admin's request is the same request in the context
of the tenant that owns the property. `StartSetConnector`, `StartDelete`,
`CountBindings`, `StartRestore` and `WriteConnector` are the catalog's routes.
The unique constraint of migration 009 is `BindingUnique`: with it violated the
insert ends in a 500. `Flush` is the column-wise UPDATE.

`Credentials` looks into one row of `bindings`: `api_key`, `api_secret`, the
settings, and the `changed` flag on which the update route's commit depends.

`Sessions`. One value of `Tokens` is a refresh token with the `jti` of the access
token minted with it. A session's row holds the newest one only; `home` remembers
for which session each was minted, which the server does not store but the access
token's signature vouches for. `password` in a row is the number of resets at the
moment the login verified the password: a history variable for
`ResetEndsOldSessions`.

`LoginGuard`. One account, and per address its block and its rate limit. Every
lifetime is a countdown that `Tick` moves on; the code compares stored times with
the clock. `attempts[a][k]` counts the tracked attempts with `k` ticks left in the
window that `recent_failures_for_ip` looks at. `StartLogin` is the address check
and the INCR, `SetExpiry` the EXPIRE, `ReadAccount` the lock check and the
password; `Fail`, `Challenge` and `Succeed` are the three ends of a login.
`StartMfa` and `StartUnguarded` are the other ways in, with the checks they have.
Other accounts at an address matter to its block only: `FailElsewhere` is a wrong
password or a challenge, from an address that is not blocked, and
`FailMfaElsewhere` a failed second factor, from any. `Abort` may happen at every
statement, also at the EXPIRE, which leaves a key without a lifetime: nothing gives
it one later. The counter under the key of the email, which nothing reads, is left
out.

`BindingRegistry` is the abstract specification of the bindings. `Registry` in
`Bindings` maps the state to it: a pair is absent when no row has it, and on or
off with that row's `is_active`, or, for the trail, with the audit row that was
committed last.

`ConnectorLogos` has the columns of `connectors` that `Bindings` leaves out. A key
of the storage is a slug with an extension; URL and key stand for each other, as no
route takes a URL. `SlugOf` is any function: `_slugify` gives "A B" and "A-B" one
slug, and all names without a Latin letter or digit. A coroutine (`create`, `upload`) runs only while every other
coroutine waits for a spooled file (`LoopFree`); the routes in threads and the
seeder interleave with everything. `Insert` is the first flush of a creation: from
then on its name is held (`NameHeld`), and an insert or update of the same name
waits. `DropLogo`, `Purge`, `Save` and `Move` are the storage operations, before
the commit in `Write`. The local and the S3 backend both hide errors, so a faulty
storage may have done nothing or half of what it was asked (`Deleting`,
`LocalMoving`, `S3Moving`).

`PropertyStore`. `writes[r]` holds the row versions of a transaction that are not
committed. `WaitsFor` is whose commit the next statement needs: the writer of the
row, or of a row that has or had the place. A cycle is a deadlock, and
`DeadlockVictim` the request that PostgreSQL fails. In a bulk creation `ItemFails`
is the rollback to the item's savepoint. An update takes the row lock in `Write`
and, if it brings a new place, goes to the unique index in `Index`. `name` and
`google_maps_url` take part in no check and are left out. The model assumes
SQLAlchemy 2, whose `commit` ends all savepoints (`requirements.txt` names no
version). A bulk deactivation that names one property twice is left out: its second
item finds the property inactive and reports it unchanged.

`SecondFactor`. One user. Handlers are coroutines without an `await`: `LoopFree`
lets no other handler begin between the steps of one, while `Arrive`, the
dependency `get_current_user`, runs in a thread and loads the row earlier. `codes`
and `links` are the Redis keys; GET and DELETE are two steps. The code of an app
shows that its sender has the secret, so the secret stands for it. Codes that
repeat by chance and the time window of TOTP are left out; `Expire` drops keys.
The assumptions `FactorConstants` and `CodesAreNoLinks` say that values of different
kinds differ: a code has six digits and a link's token 43 characters.

The history modules add variables that no step of the system reads, and conjoin to
`Next` how they change, so every behaviour of the system is one of theirs.
`overlapped` (in `SerialBindings` and `SerialSessions`) is whether two requests have
been in progress at the same time. `undisturbed` (in `SerialLogos` and
`SecondFactorHistory`) asks for more: the storage works, or no commit of a new address
fails. `spoiled` are the rows whose logo file another row's upload or renaming has
stored over or moved away, or whose own request failed after it had begun to change
files, since they last stored one. `spent` are the codes and links that were accepted
and neither left the system nor were issued anew, `proven` to whom a channel's accepted
code was sent, `shown` the secrets of which a code was given.

`listed` (in `SerialBindings`) is the audit row of a binding that the admin list shows
first. An audit row's `timestamp` is the database's `now()`, which is the beginning of
its transaction, and the list is ordered by it; so the row that was committed last need
not be the first one. `began` has, of each open transaction, the open ones that began
before it: more of the clock is not needed. A row in `listed` carries those (`older`),
the transactions that were open when the binding was written (`rivals`), and whether
its last writer was none of these (`alone`).

Operators under a comment that begins with "Mistake" are changed forms of a
definition. No specification uses them: each shows that a property notices it.

## 3. Runs

| Run | Question | Bounds |
|---|---|---|
| `bindings_race` | safety of overlapping requests, the catalog's promises until two overlap, the refinement | 2 tenants with a property each, 1 connector, 2 rows, 2 requests |
| `bindings_orphan` | activation against deletion (violated) | 2 requests |
| `bindings_detach` | deletion after every property has detached (violated) | 1 request |
| `credentials_race` | who writes which column, what was sent is stored | 2 requests, 2 values per column |
| `credentials_lost_key` | rotation of the api_key alone (violated) | 1 request |
| `sessions_race` | revocation, tokens and ownership under overlap; reset and refresh until two requests overlap | 2 users, 2 sessions, 4 token pairs, 2 requests, 1 reset per user |
| `sessions_rotated` | access tokens from before a refresh (violated) | 1 request |
| `login_guard` | lock and counter stay together; locks, limits and blocks end | 1 address, 1 process, thresholds and lifetimes of 2, admin blocks of 1 to 3 |
| `login_guard_blocked` | logins from a blocked address (violated) | 1 address, 1 process, thresholds and lifetimes of 1 or 2 |
| `connector_logos` | unique names and an answer for everybody under overlap; rows and files in step one request at a time | 2 rows, 3 names of which 2 share a slug, 2 images of which 1 is large, 2 requests, 1 default name |
| `property_store` | unique places, batches, audit trail, tenants and termination | 2 requests of 2 tenants, 4 rows and 2 places, batches of 2 |
| `second_factor` | codes, links and channels | 2 requests, 2 addresses and 1 number, 3 each of codes, links and secrets |

Why the bounds are enough: every race of these handlers is between two requests
on one row, pair or name. A request that ends is followed by the next one, so in
`bindings_race` two requests at a time overlap in chains of any length, which is what
the order of the list depends on; the theorems are about any number of requests at
a time. A second connector adds nothing there, since a
request names one connector. Two properties of different tenants are needed for
isolation, three token pairs for a token that was rotated away while another is
current. The sets of ids, of tokens, codes, links and `MaxResets` bound what is
ever created, so the runs stop there: where they reach the bound a request aborts
or does not begin.

The properties whose name begins with `Serial` hold until two requests have been
in progress at the same time (`overlapped`); after that the code breaks them.
`undisturbed` has the same role for `LogoShown`, `CommitLeavesNoOrphan`,
`ReferencedFileKept`, `VerifiedIsProven` and `LoginCodeReachesItsUser`.

`MCConnectorLogos` has two scenes. Alone, request `r1` does everything with both
images, all names and a storage that works, and may fail at every step. Together, two
requests create (with the large image, which suspends), rename, delete, restore and
seed with the two names of one slug, over a storage that may be faulty. Two rows are
enough for a name, a slug or a file that changes hands; the third name gives a renaming
a file to move.

`MCPropertyStore` has two scenes as well. Requests that create start from an empty
table and need four rows for two batches; requests that change start from two
rows, one with a place, which is enough for two batches in opposite order and for
a place that is given up by one row and taken by the other. `MCSecondFactor`
starts from one of five scenes: two addresses of one channel, both channels, the
login of a user with the second factor, the app, the links. What belongs to
different scenes shares no key and no column that the other scene checks.

`login_guard` runs one process, which is how the `Dockerfile` starts the API.
Thresholds of 2 leave a state below, at and past each; lifetimes of 2 ticks leave
one in which something else happens first. With a second worker
`CounterImpliesLock` fails: a social login that loaded a running lock and a
counter of zero clears the lock only, after a concurrent failure wrote the
counter.

The runs check that no state without a successor is reached. In `PropertyStore`
requests do wait for each other in a circle: PostgreSQL fails one of them, and
`RequestsEnd` says that this is enough. In `ConnectorLogos` a waiting request can
always be aborted, so a request that hangs is not found as a deadlock but by
`AnsweredUnlessLoopHangs`.

### Disagreements found

The `findings` of `PROJECT.json` quote the lines on both sides.

- A deletion and an activation that overlap leave an active binding on a deleted
  connector (`bindings_orphan`).
- A connector that was ever attached can never be deleted, because detaching
  keeps the row that the deletion counts (`bindings_detach`).
- An update that changes only the `api_key` is lost: it is flushed, answered with
  200, and never committed (`credentials_lost_key`).
- An access token from before a refresh is accepted after its session was
  revoked (`sessions_rotated`).
- Social logins and second factors are served from a blocked address
  (`login_guard_blocked`).

What the models also show, or what the properties except, is listed here, because
the code does it. Five of these contradict a sentence of the repository, although no
run of its own shows it:

- Migration 008 says that while `is_deleted` is true "`is_active` is forced false at
  the application layer" (`alembic/versions/008_connectors_finalize.py:12`). Under
  overlap, an activation of a connector that loaded it before its deletion revives it
  (`SerialDeletedIsInactive` holds until then).
- `add_mfa_channel` "Marks the channel as unverified until the user confirms"
  (`auth/service.py:594`). When a channel is replaced while its verification is in
  progress, the column-wise UPDATE leaves the new address marked as verified. When the
  commit of a new address fails, the code that was sent to it verifies the old one. A
  `verify_totp` that overlaps with a setup vouches for the new secret.
  (`VerifiedIsProven` is about undisturbed requests.)
- `_rename_logo_to_match_name` says "storage errors are swallowed and the DB pointer
  is left untouched in that case" (`admin/connectors/service.py:546`). The pointer
  is set after `storage.move` whatever that has hidden, so a row points to the new key
  also when the file is still under the old one (`Move` over a faulty storage).
- `password_reset.py:1` speaks of "single-use tokens". With two API processes a link
  or code that two requests present at the same time is accepted twice
  (`SecretsAcceptedOnce` is about one process).
- "Too many login attempts. Please retry later." (`auth/service.py:135`). When the
  EXPIRE after the first INCR fails, the key never ends, and neither does the refusal
  (`RateLimitEnds` is about a key that has its lifetime).

The others no document contradicts:

- Under overlap, a login that verified the old password survives a reset.
- The admin list may show the audit rows of two overlapping requests in another order
  than that of their commits, as the timestamp is the beginning of the transaction:
  the first row then shows a state that is over (`ListedAuditShowsBinding` excepts it).
- A failed second factor is tracked and prolongs the block of its address, although
  the block refuses no second factor: tried again and again from an address, also by
  other accounts, they keep it blocked (`BlockEnds` excepts it).
- A creation with a logo of more than 1 MB holds the index entry of its name while
  it is suspended in the event loop. A second creation of that name blocks the
  event loop in the database, and nothing resumes the first one (`LoopHangs`).
- A creation whose name has outer blanks never finds the row that has the name,
  and ends with 500 instead of 409.
- Two names with one slug share their files. An upload stores over the file of any
  other row under its key, and a renaming moves its file over whatever the new name's
  key holds, also when its commit then fails, and takes the file from a row that shares
  the old key. The other row then shows the wrong logo, or none (`spoiled`). Deleted
  rows are among them, and show it when they are restored.
- A request that fails after the file operations leaves its own row without its file.
- Two bulk requests in opposite order deadlock, and the loser's whole batch is
  answered 500.

## 4. Fairness

`Bindings`, `Credentials`, `Sessions` and `SecondFactor` are checked for safety only
and assume nothing: a request may stop for ever at any statement.

`ConnectorLogos` and `PropertyStore` assume strong fairness of `Step(r)`, the
statements of a request that has begun, and nothing of its beginning. Strong,
because a request that waits for a lock may see it free and taken again: PostgreSQL
queues those who wait and grants the lock in turn, and the event loop resumes its
coroutines in the order in which they became ready. `Abort` needs no fairness:
no property relies on a failure. `DeadlockVictim` is part of `Step`: PostgreSQL
looks for deadlocks after a second of waiting.

`LoginGuard` assumes weak fairness of `Tick` (time passes) and of `Proceed` for
each worker: the service waits for nothing but single commands to Redis and
PostgreSQL, and a row lock is held from a flush to the commit only. A command may
fail at any time (`Abort`), which needs no fairness. A failing EXPIRE, like a process
that dies before it, leaves a rate limit without a lifetime: `RateLimitEnds` is about
the keys that have one. Nothing is assumed of clients and admins. They may send
requests or stop, so the liveness properties hold under any storm of password logins.
`BlockEnds` excepts admins who block an address again and again, and clients who try
second factors from it again and again, which prolong the block without being refused.

## 5. Proofs

`BindingsProofs` proves for any number of tenants, properties, connectors, rows
and concurrent requests, from `OwnerAssumption` alone (every property has an
owning tenant): type correctness, `OneBindingPerPair` and `TenantIsolation`. The invariants are not inductive: a request that is about to
write relies on what it read. `IInv` adds `Consistent(req[r])`: what the program
point says of the request's record (its property is its tenant's, the row it
loaded is still stored and still that property's). Rows are never removed and
never change their pair, so these facts survive the steps of others (`ReadStep`,
`WriteStep`), and each writing action is reduced to one of two lemmas
(`WriteActive`, `InsertKeeps`) for the bindings and one for the catalog.
`IsolatedStep` derives isolation from the same invariant.

`Refinement` is `Spec => ImplementsRegistry`: the initial state has no pair, and each
step is a switch of one pair with its trail or leaves both alone. It needs, besides
`IInv`, that a pair has at most one row and that the audit trail has a row for exactly
the stored bindings, showing their state; so the new and the old picture of a pair
differ only where the one written row does.

`ListedAuditCorrect` is about the order in which the admin list shows the trail, for any
overlap. `ListInv` says that `began` orders the open transactions (`BeganBefore`), and
that those which began before the row that is listed first are rivals
(`OlderAreRivals`): they were open when the binding was written. So a writer that was no
rival began later than that row, is listed before it, and shows what it has written.

The three `Serial` theorems about the catalog (`NoActiveOrphans`,
`DeletedStaysInactive`, `CatalogAuditCorrect`) rest on `SInv`: until requests overlap,
what the one in progress has read is still so (`Current`): its connector is not
deleted, its copy is the stored row, a deletion that has counted no binding still
counts none. The overlapping deletion of `bindings_orphan` breaks exactly the last of
these.

`CredentialsProofs` proves type correctness and the three action properties. The facts
are about one statement: what `Flushed` writes is what was sent where it differs from
the loaded copy (`FlushedColumns`), so it is all that was sent if the copy was not
stale (`FlushedStoresPayload`). `WriterEnds` ties a changed column to the one request
that ends in the step.

`SessionsProofs` proves, from no assumption that restricts the constants:
type correctness, `SessionHoldsItsToken`, `RevocationIsFinal` and
`OwnSessionsOnly`. `IInv` adds that the session a request found is stored and
belongs to the request's user, that the rows a reset marked are its user's, and
that every token was minted for a stored session. Revocation is final because a
refresh writes the token columns only (`StepOnSession`). `ResetIsComplete` and
`RefreshOnce` need requests that do not overlap. `SInv` says then that a login still
knows the current password, that a refresh still finds its token in the row, that a
reset has marked every session of its user that is not revoked, and that a token
which was given up is in no row (`ExchangedIsGone`).

`PropertyStoreProofs` proves every safety property of `PropertyStore` for any number of
tenants, properties, places, requests and any batch size, from the assumption that
`None` is no place and no key. Uniqueness of the committed rows is not inductive: what
two transactions have written and not committed matters. `IInv` adds that what each
transaction reads (the committed rows under its own writes) has unique places
(`Distinct(Seen(...))`), that two transactions have written different rows with
different places (`Apart`), and that a transaction writes rows of its tenant only. The
lemma `DistinctCommit` is the heart: what one transaction commits keeps the picture of
every other one unique. `PutStep` gives `Apart` from the row lock and the index entry
that the statement waited for. `ChangesAreAudited` needs that a request has noted
exactly what it has written, as it is written, except for the item it works on
(`Audited`), which holds because a batch names no property twice.
`CommittedAsReported` counts: a creation's successful notes have different keys, all of
them written and none stored (`Counted`), so notes and new rows correspond one to one
(`CommitReports`), also when others commit in between, whose keys `Apart` keeps
different.

`SecondFactorProofs` proves type correctness and `OnlyTheAcceptedCodeIsDeleted`. `IInv`
says that at most one handler is between its first statement and its commit
(`OneHandler`), and that a code which a request was found to have presented is still
the stored one, or gone (`Presented`): a new one is stored only by a handler that runs
alone. `AcceptedOnce`, for any overlap of the dependencies, adds `OnceInv`: nothing
stored and nothing about to be accepted is `spent`. `VerifiedByCode` and
`LoginCodeArrives` hold of undisturbed requests. `ProvenInv` says that what the handler
has loaded is the user's row, that a stored code was sent to the channel's address or to
the one being added (`CodesReach`), and that what the handler is about to write keeps
the verified columns honest (`Honest`).

`LoginGuardProofs` proves type correctness and `CounterImpliesLock` for one process
(`OneWorker`, a hypothesis of both theorems, without which the second is false, see
section 3) and any thresholds and lifetimes. The invariant says that the row a request
has loaded is still the account's, up to a lock that counts down, and that a lock does
not run where a failure or a challenge is about to be written (`Current`).

`ConnectorLogosProofs` proves type correctness and `AliveUnique` for any number of
connectors, names, images and requests, over a storage that may be faulty.
Uniqueness needs what is inserted and not committed: a creation has its key for itself
(`Claims`), and a row that is inserted has a name that no alive row and no other
inserted row has, and no image yet (`EntriesApart`). The two file properties hold of
undisturbed requests. `CalmInv` says what the one request means to store as far as it
has got (`Fits`), that every logo is filed under its row's slug, and that a request
which is about to give up a logo has dropped the file or found another row that needs
it (`Cleared`, `Dropped`). They need no request to succeed. `LogoShown` adds `ShownInv`:
a row that is not `spoiled`, deleted or not, shows its image except between the first
file operation of a request on it and its commit (`Ready`, `Replaces`). The theorem
has no hypothesis about slugs. Deletions and purges ask who else has the file
(`ReferencedStays`), so only a stored or moved file can take another row's
(`TakesShown`), and a request that fails can only have harmed its own row besides
(`CloseShown`).

All invariants and action properties of the passing runs are thus proved. TLC
finds each of their inductive invariants to hold on its run.

Only model-checked: the liveness properties (`AnsweredUnlessLoopHangs`, `RequestsEnd`,
`LockEnds`, `RateLimitEnds`, `BlockEnds`), which rest on fairness and `ENABLED`, out of
the prover's reach; and the violations, which are counterexamples. No theorem is about
two API processes where the run has one, about what several overlapping requests do to
the catalog's rows and files beyond `AliveUnique` (there the code breaks the
properties), or about induction over data.

## 6. Not modelled, and the plan

Planned, in this order:

1. Theorems: what several processes keep of the login guard.
2. Accounts: registration, social logins and the bootstrap of the admins, which
   create users and tenants after a lookup.
3. The logo backfill, a script that is run by hand beside the API.

Left out: the display order of the catalog (a list of numbers that no check
reads), the read-only routes (lists, searches, audit queries), response
formatting, schemas and validation of payloads, the parsing of images, encryption,
mail and SMS senders, the OAuth providers, S3 and Mongo clients (I/O without
state of this system's own); subscriptions, invoices, workers and the empty
packages (no behaviour yet). Several API processes are modelled for sessions and
bindings, where nothing in memory matters; `LoginGuard`, `SecondFactor` and
`ConnectorLogos` have the one event loop of the one process that the `Dockerfile`
starts. The production checklist (`README.md`) puts a load balancer in front, so several
processes may be meant; what breaks with two is said in section 3 and in the hazards.
