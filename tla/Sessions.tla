------------------------------ MODULE Sessions ------------------------------
(***************************************************************************)
(* Login sessions (table login_sessions) and the tokens that refer to      *)
(* them: login, refresh, logout, revocation, password reset, and the check *)
(* that get_current_user makes of every access token.                      *)
(*                                                                         *)
(* A refresh token and the jti of an access token are always minted        *)
(* together, so one value of Tokens stands for the pair.  The service      *)
(* functions do not await, so one process runs each of them in one go; two *)
(* processes of the API interleave between any two statements.  The        *)
(* dependency get_current_user runs in a thread before the handler, and    *)
(* interleaves with everything even in one process.  Each handler's writes *)
(* and its commit are one step, as in Bindings.                            *)
(*                                                                         *)
(* Lifetimes of tokens are not modelled: every token here is still within  *)
(* its lifetime.  Users are active: no handler ever deactivates one.       *)
(***************************************************************************)
EXTENDS Naturals, Tables

CONSTANTS Users,        \* users.id
          SessionIds,   \* login_sessions.id, a bound on the sessions created
          Tokens,       \* refresh token and jti pairs, a bound on those minted
          MaxResets,    \* bound on the password resets of a user
          Requests,     \* requests in progress at the same time
          None          \* the value of an unused field

ASSUME MaxResetsAssumption == MaxResets \in Nat

VARIABLES
    passwords,  \* password_hash of each user, as the number of resets so far
    sessions,   \* login_sessions: the committed rows
    home,       \* the session for which each token was minted
    exchanged,  \* refresh tokens given up for a new pair
    req         \* the request that each thread or process executes

vars == <<passwords, sessions, home, exchanged, req>>

\* password is the one that the login which created the session verified; the
\* table does not store it.
SessionRow == [user : Users, token : Tokens, revoked : BOOLEAN, password : Nat]

Pcs == {"createSession", "rotate", "logout", "revokeById", "revokeRow",
        "markSessions", "commitReset"}

Request == [pc     : {"idle"} \cup Pcs,
            user   : Users \cup {None},
            tok    : Tokens \cup {None},
            sid    : SessionIds \cup {None},
            known  : Nat,
            marked : SUBSET SessionIds,
            status : {0, 200, 401, 404, 500}]

Idle(status) == [pc |-> "idle", user |-> None, tok |-> None, sid |-> None,
                 known |-> 0, marked |-> {}, status |-> status]

Running(pc, u, tok, s, known, marked) ==
    [pc |-> pc, user |-> u, tok |-> tok, sid |-> s,
     known |-> known, marked |-> marked, status |-> 0]

TypeOK ==
    /\ passwords \in [Users -> Nat]
    /\ IsTable(sessions, SessionIds, SessionRow)
    /\ IsTable(home, Tokens, SessionIds)
    /\ exchanged \subseteq Tokens
    /\ req \in [Requests -> Request]

Init ==
    /\ passwords = [u \in Users |-> 0]
    /\ sessions = EmptyTable
    /\ home = EmptyTable
    /\ exchanged = {}
    /\ req = [r \in Requests |-> Idle(0)]

Answer(r, status) == req' = [req EXCEPT ![r] = Idle(status)]

stored == <<passwords, sessions, home, exchanged>>

\* Mistake: a token value is derived from the login and may come again.
FreshRepeated == Tokens

\* new_jti and new_refresh_token never repeat a value.
Fresh == Tokens \ DOMAIN home

\* The rows that a reset updated stay locked until it commits; another UPDATE of
\* such a row waits.
Unlocked(s) == \A r \in Requests : s \notin req[r].marked

-----------------------------------------------------------------------------
(* Login.                                                                  *)

\* login_with_password reads the user's row and verifies the password.  Logins
\* with a second factor or a social account are not modelled.
ReadPassword(r, u) ==
    /\ req[r].pc = "idle"
    /\ \/ req' = [req EXCEPT ![r] =
              Running("createSession", u, None, None, passwords[u], {})]
       \/ Answer(r, 401)
    /\ UNCHANGED stored

\* Mistake: the row is stored before its tokens are minted.
CreateSessionBare(r) ==
    /\ req[r].pc = "createSession"
    /\ \E s \in SessionIds \ DOMAIN sessions :
          sessions' = Put(sessions, s, [user |-> req[r].user, token |-> None,
                          revoked |-> FALSE, password |-> req[r].known])
    /\ Answer(r, 200)
    /\ UNCHANGED <<passwords, home, exchanged>>

CreateSession(r) ==
    /\ req[r].pc = "createSession"
    /\ \E s \in SessionIds \ DOMAIN sessions, t \in Fresh :
          /\ sessions' = Put(sessions, s, [user |-> req[r].user, token |-> t,
                             revoked |-> FALSE, password |-> req[r].known])
          /\ home' = Put(home, t, s)
    /\ Answer(r, 200)
    /\ UNCHANGED <<passwords, exchanged>>

-----------------------------------------------------------------------------
(* Refresh.                                                                *)

\* Mistake: the hashes of earlier rotations are kept and still match.
RowsWithHistory(t) == {s \in DOMAIN sessions : t \in DOMAIN home /\ home[t] = s}

\* jti and refresh_token_hash are those of the last rotation only.
RowsWith(t) == {s \in DOMAIN sessions : sessions[s].token = t}

ReadRefreshToken(r, t) ==
    /\ req[r].pc = "idle"
    /\ \/ /\ \A s \in RowsWith(t) : sessions[s].revoked
          /\ Answer(r, 401)
       \/ \E s \in RowsWith(t) :
             /\ ~sessions[s].revoked
             /\ req' = [req EXCEPT ![r] =
                    Running("rotate", sessions[s].user, t, s, 0, {})]
    /\ UNCHANGED stored

\* Mistake: the UPDATE writes the whole row as it was loaded.
RotateWholeRow(r) ==
    /\ req[r].pc = "rotate"
    /\ Unlocked(req[r].sid)
    /\ \E t \in Fresh :
          /\ sessions' = [sessions EXCEPT ![req[r].sid].token = t,
                                          ![req[r].sid].revoked = FALSE]
          /\ home' = Put(home, t, req[r].sid)
    /\ exchanged' = exchanged \cup {req[r].tok}
    /\ Answer(r, 200)
    /\ UNCHANGED passwords

\* The UPDATE sets the token columns and not revoked, which the handler leaves
\* as it loaded it.
Rotate(r) ==
    /\ req[r].pc = "rotate"
    /\ Unlocked(req[r].sid)
    /\ \E t \in Fresh :
          /\ sessions' = [sessions EXCEPT ![req[r].sid].token = t]
          /\ home' = Put(home, t, req[r].sid)
    /\ exchanged' = exchanged \cup {req[r].tok}
    /\ Answer(r, 200)
    /\ UNCHANGED passwords

-----------------------------------------------------------------------------
(* Requests with an access token.                                          *)

\* get_current_user: the token's signature names the user, and the token is
\* refused when the session that has its jti is revoked.
Accepts(t) == \A s \in RowsWith(t) : ~sessions[s].revoked

\* Any endpoint that only reads ends here; logout and revoke go on.
Authenticate(r, t) ==
    /\ req[r].pc = "idle"
    /\ IF Accepts(t)
       THEN \/ Answer(r, 200)
            \/ \E pc \in {"logout", "revokeById"} :
                  req' = [req EXCEPT ![r] =
                      Running(pc, sessions[home[t]].user, t, None, 0, {})]
       ELSE Answer(r, 401)
    /\ UNCHANGED stored

RowsOfUser(u) == {s \in DOMAIN sessions : sessions[s].user = u}

\* logout finds the session by jti, and otherwise by the refresh token if the
\* client sent one; it is content to find neither.
FindForLogout(r, refresh) ==
    /\ req[r].pc = "logout"
    /\ LET byJti     == RowsWith(req[r].tok) \cap RowsOfUser(req[r].user)
           byRefresh == RowsWith(refresh) \cap RowsOfUser(req[r].user)
           found     == IF byJti # {} THEN byJti ELSE byRefresh
       IN  \/ found = {} /\ Answer(r, 200)
           \/ \E s \in found :
                 req' = [req EXCEPT ![r] =
                     Running("revokeRow", req[r].user, req[r].tok, s, 0, {})]
    /\ UNCHANGED stored

\* Mistake: the session is looked up by its id alone.
FindForRevokeAnyUser(r, s) ==
    /\ req[r].pc = "revokeById"
    /\ req' = [req EXCEPT ![r] =
           Running("revokeRow", req[r].user, req[r].tok, s, 0, {})]
    /\ UNCHANGED stored

FindForRevoke(r, s) ==
    /\ req[r].pc = "revokeById"
    /\ IF s \in RowsOfUser(req[r].user)
       THEN req' = [req EXCEPT ![r] =
                Running("revokeRow", req[r].user, req[r].tok, s, 0, {})]
       ELSE Answer(r, 404)
    /\ UNCHANGED stored

RevokeRow(r) ==
    /\ req[r].pc = "revokeRow"
    /\ Unlocked(req[r].sid)
    /\ sessions' = [sessions EXCEPT ![req[r].sid].revoked = TRUE]
    /\ Answer(r, 200)
    /\ UNCHANGED <<passwords, home, exchanged>>

-----------------------------------------------------------------------------
(* Password reset, once its token was consumed (SecondFactor).             *)

StartReset(r, u) ==
    /\ req[r].pc = "idle"
    /\ passwords[u] < MaxResets
    /\ req' = [req EXCEPT ![r] = Running("markSessions", u, None, None, 0, {})]
    /\ UNCHANGED stored

\* Mistake: the password changes and the sessions stay.
MarkSessionsNone(r) ==
    /\ req[r].pc = "markSessions"
    /\ req' = [req EXCEPT ![r].pc = "commitReset"]
    /\ UNCHANGED stored

\* The bulk UPDATE runs at once and changes the rows it sees at that moment.
MarkSessions(r) ==
    /\ req[r].pc = "markSessions"
    /\ LET active == {s \in RowsOfUser(req[r].user) : ~sessions[s].revoked}
       IN  /\ \A s \in active : Unlocked(s)
           /\ req' = [req EXCEPT ![r] =
                  Running("commitReset", req[r].user, None, None, 0, active)]
    /\ UNCHANGED stored

\* The commit flushes the new hash and makes both visible.
CommitReset(r) ==
    /\ req[r].pc = "commitReset"
    /\ sessions' = [s \in DOMAIN sessions |->
           IF s \in req[r].marked THEN [sessions[s] EXCEPT !.revoked = TRUE]
           ELSE sessions[s]]
    /\ passwords' = [passwords EXCEPT ![req[r].user] = @ + 1]
    /\ Answer(r, 200)
    /\ UNCHANGED <<home, exchanged>>

-----------------------------------------------------------------------------

\* The process dies, or the database refuses the commit.
Abort(r) ==
    /\ req[r].pc # "idle"
    /\ Answer(r, 500)
    /\ UNCHANGED stored

Step(r) ==
    \/ \E u \in Users : ReadPassword(r, u) \/ StartReset(r, u)
    \/ \E t \in DOMAIN home : ReadRefreshToken(r, t) \/ Authenticate(r, t)
    \/ \E t \in DOMAIN home \cup {None} : FindForLogout(r, t)
    \/ \E s \in DOMAIN sessions : FindForRevoke(r, s)
    \/ CreateSession(r)
    \/ Rotate(r)
    \/ RevokeRow(r)
    \/ MarkSessions(r)
    \/ CommitReset(r)
    \/ Abort(r)

Next == \E r \in Requests : Step(r)

Spec == Init /\ [][Next]_vars

-----------------------------------------------------------------------------
(* Properties that hold for every number of concurrent requests.           *)

\* A session's row holds a token that was minted for that session, so one token
\* never opens two sessions.
SessionHoldsItsToken ==
    \A s \in DOMAIN sessions :
        sessions[s].token \in DOMAIN home /\ home[sessions[s].token] = s

\* Once revoked, a session stays revoked, also when a refresh that read it
\* before commits after.
RevocationIsFinal ==
    [][\A s \in DOMAIN sessions :
          sessions[s].revoked => s \in DOMAIN sessions' /\ sessions'[s].revoked]_vars

\* Only a request that acts for a session's user rotates or revokes it.
OwnSessionsOnly ==
    [][\A s \in DOMAIN sessions :
          sessions'[s] # sessions[s] => \E r \in Requests :
              /\ req[r].pc # "idle" /\ req'[r].pc = "idle"
              /\ req[r].user = sessions[s].user]_vars

(* Properties of requests that do not overlap, and what the documentation   *)
(* promises of all requests.                                               *)

\* reset_password: "Revoke all active sessions for the user": no session that
\* was opened with an earlier password is still good.
ResetEndsOldSessions ==
    \A s \in DOMAIN sessions :
        sessions[s].revoked \/ sessions[s].password = passwords[sessions[s].user]

\* get_current_user: "If the session tied to this jti has been revoked, reject
\* the token."
RevokedSessionRefused ==
    [][\A r \in Requests, t \in DOMAIN home :
          Authenticate(r, t) /\ req'[r].status # 401
              => ~sessions[home[t]].revoked]_vars
=============================================================================
