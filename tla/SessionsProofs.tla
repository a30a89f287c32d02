--------------------------- MODULE SessionsProofs ---------------------------
(***************************************************************************)
(* Proofs about Sessions for every number of users, sessions, tokens and   *)
(* concurrent requests.                                                    *)
(***************************************************************************)
EXTENDS SerialSessions, TableLemmas

\* What a request's program point says of its record: it acts for a user, the
\* session it found is stored and that user's, and so are those it marked.
Consistent(q) ==
    /\ q \in Request
    /\ q.pc \in Pcs => q.user \in Users
    /\ q.pc \in {"rotate", "revokeRow"} =>
          /\ q.sid \in DOMAIN sessions /\ q.sid \in SessionIds
          /\ sessions[q.sid].user = q.user
    /\ q.pc = "rotate" => q.tok \in Tokens
    /\ \A s \in q.marked : s \in DOMAIN sessions /\ sessions[s].user = q.user

TablesTyped ==
    /\ passwords \in [Users -> Nat]
    /\ IsTable(sessions, SessionIds, SessionRow)
    /\ IsTable(home, Tokens, SessionIds)
    /\ exchanged \subseteq Tokens

\* Every token was minted for a session that is stored.
HomesAreStored == \A t \in DOMAIN home : home[t] \in DOMAIN sessions

\* The inductive invariant.
IInv ==
    /\ TablesTyped
    /\ req \in [Requests -> Request]
    /\ \A r \in Requests : Consistent(req[r])
    /\ HomesAreStored
    /\ SessionHoldsItsToken

-----------------------------------------------------------------------------
(* Type correctness and the invariants.                                    *)

\* The invariant at the start: there are no sessions and all requests are idle.
LEMMA InitEstablishes == Init => IInv
<1> SUFFICES ASSUME Init PROVE IInv
  OBVIOUS
<1>1. TablesTyped
  BY DEF Init, TablesTyped, EmptyTable, IsTable
<1>2. \A r \in Requests : req[r] = Idle(0) /\ Consistent(req[r])
  BY DEF Init, Idle, Consistent, Request, Pcs
<1>3. req \in [Requests -> Request]
  BY <1>2 DEF Init, Consistent
<1>4. HomesAreStored /\ SessionHoldsItsToken
  BY DEF Init, EmptyTable, HomesAreStored, SessionHoldsItsToken
<1> QED BY <1>1, <1>2, <1>3, <1>4 DEF IInv

\* A step in which one request only reads.
LEMMA ReadStep ==
    ASSUME IInv, NEW r \in Requests, NEW q, Consistent(q),
           req' = [req EXCEPT ![r] = q], UNCHANGED stored
    PROVE  IInv'
<1> USE DEF stored
<1>1. \A s \in Requests : Consistent(req'[s])
  BY DEF IInv
<1>2. req' \in [Requests -> Request]
  BY DEF IInv, Consistent
<1>3. \A s \in Requests : Consistent(req[s])'
  BY <1>1 DEF Consistent
<1> QED BY <1>2, <1>3 DEF IInv, TablesTyped, HomesAreStored, SessionHoldsItsToken

\* A step in which one request writes and is answered: sessions keep their users
\* and none is removed, so every other request stays consistent.
LEMMA WriteStep ==
    ASSUME IInv, NEW r \in Requests, NEW s \in {0, 200, 401, 404, 500}, Answer(r, s),
           TablesTyped', HomesAreStored', SessionHoldsItsToken',
           DOMAIN sessions \subseteq DOMAIN sessions',
           \A x \in DOMAIN sessions : sessions'[x].user = sessions[x].user
    PROVE  IInv'
<1>1. \A x \in Requests : Consistent(req[x])'
  <2> SUFFICES ASSUME NEW x \in Requests PROVE Consistent(req[x])'
    OBVIOUS
  <2>1. CASE x = r
    <3>1. req'[x] = Idle(s)
      BY <2>1 DEF Answer, IInv
    <3> QED BY <3>1 DEF Consistent, Idle, Request, Pcs
  <2>2. CASE x # r
    <3>1. req'[x] = req[x] /\ Consistent(req[x])
      BY <2>2 DEF Answer, IInv
    <3> QED BY <3>1 DEF Consistent
  <2> QED BY <2>1, <2>2
<1>2. req' \in [Requests -> Request]
  BY <1>1 DEF Answer, IInv, Consistent
<1> QED BY <1>1, <1>2 DEF IInv

\* A fresh token put into a session's row, new or stored.
LEMMA MintStep ==
    ASSUME IInv, NEW r \in Requests, Answer(r, 200), UNCHANGED passwords,
           exchanged' \subseteq Tokens,
           NEW s \in SessionIds, NEW t \in Fresh, NEW row \in SessionRow, row.token = t,
           s \in DOMAIN sessions => row.user = sessions[s].user,
           sessions' = Put(sessions, s, row), home' = Put(home, t, s)
    PROVE  IInv'
<1>1. t \in Tokens /\ t \notin DOMAIN home
  BY DEF Fresh
<1>2. /\ IsTable(sessions', SessionIds, SessionRow)
      /\ DOMAIN sessions' = DOMAIN sessions \cup {s}
      /\ sessions'[s] = row
      /\ \A x \in DOMAIN sessions : x # s => sessions'[x] = sessions[x]
  BY DEF IInv, TablesTyped, IsTable, Put
<1>3. /\ IsTable(home', Tokens, SessionIds)
      /\ DOMAIN home' = DOMAIN home \cup {t}
      /\ home'[t] = s
      /\ \A x \in DOMAIN home : home'[x] = home[x]
  BY <1>1 DEF IInv, TablesTyped, IsTable, Put
<1>4. TablesTyped'
  BY <1>2, <1>3 DEF IInv, TablesTyped
<1>5. HomesAreStored'
  BY <1>2, <1>3 DEF IInv, HomesAreStored
<1>6. SessionHoldsItsToken'
  BY <1>1, <1>2, <1>3 DEF IInv, SessionHoldsItsToken
<1> QED BY <1>2, <1>4, <1>5, <1>6, WriteStep

\* Rows of the same sessions, users and tokens, whatever became of the rest.
LEMMA RevokeStep ==
    ASSUME IInv, NEW r \in Requests, Answer(r, 200), passwords' \in [Users -> Nat],
           UNCHANGED <<home, exchanged>>,
           IsTable(sessions', SessionIds, SessionRow),
           DOMAIN sessions' = DOMAIN sessions,
           \A s \in DOMAIN sessions : /\ sessions'[s].user = sessions[s].user
                                      /\ sessions'[s].token = sessions[s].token
    PROVE  IInv'
<1>1. TablesTyped' /\ HomesAreStored'
  BY DEF IInv, TablesTyped, HomesAreStored
<1>2. SessionHoldsItsToken'
  BY DEF IInv, SessionHoldsItsToken
<1> QED BY <1>1, <1>2, WriteStep

\* Every action of a request preserves the invariant.
LEMMA StepPreserves ==
    ASSUME IInv, NEW r \in Requests, Step(r)
    PROVE  IInv'
<1> USE DEF Pcs
<1>0. Consistent(req[r]) /\ req[r] \in Request
  BY DEF IInv
<1>a. ASSUME NEW s \in {0, 200, 401, 404, 500}, Answer(r, s), UNCHANGED stored
      PROVE  IInv'
  <2>1. req' = [req EXCEPT ![r] = Idle(s)]
    BY <1>a DEF Answer
  <2>2. Consistent(Idle(s))
    BY DEF Idle, Consistent, Request
  <2> QED BY <1>a, <2>1, <2>2, ReadStep
<1>b. ASSUME NEW q, Consistent(q), req' = [req EXCEPT ![r] = q], UNCHANGED stored
      PROVE  IInv'
  BY <1>b, ReadStep
<1>c. ASSUME NEW s \in DOMAIN sessions
      PROVE  /\ s \in SessionIds /\ sessions[s] \in SessionRow
             /\ sessions[s].user \in Users /\ sessions[s].token \in Tokens
             /\ sessions[s].revoked \in BOOLEAN /\ sessions[s].password \in Nat
  <2>1. s \in SessionIds /\ sessions[s] \in SessionRow
    BY <1>c DEF IInv, TablesTyped, IsTable
  <2> QED BY <2>1 DEF SessionRow
<1>1. ASSUME NEW u \in Users, ReadPassword(r, u) \/ StartReset(r, u) PROVE IInv'
  <2>1. passwords[u] \in Nat
    BY DEF IInv, TablesTyped
  <2>2. CASE Answer(r, 401)
    BY <1>1, <1>a, <2>2 DEF ReadPassword, StartReset
  <2>3. CASE \E pc \in {"createSession", "markSessions"}, n \in Nat :
                req' = [req EXCEPT ![r] = Running(pc, u, None, None, n, {})]
    <3>1. PICK pc \in {"createSession", "markSessions"}, n \in Nat :
             req' = [req EXCEPT ![r] = Running(pc, u, None, None, n, {})]
      BY <2>3
    <3>2. Consistent(Running(pc, u, None, None, n, {}))
      BY DEF Running, Consistent, Request
    <3> QED BY <1>1, <1>b, <3>1, <3>2 DEF ReadPassword, StartReset
  <2> QED BY <1>1, <2>1, <2>2, <2>3 DEF ReadPassword, StartReset
<1>2. ASSUME NEW t \in DOMAIN home, ReadRefreshToken(r, t) PROVE IInv'
  <2>1. CASE Answer(r, 401)
    BY <1>2, <1>a, <2>1 DEF ReadRefreshToken
  <2>2. ASSUME NEW s \in RowsWith(t),
               req' = [req EXCEPT ![r] = Running("rotate", sessions[s].user, t, s, 0, {})]
        PROVE  IInv'
    <3>1. s \in DOMAIN sessions /\ t \in Tokens
      BY DEF RowsWith, IInv, TablesTyped, IsTable
    <3>2. s \in SessionIds /\ sessions[s].user \in Users
      BY <1>c, <3>1
    <3>3. Consistent(Running("rotate", sessions[s].user, t, s, 0, {}))
      BY <3>1, <3>2 DEF Running, Consistent, Request
    <3> QED BY <1>2, <1>b, <2>2, <3>3 DEF ReadRefreshToken
  <2> QED BY <1>2, <2>1, <2>2 DEF ReadRefreshToken
<1>3. ASSUME NEW t \in DOMAIN home, Authenticate(r, t) PROVE IInv'
  <2>1. /\ t \in Tokens /\ home[t] \in DOMAIN sessions
    BY DEF IInv, TablesTyped, IsTable, HomesAreStored
  <2>2. sessions[home[t]].user \in Users
    BY <1>c, <2>1
  <2>3. CASE \E s \in {200, 401} : Answer(r, s)
    BY <1>3, <1>a, <2>3 DEF Authenticate
  <2>4. CASE \E pc \in {"logout", "revokeById"} :
                req' = [req EXCEPT ![r] =
                    Running(pc, sessions[home[t]].user, t, None, 0, {})]
    <3>1. PICK pc \in {"logout", "revokeById"} :
             req' = [req EXCEPT ![r] =
                 Running(pc, sessions[home[t]].user, t, None, 0, {})]
      BY <2>4
    <3>2. Consistent(Running(pc, sessions[home[t]].user, t, None, 0, {}))
      BY <2>1, <2>2 DEF Running, Consistent, Request
    <3> QED BY <1>3, <1>b, <3>1, <3>2 DEF Authenticate
  <2> QED BY <1>3, <2>3, <2>4 DEF Authenticate
<1>4. ASSUME NEW s \in RowsOfUser(req[r].user),
             req[r].pc \in {"logout", "revokeById"},
             req' = [req EXCEPT ![r] =
                 Running("revokeRow", req[r].user, req[r].tok, s, 0, {})],
             UNCHANGED stored
      PROVE  IInv'
  <2>1. s \in DOMAIN sessions /\ sessions[s].user = req[r].user
    BY DEF RowsOfUser
  <2>2. s \in SessionIds /\ req[r].user \in Users /\ req[r].tok \in Tokens \cup {None}
    BY <1>0, <1>4, <1>c, <2>1 DEF Consistent, Request
  <2>3. Consistent(Running("revokeRow", req[r].user, req[r].tok, s, 0, {}))
    BY <2>1, <2>2 DEF Running, Consistent, Request
  <2> QED BY <1>4, <1>b, <2>3
<1>5. ASSUME NEW t, FindForLogout(r, t) PROVE IInv'
  <2>1. CASE Answer(r, 200)
    BY <1>5, <1>a, <2>1 DEF FindForLogout
  <2> QED BY <1>5, <1>4, <2>1 DEF FindForLogout
<1>6. ASSUME NEW s \in DOMAIN sessions, FindForRevoke(r, s) PROVE IInv'
  <2>1. CASE Answer(r, 404)
    BY <1>6, <1>a, <2>1 DEF FindForRevoke
  <2> QED BY <1>6, <1>4, <2>1 DEF FindForRevoke
<1>7. CASE CreateSession(r)
  <2>1. PICK s \in SessionIds \ DOMAIN sessions, t \in Fresh :
           /\ sessions' = Put(sessions, s, [user |-> req[r].user, token |-> t,
                              revoked |-> FALSE, password |-> req[r].known])
           /\ home' = Put(home, t, s)
    BY <1>7 DEF CreateSession
  <2> DEFINE row == [user |-> req[r].user, token |-> t,
                     revoked |-> FALSE, password |-> req[r].known]
  <2>2. t \in Tokens /\ req[r].user \in Users /\ req[r].known \in Nat
    BY <1>0, <1>7 DEF CreateSession, Consistent, Request, Fresh
  <2>3. row \in SessionRow /\ row.token = t
    BY <2>2 DEF SessionRow
  <2>4. Answer(r, 200) /\ UNCHANGED <<passwords, exchanged>> /\ exchanged' \subseteq Tokens
    BY <1>7 DEF CreateSession, IInv, TablesTyped
  <2> HIDE DEF row
  <2>5. sessions' = Put(sessions, s, row)
    BY <2>1 DEF row
  <2> QED BY <2>1, <2>3, <2>4, <2>5, MintStep
<1>8. CASE Rotate(r)
  <2> DEFINE s == req[r].sid
  <2>1. PICK t \in Fresh :
           /\ sessions' = [sessions EXCEPT ![s].token = t]
           /\ home' = Put(home, t, s)
    BY <1>8 DEF Rotate
  <2> DEFINE row == [sessions[s] EXCEPT !.token = t]
  <2>2. s \in SessionIds /\ s \in DOMAIN sessions /\ req[r].tok \in Tokens /\ t \in Tokens
    BY <1>0, <1>8 DEF Rotate, Consistent, Fresh
  <2>3. sessions[s] \in SessionRow
    BY <1>c, <2>2
  <2>4. row \in SessionRow /\ row.token = t /\ row.user = sessions[s].user
    BY <2>2, <2>3 DEF SessionRow
  <2>5. sessions' = [sessions EXCEPT ![s] = row]
    BY <2>1
  <2>6. Answer(r, 200) /\ UNCHANGED passwords /\ exchanged' \subseteq Tokens
    BY <1>8, <2>2 DEF Rotate, IInv, TablesTyped
  <2> HIDE DEF row, s
  <2>7. sessions' = Put(sessions, s, row)
    BY <2>2, <2>5 DEF IInv, TablesTyped, IsTable, Put
  <2> QED BY <2>1, <2>2, <2>4, <2>6, <2>7, MintStep
<1>9. CASE RevokeRow(r)
  <2> DEFINE s == req[r].sid
             row == [sessions[s] EXCEPT !.revoked = TRUE]
  <2>1. s \in DOMAIN sessions
    BY <1>0, <1>9 DEF RevokeRow, Consistent
  <2>2. sessions[s] \in SessionRow
    BY <1>c, <2>1
  <2>3. row \in SessionRow /\ row.user = sessions[s].user /\ row.token = sessions[s].token
    BY <2>2 DEF SessionRow
  <2>4. sessions' = [sessions EXCEPT ![s] = row]
    BY <1>9 DEF RevokeRow
  <2>5. /\ Answer(r, 200) /\ UNCHANGED <<passwords, home, exchanged>>
        /\ passwords' \in [Users -> Nat]
    BY <1>9 DEF RevokeRow, IInv, TablesTyped
  <2> HIDE DEF s, row
  <2>6. /\ IsTable(sessions', SessionIds, SessionRow)
        /\ DOMAIN sessions' = DOMAIN sessions
        /\ sessions'[s] = row
        /\ \A x \in DOMAIN sessions : x # s => sessions'[x] = sessions[x]
    BY <2>1, <2>3, <2>4 DEF IInv, TablesTyped, IsTable
  <2> QED BY <2>3, <2>5, <2>6, RevokeStep
<1>10. CASE MarkSessions(r)
  <2> DEFINE active == {s \in RowsOfUser(req[r].user) : ~sessions[s].revoked}
  <2>1. /\ \A x \in active : x \in DOMAIN sessions /\ sessions[x].user = req[r].user
        /\ req[r].user \in Users
    BY <1>0, <1>10 DEF MarkSessions, RowsOfUser, Consistent
  <2>2. active \in SUBSET SessionIds
    BY <2>1, <1>c
  <2>3. /\ req' = [req EXCEPT ![r] =
               Running("commitReset", req[r].user, None, None, 0, active)]
        /\ UNCHANGED stored
    BY <1>10 DEF MarkSessions
  <2> HIDE DEF active
  <2>4. Consistent(Running("commitReset", req[r].user, None, None, 0, active))
    BY <2>1, <2>2 DEF Running, Consistent, Request
  <2> QED BY <1>b, <2>3, <2>4
<1>11. CASE CommitReset(r)
  <2> DEFINE row(s) == [sessions[s] EXCEPT !.revoked = TRUE]
  <2>1. /\ sessions' = [s \in DOMAIN sessions |->
               IF s \in req[r].marked THEN row(s) ELSE sessions[s]]
        /\ passwords' = [passwords EXCEPT ![req[r].user] = @ + 1]
        /\ Answer(r, 200) /\ UNCHANGED <<home, exchanged>>
    BY <1>11 DEF CommitReset
  <2>2. passwords' \in [Users -> Nat]
    BY <1>0, <1>11, <2>1 DEF IInv, TablesTyped, CommitReset, Consistent
  <2>3. ASSUME NEW s \in DOMAIN sessions
        PROVE  /\ row(s) \in SessionRow /\ row(s).user = sessions[s].user
               /\ row(s).token = sessions[s].token
    <3>1. sessions[s] \in SessionRow
      BY <1>c
    <3> QED BY <3>1 DEF SessionRow
  <2> HIDE DEF row
  <2>4. /\ IsTable(sessions', SessionIds, SessionRow)
        /\ DOMAIN sessions' = DOMAIN sessions
    BY <2>1, <2>3 DEF IInv, TablesTyped, IsTable
  <2>5. \A s \in DOMAIN sessions : /\ sessions'[s].user = sessions[s].user
                                   /\ sessions'[s].token = sessions[s].token
    BY <2>1, <2>3
  <2> QED BY <2>1, <2>2, <2>4, <2>5, RevokeStep
<1>12. CASE Abort(r)
  BY <1>12, <1>a DEF Abort
<1> QED
  BY <1>1, <1>2, <1>3, <1>5, <1>6, <1>7, <1>8, <1>9, <1>10, <1>11, <1>12 DEF Step

\* The invariant holds throughout.
LEMMA Invariance == Spec => []IInv
<1>1. IInv /\ UNCHANGED vars => IInv'
  BY DEF IInv, TablesTyped, Consistent, HomesAreStored, SessionHoldsItsToken, vars
<1>2. IInv /\ [Next]_vars => IInv'
  BY <1>1, StepPreserves DEF Next
<1> QED BY InitEstablishes, <1>2, PTL DEF Spec

\* The tables and the requests stay well typed.
THEOREM TypeCorrect == Spec => []TypeOK
<1>1. IInv => TypeOK
  BY DEF IInv, TablesTyped, TypeOK
<1> QED BY Invariance, <1>1, PTL

\* However logins and refreshes interleave, a token opens the session it was
\* minted for and no other (_create_session, refresh_access_token).
THEOREM TokensAreUnique == Spec => []SessionHoldsItsToken
<1>1. IInv => SessionHoldsItsToken
  BY DEF IInv
<1> QED BY Invariance, <1>1, PTL

-----------------------------------------------------------------------------
(* What a step may do to a stored session.                                 *)

StaysRevoked(s) ==
    sessions[s].revoked => s \in DOMAIN sessions' /\ sessions'[s].revoked

ChangedByItsUser(s) ==
    sessions'[s] # sessions[s] => \E r \in Requests :
        /\ req[r].pc # "idle" /\ req'[r].pc = "idle"
        /\ req[r].user = sessions[s].user

\* A refresh writes the token columns of its own session, a revocation the
\* revoked column of its user's; nothing else writes a stored row.
LEMMA StepOnSession ==
    ASSUME IInv, NEW r \in Requests, Step(r), NEW s \in DOMAIN sessions
    PROVE  StaysRevoked(s) /\ ChangedByItsUser(s)
<1>0. Consistent(req[r])
  BY DEF IInv
<1>a. ASSUME NEW status, Answer(r, status) PROVE req'[r].pc = "idle"
  BY <1>a DEF IInv, Answer, Idle
<1>b. ASSUME UNCHANGED sessions PROVE StaysRevoked(s) /\ ChangedByItsUser(s)
  BY <1>b DEF StaysRevoked, ChangedByItsUser
<1>c. sessions[s] \in SessionRow
  BY DEF IInv, TablesTyped, IsTable
<1>1. CASE CreateSession(r)
  <2>1. \E x \in SessionIds \ DOMAIN sessions : \E row : sessions' = Put(sessions, x, row)
    BY <1>1 DEF CreateSession
  <2>2. s \in DOMAIN sessions' /\ sessions'[s] = sessions[s]
    BY <2>1 DEF Put
  <2> QED BY <2>2 DEF StaysRevoked, ChangedByItsUser
<1>2. CASE Rotate(r)
  <2> DEFINE x == req[r].sid
  <2>1. PICK t : sessions' = [sessions EXCEPT ![x].token = t]
    BY <1>2 DEF Rotate
  <2>2. x \in DOMAIN sessions /\ sessions[x].user = req[r].user
    BY <1>0, <1>2 DEF Rotate, Consistent
  <2>3. sessions = [y \in DOMAIN sessions |-> sessions[y]]
    BY DEF IInv, TablesTyped, IsTable
  <2>4. /\ s \in DOMAIN sessions' /\ sessions'[s].revoked = sessions[s].revoked
        /\ s # x => sessions'[s] = sessions[s]
    BY <1>c, <2>1, <2>3 DEF SessionRow
  <2>5. req[r].pc # "idle" /\ req'[r].pc = "idle"
    BY <1>2, <1>a DEF Rotate
  <2> QED BY <2>2, <2>4, <2>5 DEF StaysRevoked, ChangedByItsUser
<1>3. CASE RevokeRow(r)
  <2> DEFINE x == req[r].sid
  <2>1. sessions' = [sessions EXCEPT ![x].revoked = TRUE]
    BY <1>3 DEF RevokeRow
  <2>2. x \in DOMAIN sessions /\ sessions[x].user = req[r].user
    BY <1>0, <1>3 DEF RevokeRow, Consistent
  <2>3. sessions = [y \in DOMAIN sessions |-> sessions[y]]
    BY DEF IInv, TablesTyped, IsTable
  <2>4. /\ s \in DOMAIN sessions' /\ (sessions[s].revoked => sessions'[s].revoked)
        /\ s # x => sessions'[s] = sessions[s]
    BY <1>c, <2>1, <2>3 DEF SessionRow
  <2>5. req[r].pc # "idle" /\ req'[r].pc = "idle"
    BY <1>3, <1>a DEF RevokeRow
  <2> QED BY <2>2, <2>4, <2>5 DEF StaysRevoked, ChangedByItsUser
<1>4. CASE CommitReset(r)
  <2>1. /\ s \in DOMAIN sessions'
        /\ sessions'[s] = IF s \in req[r].marked THEN [sessions[s] EXCEPT !.revoked = TRUE]
                          ELSE sessions[s]
    BY <1>4 DEF CommitReset
  <2>2. sessions[s].revoked => sessions'[s].revoked
    BY <1>c, <2>1 DEF SessionRow
  <2>3. s \in req[r].marked => sessions[s].user = req[r].user
    BY <1>0 DEF Consistent
  <2>4. req[r].pc # "idle" /\ req'[r].pc = "idle"
    BY <1>4, <1>a DEF CommitReset
  <2> QED BY <2>1, <2>2, <2>3, <2>4 DEF StaysRevoked, ChangedByItsUser
<1>5. CASE \/ \E u \in Users : ReadPassword(r, u) \/ StartReset(r, u)
           \/ \E t \in DOMAIN home : ReadRefreshToken(r, t) \/ Authenticate(r, t)
           \/ \E t \in DOMAIN home \cup {None} : FindForLogout(r, t)
           \/ \E x \in DOMAIN sessions : FindForRevoke(r, x)
           \/ MarkSessions(r) \/ Abort(r)
  BY <1>5, <1>b DEF ReadPassword, StartReset, ReadRefreshToken, Authenticate, FindForLogout,
                    FindForRevoke, MarkSessions, Abort, stored
<1> QED BY <1>1, <1>2, <1>3, <1>4, <1>5 DEF Step

\* A revoked session is never revived, whatever commits after the revocation.
THEOREM RevocationStays == Spec => RevocationIsFinal
<1> DEFINE A == \A s \in DOMAIN sessions : StaysRevoked(s)
<1>1. ASSUME IInv, Next PROVE A
  BY <1>1, StepOnSession DEF Next
<1>2. IInv /\ [Next]_vars => [A]_vars
  BY <1>1
<1>3. Spec => [][A]_vars
  BY <1>2, Invariance, PTL DEF Spec
<1> QED BY <1>3 DEF RevocationIsFinal, StaysRevoked

\* Only a request of a session's own user rotates or revokes it.
THEOREM SessionsAreOwned == Spec => OwnSessionsOnly
<1> DEFINE A == \A s \in DOMAIN sessions : ChangedByItsUser(s)
<1>1. ASSUME IInv, Next PROVE A
  BY <1>1, StepOnSession DEF Next
<1>2. IInv /\ [Next]_vars => [A]_vars
  BY <1>1
<1>3. Spec => [][A]_vars
  BY <1>2, Invariance, PTL DEF Spec
<1> QED BY <1>3 DEF OwnSessionsOnly, ChangedByItsUser

-----------------------------------------------------------------------------
(* Sessions, as long as requests do not overlap.                           *)

\* What a request that runs alone has read still holds when it goes on: the
\* password, the token of the session it found, the sessions that are not revoked.
Current(q, hashes, rows) ==
    /\ q.pc = "createSession" => q.known = hashes[q.user]
    /\ q.pc = "rotate" => rows[q.sid].token = q.tok
    /\ q.pc = "commitReset" =>
          \A s \in DOMAIN rows : rows[s].user = q.user => rows[s].revoked \/ s \in q.marked

\* A token that was given up was minted before and opens no session any more.
ExchangedIsGone ==
    /\ exchanged \subseteq DOMAIN home
    /\ \A s \in DOMAIN sessions : sessions[s].token \notin exchanged

AllCurrent == \A r \in Requests : Current(req[r], passwords, sessions)

Serially == ~Overlap /\ AllCurrent /\ ResetEndsOldSessions /\ ExchangedIsGone

\* The inductive invariant of requests that do not overlap.
SInv == overlapped \/ Serially

\* A request reads, and no other is in progress when it goes on.
LEMMA SerialRead ==
    ASSUME IInv, Serially, ~Overlap', NEW r \in Requests, NEW q,
           Current(q, passwords, sessions), req' = [req EXCEPT ![r] = q],
           UNCHANGED stored
    PROVE  Serially'
<1> USE DEF stored
<1>1. \A s \in Requests : Current(req'[s], passwords, sessions)
  BY DEF IInv, Serially, AllCurrent
<1>2. AllCurrent'
  BY <1>1 DEF AllCurrent
<1>3. ResetEndsOldSessions' /\ ExchangedIsGone'
  BY DEF Serially, ResetEndsOldSessions, ExchangedIsGone
<1> QED BY <1>2, <1>3 DEF Serially

\* The only request in progress writes and is answered.
LEMMA SerialWrite ==
    ASSUME IInv, Serially, ~Overlap', NEW r \in Requests, req[r].pc # "idle",
           NEW s, Answer(r, s), ResetEndsOldSessions', ExchangedIsGone'
    PROVE  Serially'
<1>1. \A x \in Requests : x # r => req[x].pc = "idle"
  BY DEF Serially, Overlap
<1>2. \A x \in Requests : req'[x] = IF x = r THEN Idle(s) ELSE req[x]
  BY DEF IInv, Answer
<1>3. \A x \in Requests : req'[x].pc = "idle"
  BY <1>1, <1>2 DEF Idle
<1>4. AllCurrent'
  BY <1>3 DEF AllCurrent, Current
<1> QED BY <1>4 DEF Serially

\* A fresh token is put into a session's row; if the row is new, its password is its
\* user's, and if it is a stored one, the token that it held is given up.
LEMMA SerialMint ==
    ASSUME IInv, Serially, ~Overlap', NEW r \in Requests, req[r].pc # "idle",
           Answer(r, 200), NEW s, NEW t \in Fresh, NEW row, row.token = t,
           row.revoked \/ row.password = passwords[row.user],
           sessions' = Put(sessions, s, row), home' = Put(home, t, s),
           \/ s \notin DOMAIN sessions /\ UNCHANGED exchanged
           \/ s \in DOMAIN sessions /\ exchanged' = exchanged \cup {sessions[s].token},
           UNCHANGED passwords
    PROVE  Serially'
<1>1. /\ DOMAIN sessions' = DOMAIN sessions \cup {s} /\ sessions'[s] = row
      /\ \A x \in DOMAIN sessions : x # s => sessions'[x] = sessions[x]
  BY DEF Put
<1>2. DOMAIN home' = DOMAIN home \cup {t} /\ t \notin DOMAIN home
  BY DEF Put, Fresh
<1>3. ResetEndsOldSessions'
  BY <1>1 DEF Serially, ResetEndsOldSessions
<1>4. \A x \in DOMAIN sessions : /\ sessions[x].token \in DOMAIN home
                                 /\ home[sessions[x].token] = x
  BY DEF IInv, SessionHoldsItsToken
<1>5. exchanged' \subseteq DOMAIN home /\ exchanged' \subseteq DOMAIN home'
  BY <1>2, <1>4 DEF Serially, ExchangedIsGone
<1>6. ASSUME NEW x \in DOMAIN sessions' PROVE sessions'[x].token \notin exchanged'
  <2>1. CASE x = s
    BY <1>1, <1>2, <1>5, <2>1
  <2>2. CASE x # s
    <3>1. x \in DOMAIN sessions /\ sessions'[x] = sessions[x]
      BY <1>1, <2>2
    <3>2. sessions[x].token \notin exchanged
      BY <3>1 DEF Serially, ExchangedIsGone
    <3>3. s \in DOMAIN sessions => sessions[x].token # sessions[s].token
      BY <1>4, <2>2, <3>1
    <3> QED BY <3>1, <3>2, <3>3
  <2> QED BY <2>1, <2>2
<1>7. ExchangedIsGone'
  BY <1>5, <1>6 DEF ExchangedIsGone
<1> QED BY <1>3, <1>7, SerialWrite

\* A step of the only request in progress keeps the promises about resets and tokens.
LEMMA SerialStep ==
    ASSUME IInv, Serially, ~Overlap', NEW r \in Requests, Step(r)
    PROVE  Serially'
<1>0. Current(req[r], passwords, sessions) /\ Consistent(req[r]) /\ req[r] \in Request
  BY DEF IInv, Serially, AllCurrent
<1>a. ASSUME NEW s, Answer(r, s), UNCHANGED stored
      PROVE  Serially'
  <2>1. req' = [req EXCEPT ![r] = Idle(s)] /\ Current(Idle(s), passwords, sessions)
    BY <1>a DEF Answer, Idle, Current
  <2> QED BY <1>a, <2>1, SerialRead
<1>b. ASSUME NEW q, Current(q, passwords, sessions), req' = [req EXCEPT ![r] = q],
             UNCHANGED stored
      PROVE  Serially'
  BY <1>b, SerialRead
<1>c. ASSUME NEW s \in DOMAIN sessions PROVE sessions[s] \in SessionRow
  BY DEF IInv, TablesTyped, IsTable
<1>1. ASSUME NEW u \in Users, ReadPassword(r, u) \/ StartReset(r, u) PROVE Serially'
  <2>1. Current(Running("createSession", u, None, None, passwords[u], {}), passwords, sessions)
    BY DEF Current, Running
  <2>2. Current(Running("markSessions", u, None, None, 0, {}), passwords, sessions)
    BY DEF Current, Running
  <2> QED BY <1>1, <1>a, <1>b, <2>1, <2>2 DEF ReadPassword, StartReset
<1>2. ASSUME NEW t \in DOMAIN home, ReadRefreshToken(r, t) PROVE Serially'
  <2>1. ASSUME NEW s \in RowsWith(t)
        PROVE  Current(Running("rotate", sessions[s].user, t, s, 0, {}), passwords, sessions)
    BY DEF Current, Running, RowsWith
  <2> QED BY <1>2, <1>a, <1>b, <2>1 DEF ReadRefreshToken
<1>3. ASSUME NEW t \in DOMAIN home, Authenticate(r, t) PROVE Serially'
  <2>1. ASSUME NEW pc \in {"logout", "revokeById"}
        PROVE  Current(Running(pc, sessions[home[t]].user, t, None, 0, {}), passwords, sessions)
    BY DEF Current, Running
  <2> QED BY <1>3, <1>a, <1>b, <2>1 DEF Authenticate
<1>4. ASSUME NEW s
      PROVE  Current(Running("revokeRow", req[r].user, req[r].tok, s, 0, {}), passwords, sessions)
  BY DEF Current, Running
<1>5. ASSUME NEW t, FindForLogout(r, t) PROVE Serially'
  BY <1>5, <1>a, <1>b, <1>4 DEF FindForLogout
<1>6. ASSUME NEW s, FindForRevoke(r, s) PROVE Serially'
  BY <1>6, <1>a, <1>b, <1>4 DEF FindForRevoke
<1>7. CASE CreateSession(r)
  <2> DEFINE row(t) == [user |-> req[r].user, token |-> t,
                        revoked |-> FALSE, password |-> req[r].known]
  <2>1. PICK s \in SessionIds \ DOMAIN sessions, t \in Fresh :
           sessions' = Put(sessions, s, row(t)) /\ home' = Put(home, t, s)
    BY <1>7 DEF CreateSession
  <2>2. row(t).token = t /\ row(t).password = passwords[row(t).user]
    BY <1>0, <1>7 DEF CreateSession, Current
  <2>3. Answer(r, 200) /\ req[r].pc # "idle" /\ UNCHANGED <<passwords, exchanged>>
    BY <1>7 DEF CreateSession
  <2> HIDE DEF row
  <2> QED BY <2>1, <2>2, <2>3, SerialMint
<1>8. CASE Rotate(r)
  <2> DEFINE s == req[r].sid
             row(t) == [sessions[s] EXCEPT !.token = t]
  <2>1. PICK t \in Fresh : sessions' = [sessions EXCEPT ![s] = row(t)] /\ home' = Put(home, t, s)
    BY <1>8 DEF Rotate
  <2>2. s \in DOMAIN sessions /\ sessions[s] \in SessionRow /\ sessions[s].token = req[r].tok
    BY <1>0, <1>8, <1>c DEF Rotate, Consistent, Current
  <2>3. /\ row(t).token = t /\ row(t).user = sessions[s].user
        /\ row(t).revoked = sessions[s].revoked /\ row(t).password = sessions[s].password
    BY <2>2 DEF SessionRow
  <2>4. sessions[s].revoked \/ sessions[s].password = passwords[sessions[s].user]
    BY <2>2 DEF Serially, ResetEndsOldSessions
  <2>5. /\ Answer(r, 200) /\ req[r].pc # "idle" /\ UNCHANGED passwords
        /\ exchanged' = exchanged \cup {sessions[s].token}
    BY <1>8, <2>2 DEF Rotate
  <2> HIDE DEF row, s
  <2>6. sessions' = Put(sessions, s, row(t))
    BY <2>1, <2>2 DEF IInv, TablesTyped, IsTable, Put
  <2> QED BY <2>1, <2>2, <2>3, <2>4, <2>5, <2>6, SerialMint
<1>9. ASSUME req[r].pc # "idle", Answer(r, 200), UNCHANGED <<home, exchanged>>,
             DOMAIN sessions' = DOMAIN sessions,
             \A s \in DOMAIN sessions : sessions'[s].token = sessions[s].token,
             ResetEndsOldSessions'
      PROVE  Serially'
  <2>1. ExchangedIsGone'
    BY <1>9 DEF Serially, ExchangedIsGone
  <2> QED BY <1>9, <2>1, SerialWrite
<1>10. CASE RevokeRow(r)
  <2> DEFINE s == req[r].sid
             row == [sessions[s] EXCEPT !.revoked = TRUE]
  <2>1. s \in DOMAIN sessions /\ sessions[s] \in SessionRow
    BY <1>0, <1>10, <1>c DEF RevokeRow, Consistent
  <2>2. row.revoked /\ row.token = sessions[s].token
    BY <2>1 DEF SessionRow
  <2>3. /\ sessions' = [sessions EXCEPT ![s] = row] /\ UNCHANGED <<passwords, home, exchanged>>
        /\ Answer(r, 200) /\ req[r].pc # "idle"
    BY <1>10 DEF RevokeRow
  <2> HIDE DEF s, row
  <2>4. /\ DOMAIN sessions' = DOMAIN sessions /\ sessions'[s] = row
        /\ \A x \in DOMAIN sessions : x # s => sessions'[x] = sessions[x]
    BY <2>1, <2>3 DEF IInv, TablesTyped, IsTable
  <2>5. ResetEndsOldSessions'
    BY <2>2, <2>3, <2>4 DEF Serially, ResetEndsOldSessions
  <2> QED BY <1>9, <2>2, <2>3, <2>4, <2>5
<1>11. CASE MarkSessions(r)
  <2> DEFINE active == {s \in RowsOfUser(req[r].user) : ~sessions[s].revoked}
             q == Running("commitReset", req[r].user, None, None, 0, active)
  <2>1. req' = [req EXCEPT ![r] = q] /\ UNCHANGED stored
    BY <1>11 DEF MarkSessions
  <2>2. Current(q, passwords, sessions)
    BY DEF Current, Running, RowsOfUser
  <2> HIDE DEF q
  <2> QED BY <1>b, <2>1, <2>2
<1>12. CASE CommitReset(r)
  <2> DEFINE row(s) == [sessions[s] EXCEPT !.revoked = TRUE]
             u == req[r].user
  <2>1. /\ sessions' = [s \in DOMAIN sessions |->
               IF s \in req[r].marked THEN row(s) ELSE sessions[s]]
        /\ passwords' = [passwords EXCEPT ![u] = @ + 1]
        /\ Answer(r, 200) /\ UNCHANGED <<home, exchanged>> /\ req[r].pc # "idle"
    BY <1>12 DEF CommitReset
  <2>2. ASSUME NEW s \in DOMAIN sessions
        PROVE  /\ row(s).token = sessions[s].token /\ row(s).revoked
               /\ sessions[s].user = u => sessions[s].revoked \/ s \in req[r].marked
    BY <1>0, <1>12, <1>c DEF CommitReset, Current, SessionRow
  <2>3. \A v \in Users : v # u => passwords'[v] = passwords[v]
    BY <2>1 DEF IInv, TablesTyped
  <2>4. \A s \in DOMAIN sessions : sessions[s].user \in Users
    BY <1>c DEF SessionRow
  <2> HIDE DEF row, u
  <2>5. /\ DOMAIN sessions' = DOMAIN sessions
        /\ \A s \in DOMAIN sessions : sessions'[s].token = sessions[s].token
    BY <2>1, <2>2
  <2>6. ASSUME NEW s \in DOMAIN sessions
        PROVE  sessions'[s].revoked \/ sessions'[s].password = passwords'[sessions'[s].user]
    <3>1. CASE s \in req[r].marked
      BY <2>1, <2>2, <3>1
    <3>2. CASE s \notin req[r].marked
      <4>1. sessions'[s] = sessions[s]
        BY <2>1, <3>2
      <4>2. sessions[s].revoked \/ sessions[s].password = passwords[sessions[s].user]
        BY DEF Serially, ResetEndsOldSessions
      <4> QED BY <2>2, <2>3, <2>4, <3>2, <4>1, <4>2
    <3> QED BY <3>1, <3>2
  <2>7. ResetEndsOldSessions'
    BY <2>5, <2>6 DEF ResetEndsOldSessions
  <2> QED BY <1>9, <2>1, <2>5, <2>7
<1>13. CASE Abort(r)
  BY <1>13, <1>a DEF Abort
<1> QED
  BY <1>1, <1>2, <1>3, <1>5, <1>6, <1>7, <1>8, <1>10, <1>11, <1>12, <1>13 DEF Step

\* Both invariants hold throughout.
LEMMA SerialInvariance == SerialSpec => [](IInv /\ SInv)
<1>1. SerialInit => IInv /\ SInv
  <2> SUFFICES ASSUME SerialInit PROVE IInv /\ SInv
    OBVIOUS
  <2>1. Init
    BY DEF SerialInit
  <2>2. \A r \in Requests : req[r] = Idle(0)
    BY <2>1 DEF Init
  <2>3. ~Overlap /\ AllCurrent
    BY <2>2 DEF Overlap, AllCurrent, Current, Idle
  <2>4. ResetEndsOldSessions /\ ExchangedIsGone
    BY <2>1 DEF Init, EmptyTable, ResetEndsOldSessions, ExchangedIsGone
  <2> QED BY <2>1, <2>3, <2>4, InitEstablishes DEF SInv, Serially
<1>2. ASSUME IInv, SInv, SerialNext PROVE IInv' /\ SInv'
  <2>1. Next /\ overlapped' = (overlapped \/ Overlap')
    BY <1>2 DEF SerialNext
  <2>2. PICK r \in Requests : Step(r)
    BY <2>1 DEF Next
  <2>3. IInv'
    BY <1>2, <2>2, StepPreserves
  <2>4. ASSUME overlapped \/ Overlap' PROVE SInv'
    BY <2>1, <2>4 DEF SInv
  <2>5. ASSUME ~overlapped, ~Overlap' PROVE SInv'
    BY <1>2, <2>2, <2>5, SerialStep DEF SInv
  <2> QED BY <2>3, <2>4, <2>5
<1>3. ASSUME IInv, SInv, UNCHANGED svars PROVE IInv' /\ SInv'
  BY <1>3 DEF svars, vars, IInv, TablesTyped, Consistent, HomesAreStored,
              SessionHoldsItsToken, SInv, Serially, Overlap, AllCurrent,
              ResetEndsOldSessions, ExchangedIsGone
<1> QED BY <1>1, <1>2, <1>3, PTL DEF SerialSpec

\* Without overlap reset_password revokes every session that an earlier password
\* opened: none is opened between its UPDATE and its commit.
THEOREM ResetIsComplete == SerialSpec => []SerialResetEndsOldSessions
<1>1. SInv => SerialResetEndsOldSessions
  BY DEF SInv, Serially, SerialResetEndsOldSessions
<1> QED BY SerialInvariance, <1>1, PTL

\* Without overlap refresh_access_token gives a new pair for a refresh token that
\* was never exchanged before.
THEOREM RefreshOnce == SerialSpec => SerialRefreshTokenUsedOnce
<1> DEFINE A == \A r \in Requests :
                   ~overlapped' /\ req[r].pc = "rotate" /\ req'[r].status = 200
                       => req[r].tok \notin exchanged
<1>1. ASSUME IInv, SInv, SerialNext PROVE A
  <2> SUFFICES ASSUME NEW r \in Requests, ~overlapped', req[r].pc = "rotate"
               PROVE  req[r].tok \notin exchanged
    OBVIOUS
  <2>1. Serially
    BY <1>1 DEF SerialNext, SInv
  <2>2. req[r].sid \in DOMAIN sessions /\ sessions[req[r].sid].token = req[r].tok
    BY <1>1, <2>1 DEF IInv, Consistent, Serially, AllCurrent, Current
  <2> QED BY <2>1, <2>2 DEF Serially, ExchangedIsGone
<1>2. IInv /\ SInv /\ [SerialNext]_svars => [A]_svars
  BY <1>1
<1>3. SerialSpec => [][A]_svars
  BY <1>2, SerialInvariance, PTL DEF SerialSpec
<1> QED BY <1>3 DEF SerialRefreshTokenUsedOnce
=============================================================================
