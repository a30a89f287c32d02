-------------------------- MODULE CredentialsProofs --------------------------
(***************************************************************************)
(* Proofs about Credentials for every number of concurrent requests and    *)
(* every set of values.                                                    *)
(***************************************************************************)
EXTENDS Credentials, TLAPS

-----------------------------------------------------------------------------
(* Payloads and what an UPDATE writes.                                     *)

\* A payload gives a value to each field that it has.
LEMMA PayloadFields ==
    ASSUME NEW payload \in UpdatePayloads
    PROVE  /\ DOMAIN payload \subseteq Columns
           /\ \A c \in DOMAIN payload : payload[c] \in Values
BY DEF UpdatePayloads

\* Toggling sends no field, and activating again sends all.
LEMMA PayloadsOfRoutes ==
    /\ EmptyTable \in UpdatePayloads
    /\ RowColumns \subseteq UpdatePayloads
<1>1. EmptyTable \in [{} -> Values]
  BY DEF EmptyTable
<1>2. {} \in SUBSET Columns /\ Columns \in SUBSET Columns
  OBVIOUS
<1> QED BY <1>1, <1>2 DEF UpdatePayloads, RowColumns

\* The UPDATE leaves a well-typed row, in which a column has the value that was sent
\* or the one that was stored.
LEMMA FlushedColumns ==
    ASSUME TypeOK, NEW r \in Requests
    PROVE  /\ Flushed(r) \in RowColumns
           /\ \A c \in Columns : Flushed(r)[c] # columns[c] =>
                 c \in DOMAIN req[r].payload /\ Flushed(r)[c] = req[r].payload[c]
<1>1. req[r].payload \in UpdatePayloads /\ columns \in [Columns -> Values]
  BY DEF TypeOK, Request, RowColumns
<1>2. Emitted(r) \subseteq DOMAIN req[r].payload
  BY DEF Emitted
<1> QED BY <1>1, <1>2, PayloadFields DEF Flushed, RowColumns

\* A row that nobody wrote since it was loaded holds the whole payload after the UPDATE:
\* what the UPDATE does not write is what was sent.
LEMMA FlushedStoresPayload ==
    ASSUME TypeOK, NEW r \in Requests, columns = req[r].loaded,
           NEW c \in DOMAIN req[r].payload
    PROVE  Flushed(r)[c] = req[r].payload[c]
<1>1. c \in Columns
  BY PayloadFields DEF TypeOK, Request
<1>2. CASE c \in Emitted(r)
  BY <1>1, <1>2 DEF Flushed
<1>3. CASE c \notin Emitted(r)
  <2>1. req[r].payload[c] = columns[c]
    BY <1>3 DEF Emitted
  <2> QED BY <1>1, <1>3, <2>1 DEF Flushed
<1> QED BY <1>2, <1>3

-----------------------------------------------------------------------------
(* Type correctness.                                                       *)

\* A step of one request that stores well-typed columns.
LEMMA TypedStep ==
    ASSUME TypeOK, NEW r \in Requests, NEW q \in Request, req' = [req EXCEPT ![r] = q],
           columns' \in RowColumns, active' \in BOOLEAN
    PROVE  TypeOK'
BY DEF TypeOK

\* A request that has been answered is well typed.
LEMMA TypedAnswer ==
    ASSUME NEW status \in {0, 200, 201, 400, 409, 500}
    PROVE  Idle(status) \in Request
BY PayloadsOfRoutes DEF Idle, Request

\* Every statement keeps the types.
LEMMA StepTyped ==
    ASSUME TypeOK, NEW r \in Requests, Step(r)
    PROVE  TypeOK'
<1>0. columns \in RowColumns /\ active \in BOOLEAN
  BY DEF TypeOK
<1>a. ASSUME NEW status \in {0, 200, 201, 400, 409, 500}, Answer(r, status),
             columns' \in RowColumns, active' \in BOOLEAN
      PROVE  TypeOK'
  <2>1. Idle(status) \in Request /\ req' = [req EXCEPT ![r] = Idle(status)]
    BY <1>a, TypedAnswer DEF Answer
  <2> QED BY <1>a, <2>1, TypedStep
<1>b. ASSUME NEW pc \in Pcs, NEW payload \in UpdatePayloads, Load(r, pc, payload),
             UNCHANGED <<columns, active>>
      PROVE  TypeOK'
  <2> DEFINE q == [pc |-> pc, payload |-> payload, loaded |-> columns,
                   wasActive |-> active, status |-> 0]
  <2>1. q \in Request
    BY <1>0 DEF Request
  <2> QED BY <1>0, <1>b, <2>1, TypedStep DEF Load
<1>1. ASSUME NEW payload \in UpdatePayloads, StartUpdate(r, payload) PROVE TypeOK'
  BY <1>0, <1>1, <1>a, <1>b DEF StartUpdate, Pcs
<1>2. ASSUME NEW payload \in RowColumns, StartRefresh(r, payload) PROVE TypeOK'
  BY <1>0, <1>2, <1>a, <1>b, PayloadsOfRoutes DEF StartRefresh, Pcs
<1>3. CASE StartToggle(r)
  BY <1>0, <1>3, <1>a, <1>b, PayloadsOfRoutes DEF StartToggle, Pcs
<1>4. CASE WriteUpdate(r)
  <2>1. columns' \in RowColumns
    BY <1>0, <1>4, FlushedColumns DEF WriteUpdate
  <2> QED BY <1>0, <1>4, <1>a, <2>1 DEF WriteUpdate
<1>5. CASE WriteRefresh(r)
  BY <1>5, <1>a, FlushedColumns DEF WriteRefresh
<1>6. CASE WriteToggle(r)
  BY <1>0, <1>6, <1>a DEF WriteToggle
<1>7. CASE Abort(r)
  BY <1>0, <1>7, <1>a DEF Abort
<1> QED BY <1>1, <1>2, <1>3, <1>4, <1>5, <1>6, <1>7 DEF Step

\* The row and what the requests loaded and received stay well typed.
THEOREM TypeCorrect == Spec => []TypeOK
<1>1. Init => TypeOK
  BY TypedAnswer DEF Init, TypeOK
<1>2. TypeOK /\ UNCHANGED vars => TypeOK'
  BY DEF TypeOK, vars
<1>3. TypeOK /\ [Next]_vars => TypeOK'
  BY <1>2, StepTyped DEF Next
<1> QED BY <1>1, <1>3, PTL DEF Spec

-----------------------------------------------------------------------------
(* Who writes what.                                                        *)

\* A request that ends with another answer than 500 has taken its own last step.
LEMMA EndingStep ==
    ASSUME TypeOK, NEW r \in Requests, Step(r), NEW q \in Requests,
           NEW pc \in {"update", "refresh"}, Ends(q, pc)
    PROVE  /\ q = r
           /\ pc = "update" => WriteUpdate(q)
           /\ pc = "refresh" => WriteRefresh(q)
<1>1. \E row : req' = [req EXCEPT ![r] = row]
  BY DEF Step, StartUpdate, StartRefresh, StartToggle, WriteUpdate, WriteRefresh,
         WriteToggle, Abort, Load, Answer
<1>2. q = r
  BY <1>1 DEF TypeOK, Ends
<1>3. ~Abort(r)
  BY <1>2 DEF Abort, Answer, Idle, Ends, TypeOK
<1> QED BY <1>2, <1>3 DEF Step, StartUpdate, StartRefresh, StartToggle, WriteUpdate,
                          WriteRefresh, WriteToggle, Ends

\* The two handlers that write columns end with another answer than 500.
LEMMA WriterEnds ==
    ASSUME TypeOK, NEW r \in Requests, WriteUpdate(r) \/ WriteRefresh(r)
    PROVE  Ends(r, "update") \/ Ends(r, "refresh")
BY DEF TypeOK, WriteUpdate, WriteRefresh, Answer, Idle, Ends

SentFieldsOnly ==
    /\ \A c \in Columns : columns'[c] # columns[c] =>
          \E r \in Requests :
              /\ Ends(r, "update") \/ Ends(r, "refresh")
              /\ c \in DOMAIN req[r].payload /\ columns'[c] = req[r].payload[c]
    /\ active' # active => ~ \E r \in Requests : Ends(r, "update")

\* A statement writes only fields that were sent to its request.
LEMMA StepWritesSentFields ==
    ASSUME TypeOK, NEW r \in Requests, Step(r)
    PROVE  SentFieldsOnly
<1>1. \/ columns' = columns
      \/ columns' = Flushed(r) /\ (WriteUpdate(r) \/ WriteRefresh(r))
  BY DEF Step, StartUpdate, StartRefresh, StartToggle, WriteUpdate, WriteRefresh,
         WriteToggle, Abort
<1>2. \A c \in Columns : columns'[c] # columns[c] =>
          /\ Ends(r, "update") \/ Ends(r, "refresh")
          /\ c \in DOMAIN req[r].payload /\ columns'[c] = req[r].payload[c]
  BY <1>1, FlushedColumns, WriterEnds
<1>3. ASSUME NEW q \in Requests, Ends(q, "update") PROVE active' = active
  BY <1>3, EndingStep DEF WriteUpdate
<1> QED BY <1>2, <1>3 DEF SentFieldsOnly

\* A column takes a value only from the request that sent it, however stale that request's
\* row is, and an update never changes is_active (column-wise UPDATE, exclude_unset).
THEOREM OnlySentFieldsAreWritten == Spec => OnlySentFieldsChange
<1>1. TypeOK /\ [Next]_vars => [SentFieldsOnly]_vars
  BY StepWritesSentFields DEF Next
<1>2. Spec => [][SentFieldsOnly]_vars
  BY <1>1, TypeCorrect, PTL DEF Spec
<1> QED BY <1>2 DEF OnlySentFieldsChange, SentFieldsOnly

\* Activating a pair again stores every credential and setting that was sent, if nobody
\* wrote the row since the request loaded it.
THEOREM RefreshIsStored == Spec => RefreshStoresPayload
<1> DEFINE A == \A r \in Requests :
                    Ends(r, "refresh") /\ Undisturbed(r) => Stored(req[r].payload)
<1>1. ASSUME TypeOK, NEW q \in Requests, Step(q), NEW r \in Requests,
             Ends(r, "refresh"), Undisturbed(r)
      PROVE  Stored(req[r].payload)
  <2>1. columns' = Flushed(r)
    BY <1>1, EndingStep DEF WriteRefresh
  <2> QED BY <1>1, <2>1, FlushedStoresPayload DEF Stored, Undisturbed
<1>2. TypeOK /\ [Next]_vars => [A]_vars
  BY <1>1 DEF Next
<1>3. Spec => [][A]_vars
  BY <1>2, TypeCorrect, PTL DEF Spec
<1> QED BY <1>3 DEF RefreshStoresPayload

\* An update that sends a secret is committed as a whole, under the same condition:
\* the new secret is what makes the route see a change.
THEOREM RotationIsStored == Spec => SecretRotationSticks
<1> DEFINE A == \A r \in Requests :
                    Ends(r, "update") /\ Undisturbed(r)
                        /\ "api_secret" \in DOMAIN req[r].payload
                        => Stored(req[r].payload)
<1>1. ASSUME TypeOK, NEW q \in Requests, Step(q), NEW r \in Requests,
             Ends(r, "update"), Undisturbed(r), "api_secret" \in DOMAIN req[r].payload
      PROVE  Stored(req[r].payload)
  <2>1. columns' = Flushed(r)
    BY <1>1, EndingStep DEF WriteUpdate, Changed
  <2> QED BY <1>1, <2>1, FlushedStoresPayload DEF Stored, Undisturbed
<1>2. TypeOK /\ [Next]_vars => [A]_vars
  BY <1>1 DEF Next
<1>3. Spec => [][A]_vars
  BY <1>2, TypeCorrect, PTL DEF Spec
<1> QED BY <1>3 DEF SecretRotationSticks
=============================================================================
