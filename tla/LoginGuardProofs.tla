-------------------------- MODULE LoginGuardProofs --------------------------
(***************************************************************************)
(* Proofs about LoginGuard with one process, for every number of addresses *)
(* and every threshold, limit and lifetime.                                *)
(***************************************************************************)
EXTENDS LoginGuard, TLAPS

\* The Dockerfile starts one process.
OneWorker == \A v, w \in Workers : v = w

Writing == {"failure", "challenge", "success", "reset"}

\* The account is still as the request has loaded it, but for the time that passed:
\* a lock that did not run then does not run now.
Current(q) ==
    /\ q.pc # "idle" => q.address \in Addresses
    /\ q.pc \in Writing =>
          /\ q.loaded \in Account
          /\ q.loaded.failed = account.failed
          /\ q.pc \in {"failure", "challenge"} =>
                q.loaded.lock = account.lock /\ account.lock \in {None, 0}

\* The inductive invariant.
IInv ==
    /\ TypeOK
    /\ CounterImpliesLock
    /\ \A w \in Workers : Current(req[w])

-----------------------------------------------------------------------------
(* Numbers.                                                                *)

\* The thresholds and lifetimes are positive, and None is no number.
LEMMA Positive ==
    /\ LockThreshold \in Nat /\ LockThreshold >= 1
    /\ LockTicks \in Nat /\ LockTicks >= 1
    /\ RateLimit \in Nat /\ RateLimit >= 1
    /\ RateTicks \in Nat /\ RateTicks >= 1
    /\ BlockThreshold \in Nat /\ BlockThreshold >= 1
    /\ WindowTicks \in Nat /\ WindowTicks >= 1
    /\ BlockTicks \in Nat /\ BlockTicks >= 1
    /\ AdminTicks \in Nat /\ AdminTicks >= 1
    /\ None \notin Nat
BY GuardAssumption

\* The larger of two numbers.
LEMMA MaxOfTwo ==
    ASSUME NEW a \in Int, NEW b \in Int
    PROVE  Max({a, b}) \in {a, b} /\ Max({a, b}) >= a /\ Max({a, b}) >= b
<1>1. \E x \in {a, b} : \A y \in {a, b} : x >= y
  <2>1. CASE a >= b
    BY <2>1
  <2>2. CASE b >= a
    BY <2>2
  <2> QED BY <2>1, <2>2
<1> QED BY <1>1 DEF Max

\* The smaller of two numbers.
LEMMA MinOfTwo ==
    ASSUME NEW a \in Int, NEW b \in Int
    PROVE  Min({a, b}) \in {a, b} /\ Min({a, b}) <= a /\ Min({a, b}) <= b
<1>1. \E x \in {a, b} : \A y \in {a, b} : x <= y
  <2>1. CASE a <= b
    BY <2>1
  <2>2. CASE b <= a
    BY <2>2
  <2> QED BY <2>1, <2>2
<1> QED BY <1>1 DEF Min

-----------------------------------------------------------------------------
(* The account's row.                                                      *)

\* The commit of a request whose row is current keeps counter and lock together.
LEMMA FlushStep ==
    ASSUME IInv, NEW w \in Workers, req[w].pc \in Writing,
           NEW row, account' = Flush(req[w].loaded, row),
           \/ row = Cleared
           \/ req[w].pc = "challenge" /\ row = AfterLock(req[w].loaded)
           \/ req[w].pc = "failure" /\ row = Failed(AfterLock(req[w].loaded))
    PROVE  account' \in Account /\ CounterImpliesLock'
<1> DEFINE l == req[w].loaded
<1>1. /\ l \in Account /\ account \in Account /\ l.failed = account.failed
      /\ account.failed = LockThreshold => account.lock # None
      /\ req[w].pc \in {"failure", "challenge"} =>
            l.lock = account.lock /\ account.lock \in {None, 0}
  BY DEF IInv, TypeOK, Current, CounterImpliesLock
<1>2. /\ l.failed \in 0 .. LockThreshold /\ l.lock \in 0 .. LockTicks \cup {None}
      /\ account.failed \in 0 .. LockThreshold
      /\ account.lock \in 0 .. LockTicks \cup {None}
  BY <1>1 DEF Account
<1>3. /\ account'.failed = IF row.failed = l.failed THEN account.failed ELSE row.failed
      /\ account'.lock = IF row.lock = l.lock THEN account.lock ELSE row.lock
      /\ account' = [failed |-> account'.failed, lock |-> account'.lock]
  BY DEF Flush
<1> HIDE DEF l
<1>4. account'.failed = row.failed
  BY <1>1, <1>3
<1>5. /\ account'.failed \in 0 .. LockThreshold
      /\ account'.lock \in 0 .. LockTicks \cup {None}
      /\ account'.failed = LockThreshold => account'.lock # None
  <2>1. CASE row = Cleared
    BY <1>2, <1>3, <1>4, <2>1, Positive DEF Cleared
  <2>2. CASE req[w].pc = "challenge" /\ row = AfterLock(l)
    BY <1>1, <1>2, <1>3, <1>4, <2>2, Positive DEF AfterLock
  <2>3. CASE req[w].pc = "failure" /\ row = Failed(AfterLock(l))
    <3>1. /\ row.failed = (IF l.lock = None THEN l.failed ELSE 0) + 1
          /\ row.lock = IF row.failed >= LockThreshold THEN LockTicks ELSE None
      BY <2>3 DEF Failed, AfterLock
    <3>2. CASE l.lock = None
      BY <1>1, <1>2, <1>3, <1>4, <2>3, <3>1, <3>2, Positive
    <3>3. CASE l.lock # None
      BY <1>1, <1>2, <1>3, <1>4, <2>3, <3>1, <3>3, Positive
    <3> QED BY <3>2, <3>3
  <2> QED BY <2>1, <2>2, <2>3 DEF l
<1> QED BY <1>3, <1>5 DEF Account, CounterImpliesLock

-----------------------------------------------------------------------------
(* The steps.                                                              *)

\* The types of the countdowns.
Window   == [1 .. WindowTicks -> [Outcomes -> 0 .. BlockThreshold]]
Attempts == [Addresses -> Window]
Blocks   == [Addresses -> 0 .. Max({BlockTicks, AdminTicks})]
Key      == [count : 0 .. RateLimit + 1, ttl : 1 .. RateTicks \cup {None}]
Rates    == [Addresses -> Key]

\* What TypeOK says, by the names of the types.
LEMMA Typed ==
    TypeOK <=> /\ account \in Account /\ attempts \in Attempts /\ block \in Blocks
               /\ rate \in Rates /\ mfa \in BOOLEAN /\ req \in [Workers -> Request]
BY DEF TypeOK, Attempts, Window, Blocks, Rates, Key

\* A step of the one worker: what it leaves is typed, and current.
LEMMA WorkerStep ==
    ASSUME OneWorker, IInv, NEW w \in Workers, NEW q \in Request,
           req' = [req EXCEPT ![w] = q],
           account' \in Account, CounterImpliesLock', Current(q)',
           attempts' \in Attempts, block' \in Blocks, rate' \in Rates,
           UNCHANGED mfa
    PROVE  IInv'
<1>1. req' \in [Workers -> Request] /\ mfa' \in BOOLEAN
  BY DEF IInv, TypeOK
<1>2. \A v \in Workers : req'[v] = q
  BY DEF OneWorker, IInv, TypeOK
<1>3. \A v \in Workers : Current(req[v])'
  BY <1>2 DEF Current
<1> QED BY <1>1, <1>3 DEF IInv, TypeOK, Attempts, Window, Blocks, Rates, Key

\* The answers of a request.
Statuses == {0, 200, 202, 401, 403, 423, 429, 500}

\* A step of the worker after which it has written, or has nothing to write.
LEMMA AnswerStep ==
    ASSUME OneWorker, IInv, NEW w \in Workers, NEW status \in Statuses,
           Answer(w, status), account' \in Account, CounterImpliesLock',
           attempts' \in Attempts, block' \in Blocks, rate' \in Rates,
           UNCHANGED mfa
    PROVE  IInv'
<1>1. Idle(status) \in Request
  BY DEF Idle, Request, Statuses
<1>2. Current(Idle(status))'
  BY DEF Current, Idle, Writing
<1> QED BY <1>1, <1>2, WorkerStep DEF Answer

\* A step of the worker that goes on with the account as it is now.
LEMMA GoStep ==
    ASSUME OneWorker, IInv, NEW w \in Workers, NEW pc \in Pcs, NEW a \in Addresses,
           NEW loaded \in Account \cup {None}, Go(w, pc, a, loaded),
           pc \in Writing => loaded = account,
           pc \in {"failure", "challenge"} => ~LockRuns,
           UNCHANGED <<account, attempts, block, mfa>>,
           rate' \in Rates
    PROVE  IInv'
<1> DEFINE q == [pc |-> pc, address |-> a, loaded |-> loaded, status |-> 0]
<1>1. q \in Request
  BY DEF Request
<1>2. account \in Account /\ CounterImpliesLock
  BY DEF IInv, TypeOK
<1>3. account.lock \in 0 .. LockTicks \cup {None}
  BY <1>2 DEF Account
<1>4. ~LockRuns => account.lock \in {None, 0}
  BY <1>3, Positive DEF LockRuns
<1>5. Current(q)'
  BY <1>2, <1>4 DEF Current
<1>6. CounterImpliesLock'
  BY <1>2 DEF CounterImpliesLock
<1>7. attempts' \in Attempts /\ block' \in Blocks
  BY Typed DEF IInv
<1> QED BY <1>1, <1>2, <1>5, <1>6, <1>7, WorkerStep DEF Go

-----------------------------------------------------------------------------
(* The actions.                                                            *)

\* The longest block is one by an admin or an automatic one.
LEMMA BlockBound ==
    /\ Max({BlockTicks, AdminTicks}) \in Nat
    /\ BlockTicks \in 0 .. Max({BlockTicks, AdminTicks})
    /\ 1 .. AdminTicks \subseteq 0 .. Max({BlockTicks, AdminTicks})
BY Positive, MaxOfTwo

\* A login is counted for its address.
LEMMA StartLoginStep ==
    ASSUME OneWorker, IInv, NEW w \in Workers, NEW a \in Addresses, StartLogin(w, a)
    PROVE  IInv'
<1>1. /\ account \in Account /\ attempts \in Attempts /\ block \in Blocks /\ rate \in Rates
      /\ CounterImpliesLock /\ UNCHANGED <<account, attempts, block, mfa>>
  BY Typed DEF StartLogin, IInv
<1>2. CounterImpliesLock'
  BY <1>1 DEF CounterImpliesLock
<1>3. CASE Answer(w, 403) /\ UNCHANGED rate
  BY <1>1, <1>2, <1>3, AnswerStep DEF Statuses
<1>4. CASE rate' = [rate EXCEPT ![a].count = Counted(a)] /\ Limit(w, a)
  <2>1. Counted(a) \in 0 .. RateLimit + 1
    <3>1. rate[a].count \in 0 .. RateLimit + 1
      BY <1>1 DEF Rates, Key
    <3> DEFINE n == rate[a].count + 1
               m == RateLimit + 1
    <3>2. n \in Nat /\ m \in Nat
      BY <3>1, Positive
    <3> HIDE DEF n, m
    <3>3. Min({n, m}) \in {n, m} /\ Min({n, m}) <= m
      BY <3>2, MinOfTwo
    <3>4. Min({n, m}) \in 0 .. m
      BY <3>2, <3>3
    <3> QED BY <3>4 DEF Counted, n, m
  <2>2. rate' \in Rates
    BY <1>1, <1>4, <2>1 DEF Rates, Key
  <2>3. CASE Answer(w, 429)
    BY <1>1, <1>2, <2>2, <2>3, AnswerStep DEF Statuses
  <2>4. CASE \E pc \in {"expire", "readAccount"} : Go(w, pc, a, None)
    BY <1>1, <2>2, <2>4, GoStep DEF Pcs, Writing
  <2> QED BY <1>4, <2>3, <2>4 DEF Limit
<1> QED BY <1>3, <1>4 DEF StartLogin

\* The steps that read the account, or begin with it.
LEMMA ReadStep ==
    ASSUME OneWorker, IInv, NEW w \in Workers,
           \/ ReadAccount(w)
           \/ \E a \in Addresses : StartMfa(w, a) \/ StartUnguarded(w, a)
    PROVE  IInv'
<1>1. /\ account \in Account /\ attempts \in Attempts /\ block \in Blocks /\ rate \in Rates
      /\ CounterImpliesLock
  BY Typed DEF IInv
<1>a. ReadAccount(w) => req[w].address \in Addresses
  BY DEF IInv, Current, ReadAccount
<1>b. UNCHANGED <<account, attempts, block, rate, mfa>>
  BY DEF ReadAccount, StartMfa, StartUnguarded
<1>2. /\ CounterImpliesLock' /\ account' \in Account /\ attempts' \in Attempts
      /\ block' \in Blocks /\ rate' \in Rates
  BY <1>1, <1>b DEF CounterImpliesLock
<1>3. CASE Answer(w, 423)
  BY <1>2, <1>3, <1>b, AnswerStep DEF Statuses
<1>4. CASE \E pc \in Writing, a \in Addresses :
              /\ Go(w, pc, a, account)
              /\ ~LockRuns \/ pc \in {"success", "reset"}
  BY <1>1, <1>2, <1>4, <1>b, GoStep DEF Pcs, Writing
<1> QED BY <1>3, <1>4, <1>a DEF ReadAccount, StartMfa, StartUnguarded, Writing

\* The key of the rate limit gets its lifetime.
LEMMA SetExpiryStep ==
    ASSUME OneWorker, IInv, NEW w \in Workers, SetExpiry(w)
    PROVE  IInv'
<1>1. rate' \in Rates
  <2>1. rate \in Rates /\ RateTicks \in 1 .. RateTicks
    BY Positive, Typed DEF IInv
  <2> QED BY <2>1 DEF SetExpiry, Rates, Key
<1>2. req[w].address \in Addresses
  BY DEF IInv, Current, SetExpiry
<1> QED BY <1>1, <1>2, GoStep DEF SetExpiry, Pcs, Writing, Rates

\* A tracked attempt leaves attempts and blocks typed.
LEMMA TrackStep ==
    ASSUME IInv, NEW a \in Addresses, NEW outcome \in Outcomes, Track(a, outcome)
    PROVE  attempts' \in Attempts /\ block' \in Blocks
<1>1. block' \in Blocks
  BY BlockBound DEF Track, IInv, TypeOK, Blocks
<1>2. attempts \in Attempts
  BY Typed DEF IInv
<1> DEFINE n == attempts[a][WindowTicks][outcome]
           m == IF n = BlockThreshold THEN n ELSE n + 1
           b == [attempts[a] EXCEPT ![WindowTicks][outcome] = m]
<1>3. WindowTicks \in 1 .. WindowTicks
  BY Positive
<1>4. attempts[a] \in Window
  BY <1>2 DEF Attempts
<1>5. n \in 0 .. BlockThreshold
  BY <1>3, <1>4 DEF Window
<1>6. m \in 0 .. BlockThreshold
  BY <1>5, Positive
<1>7. attempts' = [attempts EXCEPT ![a][WindowTicks][outcome] = m]
  BY DEF Track
<1> HIDE DEF m
<1>8. b \in Window
  BY <1>3, <1>4, <1>6 DEF Window
<1>9. attempts' = [attempts EXCEPT ![a] = b]
  BY <1>7
<1> HIDE DEF b
<1> QED BY <1>1, <1>2, <1>8, <1>9 DEF Attempts

\* The steps that write, and an abort.
LEMMA CommitStep ==
    ASSUME OneWorker, IInv, NEW w \in Workers,
           \/ Fail(w) \/ Challenge(w) \/ Succeed(w) \/ Abort(w)
           \/ \E a \in Addresses : FailElsewhere(w, a) \/ FailMfaElsewhere(w, a)
    PROVE  IInv'
<1>1. /\ account \in Account /\ attempts \in Attempts /\ block \in Blocks /\ rate \in Rates
      /\ CounterImpliesLock /\ UNCHANGED mfa /\ UNCHANGED rate
  BY Typed DEF Fail, Challenge, Succeed, Abort, FailElsewhere,
                 FailMfaElsewhere, IInv
<1>2. account' \in Account /\ CounterImpliesLock'
  <2>1. CASE UNCHANGED account
    BY <1>1, <2>1 DEF CounterImpliesLock
  <2>2. CASE Fail(w) \/ Challenge(w) \/ Succeed(w)
    BY <2>2, FlushStep DEF Fail, Challenge, Succeed, Writing
  <2> QED BY <2>1, <2>2 DEF Abort, FailElsewhere, FailMfaElsewhere
<1>3. attempts' \in Attempts /\ block' \in Blocks
  <2>1. CASE UNCHANGED <<attempts, block>>
    BY <1>1, <2>1
  <2>2. CASE \E a \in Addresses, outcome \in Outcomes : Track(a, outcome)
    BY <2>2, TrackStep
  <2>3. Fail(w) \/ Challenge(w) => req[w].address \in Addresses
    BY DEF IInv, Current, Fail, Challenge
  <2> QED BY <2>1, <2>2, <2>3 
     DEF Fail, Challenge, Succeed, Abort, FailElsewhere, FailMfaElsewhere, Outcomes
<1>4. rate' \in Rates
  BY <1>1
<1>5. \E status \in {200, 202, 401, 403, 500} : Answer(w, status)
  BY DEF Fail, Challenge, Succeed, Abort, FailElsewhere, FailMfaElsewhere
<1> QED BY <1>1, <1>2, <1>3, <1>4, <1>5, AnswerStep DEF Statuses

\* Time passes: a lock runs out and stays, counters and blocks count down.
LEMMA TickStep == IInv /\ Tick => IInv'
<1> SUFFICES ASSUME IInv, Tick PROVE IInv'
  OBVIOUS
<1>1. /\ account \in Account /\ attempts \in Attempts /\ block \in Blocks /\ rate \in Rates
      /\ CounterImpliesLock /\ UNCHANGED <<mfa, req>>
      /\ req \in [Workers -> Request] /\ mfa \in BOOLEAN
  BY DEF Tick, IInv, TypeOK, Attempts, Window, Blocks, Rates, Key
<1>2. account.failed \in 0 .. LockThreshold /\ account.lock \in 0 .. LockTicks \cup {None}
  BY <1>1 DEF Account
<1>3. /\ account'.failed = account.failed
      /\ account'.lock = IF account.lock \in {None, 0} THEN account.lock ELSE account.lock - 1
      /\ account' \in Account
  <2> DEFINE lock == IF account.lock \in {None, 0} THEN account.lock ELSE account.lock - 1
  <2>1. lock \in 0 .. LockTicks \cup {None}
    BY <1>2, Positive
  <2>2. account' = [account EXCEPT !.lock = lock]
    BY DEF Tick
  <2> HIDE DEF lock
  <2>3. account'.failed = account.failed /\ account'.lock = lock /\ account' \in Account
    BY <1>1, <2>1, <2>2 DEF Account
  <2> QED BY <2>3 DEF lock
<1>4. CounterImpliesLock'
  BY <1>1, <1>2, <1>3, Positive DEF CounterImpliesLock
<1>5. \A w \in Workers : Current(req[w])'
  <2> SUFFICES ASSUME NEW w \in Workers PROVE Current(req[w])'
    OBVIOUS
  <2>1. Current(req[w])
    BY DEF IInv
  <2> QED BY <1>1, <1>3, <2>1 DEF Current
<1>6. block' \in Blocks
  <2>1. ASSUME NEW a \in Addresses
        PROVE  Max({0, block[a] - 1}) \in 0 .. Max({BlockTicks, AdminTicks})
    <3>1. block[a] \in 0 .. Max({BlockTicks, AdminTicks})
      BY <1>1 DEF Blocks
    <3> DEFINE n == block[a] - 1
               m == Max({BlockTicks, AdminTicks})
    <3>2. m \in Nat /\ n \in Int /\ n <= m
      BY <3>1, BlockBound
    <3> HIDE DEF n, m
    <3>3. Max({0, n}) \in {0, n} /\ Max({0, n}) >= 0
      <4>1. 0 \in Int
        OBVIOUS
      <4> QED BY <3>2, <4>1, MaxOfTwo
    <3>4. Max({0, n}) \in 0 .. m
      BY <3>2, <3>3
    <3> QED BY <3>4 DEF n, m
  <2>2. block' = [a \in Addresses |-> Max({0, block[a] - 1})]
    BY DEF Tick
  <2> QED BY <2>1, <2>2 DEF Blocks
<1>7. rate' \in Rates
  <2> DEFINE next(a) == CASE rate[a].ttl = None -> rate[a]
                          [] rate[a].ttl = 1    -> NoKey
                          [] OTHER              -> [rate[a] EXCEPT !.ttl = @ - 1]
  <2>1. ASSUME NEW a \in Addresses PROVE next(a) \in Key
    <3>1. rate[a] \in Key
      BY <1>1 DEF Rates
    <3>2. NoKey \in Key
      BY Positive DEF NoKey, Key
    <3>3. ASSUME rate[a].ttl # None, rate[a].ttl # 1 PROVE rate[a].ttl - 1 \in 1 .. RateTicks
      <4>1. rate[a].ttl \in 1 .. RateTicks
        BY <3>1, <3>3 DEF Key
      <4> QED BY <3>3, <4>1, Positive
    <3>4. CASE rate[a].ttl = None
      BY <3>1, <3>4, Positive
    <3>5. CASE rate[a].ttl = 1
      BY <3>2, <3>5, Positive
    <3>6. CASE rate[a].ttl # None /\ rate[a].ttl # 1
      BY <3>1, <3>3, <3>6 DEF Key
    <3> QED BY <3>4, <3>5, <3>6
  <2>2. rate' = [a \in Addresses |-> next(a)]
    BY DEF Tick
  <2> HIDE DEF next
  <2> QED BY <2>1, <2>2 DEF Rates
<1>8. attempts' \in Attempts
  <2> DEFINE next(a) == [k \in 1 .. WindowTicks |->
                            IF k = WindowTicks THEN [o \in Outcomes |-> 0]
                                               ELSE attempts[a][k + 1]]
  <2>1. ASSUME NEW a \in Addresses
        PROVE  next(a) \in Window
    <3>1. [o \in Outcomes |-> 0] \in [Outcomes -> 0 .. BlockThreshold]
      BY Positive
    <3>2. ASSUME NEW k \in 1 .. WindowTicks, k # WindowTicks
          PROVE  attempts[a][k + 1] \in [Outcomes -> 0 .. BlockThreshold]
      <4>1. k + 1 \in 1 .. WindowTicks
        BY <3>2, Positive
      <4> QED BY <1>1, <4>1 DEF Attempts, Window
    <3> QED BY <3>1, <3>2 DEF Window
  <2>2. attempts' = [a \in Addresses |-> next(a)]
    BY DEF Tick
  <2> HIDE DEF next
  <2> QED BY <2>1, <2>2 DEF Attempts
<1> QED BY <1>1, <1>3, <1>4, <1>5, <1>6, <1>7, <1>8 DEF IInv, TypeOK, Attempts, Window, Blocks, Rates, Key

\* An admin blocks an address or lifts a block.
LEMMA AdminStep ==
    ASSUME IInv, NEW a \in Addresses, AdminBlock(a) \/ AdminUnblock(a)
    PROVE  IInv'
<1>1. block \in Blocks /\ UNCHANGED <<account, attempts, rate, mfa, req>>
  BY DEF AdminBlock, AdminUnblock, IInv, TypeOK, Blocks
<1>2. block' \in Blocks
  BY <1>1, BlockBound DEF AdminBlock, AdminUnblock, Blocks
<1> QED BY <1>1, <1>2 DEF IInv, TypeOK, CounterImpliesLock, Current, Blocks

\* The invariant at the start.
LEMMA InitEstablishes == Init => IInv
<1> SUFFICES ASSUME Init PROVE IInv
  OBVIOUS
<1>1. account \in Account /\ CounterImpliesLock
  BY Positive DEF Init, Account, CounterImpliesLock
<1>2. attempts \in Attempts /\ block \in Blocks /\ rate \in Rates
  BY Positive, BlockBound DEF Init, Attempts, Window, Blocks, Rates, Key, NoKey
<1>3. req \in [Workers -> Request] /\ \A w \in Workers : Current(req[w])
  BY DEF Init, Idle, Request, Current, Writing
<1> QED BY <1>1, <1>2, <1>3 DEF IInv, TypeOK, Init, Attempts, Window, Blocks, Rates, Key

\* Every step of one process keeps the invariant.
LEMMA NextPreserves == OneWorker /\ IInv /\ [Next]_vars => IInv'
<1> SUFFICES ASSUME OneWorker, IInv, [Next]_vars PROVE IInv'
  OBVIOUS
<1>1. ASSUME NEW w \in Workers,
             \/ \E a \in Addresses : StartLogin(w, a) \/ StartMfa(w, a)
                                        \/ StartUnguarded(w, a) \/ FailElsewhere(w, a)
                                        \/ FailMfaElsewhere(w, a)
             \/ Proceed(w)
      PROVE  IInv'
  BY <1>1, StartLoginStep, ReadStep, SetExpiryStep, CommitStep DEF Proceed
<1>2. CASE UNCHANGED vars
  BY <1>2 DEF vars, IInv, TypeOK, CounterImpliesLock, Current
<1> QED BY <1>1, <1>2, TickStep, AdminStep DEF Next

\* With one process the counters, locks, windows and blocks stay within the configured
\* thresholds and lifetimes.
THEOREM TypeCorrect == OneWorker => (Spec => []TypeOK)
<1> SUFFICES ASSUME OneWorker PROVE Spec => []TypeOK
  OBVIOUS
<1>1. IInv /\ [Next]_vars => IInv'
  BY NextPreserves
<1>2. IInv => TypeOK
  BY DEF IInv
<1> QED BY <1>1, <1>2, InitEstablishes, PTL DEF Spec

\* With one process an account that has reached the threshold always has its lock,
\* running or run out: no sequence of failures, challenges, successes, resets and
\* expiries leaves the counter at the threshold without one.
THEOREM LockGoesWithCounter == OneWorker => (Spec => []CounterImpliesLock)
<1> SUFFICES ASSUME OneWorker PROVE Spec => []CounterImpliesLock
  OBVIOUS
<1>1. IInv /\ [Next]_vars => IInv'
  BY NextPreserves
<1>2. IInv => CounterImpliesLock
  BY DEF IInv
<1> QED BY <1>1, <1>2, InitEstablishes, PTL DEF Spec
=============================================================================
