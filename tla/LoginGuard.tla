----------------------------- MODULE LoginGuard -----------------------------
(***************************************************************************)
(* What stands between a login and a session: the failure counter and the  *)
(* lock of the account (users), the tracked attempts and the block of an   *)
(* address (login_attempts, ip_blocklist), and the rate limit in Redis.    *)
(* One account; every lifetime is a countdown that Tick moves on.  A login *)
(* of another account matters only to the address it comes from, where its *)
(* failures are tracked.                                                   *)
(*                                                                         *)
(* A worker is a process of the API.  It reads the account in one          *)
(* statement and writes, flushes and commits later: in one step here, as   *)
(* in Bindings, for the flush locks the account's row.  Whether a password *)
(* or a code is right is a choice of the environment.                      *)
(***************************************************************************)
EXTENDS Integers, FiniteSets, FiniteSetsExt

CONSTANTS Addresses,       \* client addresses
          Workers,         \* API processes
          LockThreshold,   \* account_lockout_threshold
          LockTicks,       \* account_lockout_minutes
          RateLimit,       \* login_rate_limit_attempts
          RateTicks,       \* login_rate_limit_window_seconds
          BlockThreshold,  \* DEFAULT_FAILURE_THRESHOLD of ip_blocking
          WindowTicks,     \* window_minutes of the tracked attempts
          BlockTicks,      \* BLOCK_DURATION_SECONDS
          AdminTicks,      \* the longest duration_seconds of IpBlockCreateRequest
          None             \* locked_until, or the lifetime of a key, is not set

ASSUME GuardAssumption ==
    /\ {LockThreshold, LockTicks, RateLimit, RateTicks, BlockThreshold,
        WindowTicks, BlockTicks, AdminTicks} \subseteq Nat \ {0}
    /\ None \notin Nat

VARIABLES
    account,    \* failed_login_attempts and the time left until locked_until
    attempts,   \* per address and time left in the window: attempts by outcome
    block,      \* per address: time left of its block; 0 without one
    rate,       \* per address: the Redis counter and its time to live
    mfa,        \* mfa_enabled of the account, which does not change here
    req         \* the request that each worker executes

vars == <<account, attempts, block, rate, mfa, req>>

NoKey == [count |-> 0, ttl |-> None]
Outcomes == {"wrong", "challenge"}

Account == [failed : 0 .. LockThreshold, lock : 0 .. LockTicks \cup {None}]

Pcs == {"expire", "readAccount", "failure", "challenge", "success", "reset"}

Request == [pc      : {"idle"} \cup Pcs,
            address : Addresses \cup {None},
            loaded  : Account \cup {None},
            status  : {0, 200, 202, 401, 403, 423, 429, 500}]

Idle(status) == [pc |-> "idle", address |-> None, loaded |-> None, status |-> status]

\* A bucket holds at most BlockThreshold attempts: more change no comparison.
TypeOK ==
    /\ account \in Account
    /\ attempts \in [Addresses -> [1 .. WindowTicks -> [Outcomes -> 0 .. BlockThreshold]]]
    /\ block \in [Addresses -> 0 .. Max({BlockTicks, AdminTicks})]
    /\ rate \in [Addresses -> [count : 0 .. RateLimit + 1, ttl : 1 .. RateTicks \cup {None}]]
    /\ mfa \in BOOLEAN
    /\ req \in [Workers -> Request]

Init ==
    /\ account = [failed |-> 0, lock |-> None]
    /\ attempts = [a \in Addresses |-> [k \in 1 .. WindowTicks |-> [o \in Outcomes |-> 0]]]
    /\ block = [a \in Addresses |-> 0]
    /\ rate = [a \in Addresses |-> NoKey]
    /\ mfa \in BOOLEAN
    /\ req = [w \in Workers |-> Idle(0)]

Answer(w, status) == req' = [req EXCEPT ![w] = Idle(status)]

Go(w, pc, a, loaded) ==
    req' = [req EXCEPT ![w] = [pc |-> pc, address |-> a, loaded |-> loaded, status |-> 0]]

LockRuns == account.lock # None /\ account.lock > 0

-----------------------------------------------------------------------------
(* A login's way to the account.                                           *)

\* The counter of the address after one more login; its exact value past the
\* limit changes nothing.
Counted(a) == Min({rate[a].count + 1, RateLimit + 1})

\* What _check_login_rate_limit does with the result of INCR.  The first INCR of
\* a key is followed by its EXPIRE.
Limit(w, a) ==
    \/ Counted(a) = 1 /\ Go(w, "expire", a, None)
    \/ Counted(a) \in 2 .. RateLimit /\ Go(w, "readAccount", a, None)
    \/ Counted(a) > RateLimit /\ Answer(w, 429)

\* Mistake: the address is not checked.
StartLoginUnchecked(w, a) ==
    /\ req[w].pc = "idle"
    /\ rate' = [rate EXCEPT ![a].count = Counted(a)]
    /\ Limit(w, a)
    /\ UNCHANGED <<account, attempts, block, mfa>>

\* Mistake: every login, refused or not, sets the lifetime of the key anew.
StartLoginSliding(w, a) ==
    /\ req[w].pc = "idle"
    /\ IF block[a] > 0
       THEN Answer(w, 403) /\ UNCHANGED rate
       ELSE /\ rate' = [rate EXCEPT ![a] = [count |-> Counted(a), ttl |-> RateTicks]]
            /\ Limit(w, a)
    /\ UNCHANGED <<account, attempts, block, mfa>>

\* ensure_ip_allowed, then INCR of the rate limit's key.
StartLogin(w, a) ==
    /\ req[w].pc = "idle"
    /\ IF block[a] > 0
       THEN Answer(w, 403) /\ UNCHANGED rate
       ELSE rate' = [rate EXCEPT ![a].count = Counted(a)] /\ Limit(w, a)
    /\ UNCHANGED <<account, attempts, block, mfa>>

SetExpiry(w) ==
    /\ req[w].pc = "expire"
    /\ rate' = [rate EXCEPT ![req[w].address].ttl = RateTicks]
    /\ Go(w, "readAccount", req[w].address, None)
    /\ UNCHANGED <<account, attempts, block, mfa>>

\* Mistake: an attempt at a locked account starts its lock anew.
ReadAccountProlonging(w) ==
    /\ req[w].pc = "readAccount"
    /\ \/ LockRuns /\ account' = [account EXCEPT !.lock = LockTicks] /\ Answer(w, 423)
       \/ /\ ~LockRuns
          /\ UNCHANGED account
          /\ \E pc \in {"failure", IF mfa THEN "challenge" ELSE "success"} :
                Go(w, pc, req[w].address, account)
    /\ UNCHANGED <<attempts, block, rate, mfa>>

\* _assert_not_locked, and the password.
ReadAccount(w) ==
    /\ req[w].pc = "readAccount"
    /\ \/ LockRuns /\ Answer(w, 423)
       \/ ~LockRuns /\ Go(w, "failure", req[w].address, account)
       \/ ~LockRuns /\ Go(w, IF mfa THEN "challenge" ELSE "success", req[w].address, account)
    /\ UNCHANGED <<account, attempts, block, rate, mfa>>

\* The second factor: verify_mfa_login checks the lock, but neither the address
\* nor the rate.
StartMfa(w, a) ==
    /\ req[w].pc = "idle"
    /\ mfa
    /\ \/ LockRuns /\ Answer(w, 423)
       \/ ~LockRuns /\ \E pc \in {"failure", "success"} : Go(w, pc, a, account)
    /\ UNCHANGED <<account, attempts, block, rate, mfa>>

\* A social login and a password reset take no notice of a lock.
StartUnguarded(w, a) ==
    /\ req[w].pc = "idle"
    /\ \E pc \in {"success", "reset"} : Go(w, pc, a, account)
    /\ UNCHANGED <<account, attempts, block, rate, mfa>>

-----------------------------------------------------------------------------
(* What a request writes.                                                  *)

\* Mistake: only the lock is cleared when it has expired.
AfterLockCounting(row) == [failed |-> row.failed, lock |-> None]

\* _assert_not_locked clears the lock that has expired, and the counter with it.
AfterLock(row) ==
    [failed |-> IF row.lock = None THEN row.failed ELSE 0, lock |-> None]

\* Mistake: the account locks when the threshold is exceeded.
FailedLate(row) ==
    [failed |-> row.failed + 1,
     lock   |-> IF row.failed >= LockThreshold THEN LockTicks ELSE None]

\* _register_failure_and_maybe_lock
Failed(row) ==
    [failed |-> row.failed + 1,
     lock   |-> IF row.failed + 1 >= LockThreshold THEN LockTicks ELSE None]

Cleared == [failed |-> 0, lock |-> None]

\* The UPDATE sets the columns that differ from the loaded ones.
Flush(loaded, object) ==
    [failed |-> IF object.failed = loaded.failed THEN account.failed ELSE object.failed,
     lock   |-> IF object.lock = loaded.lock THEN account.lock ELSE object.lock]

Unsuccessful(a) ==
    MapThenSumSet(LAMBDA k : attempts[a][k]["wrong"] + attempts[a][k]["challenge"],
                  1 .. WindowTicks)

\* An attempt enters the window and, if it is one too many, blocks the address.
Track(a, outcome) ==
    /\ attempts' = [attempts EXCEPT ![a][WindowTicks][outcome] =
                       IF @ = BlockThreshold THEN @ ELSE @ + 1]
    /\ block' = IF Unsuccessful(a) + 1 >= BlockThreshold
                THEN [block EXCEPT ![a] = BlockTicks] ELSE block

\* A login of another account, or of none, that is answered with a challenge or
\* fails.  The address is checked, and the rate limit is that account's own.
FailElsewhere(w, a) ==
    /\ req[w].pc = "idle"
    /\ block[a] = 0
    /\ \/ Track(a, "challenge") /\ Answer(w, 202)
       \/ Track(a, "wrong") /\ Answer(w, 401)
    /\ UNCHANGED <<account, rate, mfa>>

\* A wrong code for the second factor of another account: verify_mfa_login does not
\* check the address, and its failure is tracked there and may block it again.
FailMfaElsewhere(w, a) ==
    /\ req[w].pc = "idle"
    /\ Track(a, "wrong")
    /\ Answer(w, 401)
    /\ UNCHANGED <<account, rate, mfa>>

Fail(w) ==
    /\ req[w].pc = "failure"
    /\ account' = Flush(req[w].loaded, Failed(AfterLock(req[w].loaded)))
    /\ Track(req[w].address, "wrong")
    /\ Answer(w, 401)
    /\ UNCHANGED <<rate, mfa>>

\* The challenge of the second factor is tracked as an unsuccessful attempt.
Challenge(w) ==
    /\ req[w].pc = "challenge"
    /\ account' = Flush(req[w].loaded, AfterLock(req[w].loaded))
    /\ Track(req[w].address, "challenge")
    /\ Answer(w, 202)
    /\ UNCHANGED <<rate, mfa>>

Succeed(w) ==
    /\ req[w].pc \in {"success", "reset"}
    /\ account' = Flush(req[w].loaded, Cleared)
    /\ Answer(w, 200)
    /\ UNCHANGED <<attempts, block, rate, mfa>>

-----------------------------------------------------------------------------

\* An admin blocks an address for as long as the request says, or lifts a block.
AdminBlock(a) ==
    /\ \E duration \in 1 .. AdminTicks : block' = [block EXCEPT ![a] = duration]
    /\ UNCHANGED <<account, attempts, rate, mfa, req>>

AdminUnblock(a) ==
    /\ block[a] > 0
    /\ block' = [block EXCEPT ![a] = 0]
    /\ UNCHANGED <<account, attempts, rate, mfa, req>>

\* Redis or the database fails, the process dies, or the user may not log in here.
\* INCR and EXPIRE are two commands: between them the key stays without a lifetime.
Abort(w) ==
    /\ req[w].pc # "idle"
    /\ \E status \in {403, 500} : Answer(w, status)
    /\ UNCHANGED <<account, attempts, block, rate, mfa>>

Tick ==
    /\ account' = [account EXCEPT !.lock = IF @ \in {None, 0} THEN @ ELSE @ - 1]
    /\ attempts' = [a \in Addresses |-> [k \in 1 .. WindowTicks |->
           IF k = WindowTicks THEN [o \in Outcomes |-> 0] ELSE attempts[a][k + 1]]]
    /\ block' = [a \in Addresses |-> Max({0, block[a] - 1})]
    /\ rate' = [a \in Addresses |->
           CASE rate[a].ttl = None -> rate[a]
             [] rate[a].ttl = 1    -> NoKey
             [] OTHER              -> [rate[a] EXCEPT !.ttl = @ - 1]]
    /\ UNCHANGED <<mfa, req>>

Proceed(w) ==
    \/ SetExpiry(w)
    \/ ReadAccount(w)
    \/ Fail(w)
    \/ Challenge(w)
    \/ Succeed(w)
    \/ Abort(w)

Next ==
    \/ \E w \in Workers :
          \/ \E a \in Addresses : StartLogin(w, a) \/ StartMfa(w, a)
                                     \/ StartUnguarded(w, a)
                                     \/ FailElsewhere(w, a) \/ FailMfaElsewhere(w, a)
          \/ Proceed(w)
    \/ \E a \in Addresses : AdminBlock(a) \/ AdminUnblock(a)
    \/ Tick

\* Time passes, and a worker goes on with the request that it has begun.
Fairness == WF_vars(Tick) /\ \A w \in Workers : WF_vars(Proceed(w))

Spec == Init /\ [][Next]_vars /\ Fairness

-----------------------------------------------------------------------------

\* An account whose failures have reached the threshold is locked or was: no
\* sequence of failures, expiries, challenges and successes of one process
\* loses the lock and keeps the counter, which would lock out the account at its
\* next mistake.
CounterImpliesLock ==
    account.failed = LockThreshold => account.lock # None

\* "Account temporarily locked": a lock ends, however often logins are tried.
LockEnds == LockRuns ~> ~LockRuns

\* "Too many login attempts. Please retry later.": a rate limit that refuses logins
\* and whose key has got its lifetime ends, however often logins are tried meanwhile.
\* A key whose EXPIRE failed has none, and the code never gives it one (Abort).
RateLimitEnds ==
    \A a \in Addresses :
        rate[a].count > RateLimit /\ rate[a].ttl # None ~> rate[a].count = 0

\* "Your IP address has been temporarily blocked": a block ends, though every failure
\* that is tracked prolongs it, unless admins block the address again and again or
\* second factors, which no block refuses, are tried from it again and again.
BlockEnds ==
    \A a \in Addresses :
        \/ []<><<AdminBlock(a)>>_vars
        \/ []<><<\E w \in Workers : StartMfa(w, a) \/ FailMfaElsewhere(w, a)>>_vars
        \/ block[a] > 0 ~> block[a] = 0

\* ip_blocking: "subsequent authentication attempts from that IP are rejected with
\* HTTP 403 until expires_at passes": no login, by password, code or social
\* account, starts at a blocked address.
BlockRefusesLogins ==
    [][\A w \in Workers :
          req[w].pc = "idle" /\ req'[w].pc \in Pcs \ {"reset"} =>
              block[req'[w].address] = 0]_vars
=============================================================================
