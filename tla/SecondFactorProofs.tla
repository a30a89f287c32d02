------------------------- MODULE SecondFactorProofs -------------------------
(***************************************************************************)
(* Proofs about SecondFactor for every number of concurrent requests,      *)
(* addresses, codes, links and secrets.                                    *)
(***************************************************************************)
EXTENDS SecondFactorHistory, TLAPS

Ending(q) == q.pc \in {"delete", "commit"}

\* What a request's record holds at each program point.
Consistent(q) ==
    /\ q \in Request
    /\ Ending(q) \/ (q.pc = "handle" /\ q.kind \in Known) => q.object \in User
    /\ q.pc # "idle" /\ q.kind = "verify" => q.channel \in Channels
    /\ q.pc # "idle" /\ q.kind = "add" => \/ q.channel = "email" /\ q.to \in Emails
                                          \/ q.channel = "phone" /\ q.to \in Phones

\* The event loop has begun at most one handler.
OneHandler == \A q, r \in Requests : Ending(req[q]) /\ Ending(req[r]) => q = r

PurposeOf(q) == IF q.kind = "verify" THEN q.channel ELSE "login"

\* A code stays what a request has found it to be, until it is gone.
Presented(q, stored) ==
    (q.pc = "delete" /\ q.kind \in {"verify", "verifyLogin"})
        => stored[PurposeOf(q)] \in {q.input, None}

\* The inductive invariant.
IInv ==
    /\ TypeOK
    /\ \A r \in Requests : Consistent(req[r]) /\ Presented(req[r], codes)
    /\ OneHandler

-----------------------------------------------------------------------------
(* The user's row.                                                         *)

\* The columns of the row, by name.
LEMMA ColumnsAre ==
    Columns = {"mfa_email", "mfa_phone", "mfa_email_verified", "mfa_phone_verified",
               "mfa_enabled", "totp_secret", "totp_verified", "email_verified"}
<1> DEFINE blank == [mfa_email |-> None, mfa_phone |-> None, mfa_email_verified |-> FALSE,
               mfa_phone_verified |-> FALSE, mfa_enabled |-> FALSE,
               totp_secret |-> None, totp_verified |-> FALSE, email_verified |-> FALSE]
<1>1. blank \in User
  BY DEF User
<1> HIDE DEF blank
<1>2. (CHOOSE u \in User : TRUE) \in User
  BY <1>1
<1>3. \A u \in User : DOMAIN u = {"mfa_email", "mfa_phone", "mfa_email_verified",
               "mfa_phone_verified", "mfa_enabled", "totp_secret", "totp_verified",
               "email_verified"}
  BY DEF User
<1> QED BY <1>2, <1>3 DEF Columns

\* A new address of a channel leaves a row of the table.
LEMMA AddressIsTyped ==
    ASSUME NEW u \in User, NEW ch, NEW to,
           \/ ch = "email" /\ to \in Emails
           \/ ch = "phone" /\ to \in Phones
    PROVE  WithAddress(u, ch, to) \in User
<1>1. CASE ch = "email" /\ to \in Emails
  BY <1>1 DEF WithAddress, AddressOf, VerifiedOf, User
<1>2. CASE ch = "phone" /\ to \in Phones
  BY <1>2 DEF WithAddress, AddressOf, VerifiedOf, User
<1> QED BY <1>1, <1>2

\* What the UPDATE of a commit leaves is a row of the table.
LEMMA FlushIsTyped ==
    ASSUME user \in User, NEW r, req[r].object \in User
    PROVE  Flushed(r) \in User
BY ColumnsAre DEF Flushed, User

\* Where a login code goes is a set of addresses.
LEMMA RecipientsAreTyped ==
    ASSUME NEW u \in User
    PROVE  Recipients(u) \subseteq Addresses
<1>1. \A ch \in Channels : u[AddressOf(ch)] # None => u[AddressOf(ch)] \in Emails \cup Phones
  BY DEF User, AddressOf, Channels
<1> QED BY <1>1 DEF Recipients, Addresses

-----------------------------------------------------------------------------
(* Redis.                                                                  *)

RedisTyped ==
    /\ codes \in [Purposes -> Codes \cup {None}]
    /\ sent \in [Purposes -> SUBSET Addresses]
    /\ links \in [Links -> LinkUses \cup {None}]

\* A code is dropped, or a link is: no code comes to be.
LEMMA DropStep ==
    ASSUME RedisTyped, NEW p \in Purposes, NEW l \in Links, DropCode(p) \/ DropLink(l)
    PROVE  RedisTyped' /\ \A x \in Purposes : codes'[x] \in {codes[x], None}
BY DEF RedisTyped, DropCode, DropLink

\* A new code is stored for one purpose: the others stay, and no code goes.
LEMMA IssueCodeStep ==
    ASSUME RedisTyped, NEW p \in Purposes, NEW to \in SUBSET Addresses, IssueCode(p, to)
    PROVE  RedisTyped' /\ \A x \in Purposes : codes'[x] = None => codes[x] = None
<1>1. AnyOf(FreshCodes) \in Codes
  BY DEF IssueCode, AnyOf, FreshCodes
<1>2. AnyOf(FreshCodes) # None
  BY <1>1, FactorConstants
<1> QED BY <1>1, <1>2 DEF RedisTyped, IssueCode

\* A new link is stored: the codes stay.
LEMMA IssueLinkStep ==
    ASSUME RedisTyped, NEW use \in LinkUses, IssueLink(use)
    PROVE  RedisTyped' /\ UNCHANGED codes
<1>1. AnyOf(FreshLinks) \in Links
  BY DEF IssueLink, AnyOf, FreshLinks
<1> QED BY <1>1 DEF RedisTyped, IssueLink

-----------------------------------------------------------------------------
(* The requests.                                                           *)

\* The invariant at the start.
LEMMA InitEstablishes == Init => IInv
<1> SUFFICES ASSUME Init PROVE IInv
  OBVIOUS
<1>1. user \in User
  BY DEF Init, User
<1>2. Consistent(Idle) /\ Idle \in Request /\ ~Ending(Idle) /\ Presented(Idle, codes)
  BY DEF Idle, Consistent, Ending, Request, Presented, Known
<1>3. \A r \in Requests : req[r] = Idle
  BY DEF Init
<1>4. req \in [Requests -> Request]
  BY <1>2 DEF Init
<1>5. codes \in [Purposes -> Codes \cup {None}] /\ sent \in [Purposes -> SUBSET Addresses]
  BY DEF Init
<1>6. links \in [Links -> LinkUses \cup {None}]
  BY DEF Init
<1> QED BY <1>1, <1>2, <1>3, <1>4, <1>5, <1>6 DEF IInv, TypeOK, OneHandler

\* A step in which one request goes on to a record of its program point.  It begins
\* its ending, or stores a new code, only while no other request ends: what the others
\* have been presented stays what it was.
LEMMA RequestStep ==
    ASSUME IInv, NEW r \in Requests, NEW q, Consistent(q),
           req' = [req EXCEPT ![r] = q],
           user' \in User, RedisTyped',
           Ending(q) => LoopFree(r) \/ Ending(req[r]),
           LoopFree(r) \/ \A p \in Purposes : codes'[p] \in {codes[p], None},
           Presented(q, codes')
    PROVE  IInv'
<1>1. req'[r] = q /\ \A x \in Requests \ {r} : req'[x] = req[x]
  BY DEF IInv, TypeOK
<1>2. req' \in [Requests -> Request]
  BY DEF IInv, TypeOK, Consistent
<1>3. TypeOK'
  BY <1>2 DEF TypeOK, RedisTyped
<1>4. \A x \in Requests : Consistent(req[x])'
  <2>1. \A x \in Requests : Consistent(req'[x])
    BY <1>1 DEF IInv
  <2> QED BY <2>1 DEF Consistent, Ending
<1>5. \A x \in Requests : Presented(req'[x], codes')
  <2> SUFFICES ASSUME NEW x \in Requests \ {r} PROVE Presented(req[x], codes')
    BY <1>1
  <2>1. Presented(req[x], codes) /\ Consistent(req[x])
    BY DEF IInv
  <2>2. CASE LoopFree(r)
    BY <2>2 DEF LoopFree, Presented
  <2>3. CASE \A p \in Purposes : codes'[p] \in {codes[p], None}
    BY <2>1, <2>3 DEF Presented, PurposeOf, Purposes, Consistent
  <2> QED BY <2>2, <2>3
<1>6. OneHandler'
  <2> SUFFICES ASSUME NEW x \in Requests, NEW y \in Requests,
                      Ending(req'[x]), Ending(req'[y])
               PROVE  x = y
    BY DEF OneHandler, Ending
  <2>1. CASE x # r /\ y # r
    BY <1>1, <2>1 DEF IInv, OneHandler
  <2>2. ASSUME NEW z \in Requests \ {r}, Ending(req'[z]), Ending(req'[r]) PROVE FALSE
    <3>1. Ending(req[z]) /\ (LoopFree(r) \/ Ending(req[r]))
      BY <1>1, <2>2
    <3>2. ~LoopFree(r)
      BY <3>1 DEF LoopFree, Ending
    <3> QED BY <3>1, <3>2 DEF IInv, OneHandler
  <2> QED BY <2>1, <2>2
<1> QED BY <1>3, <1>4, <1>5, <1>6 DEF IInv, Presented, PurposeOf

\* A request is answered.
LEMMA AnswerStep ==
    ASSUME IInv, NEW r \in Requests, Answer(r), user' \in User, RedisTyped', UNCHANGED codes
    PROVE  IInv'
<1>1. Consistent(Idle) /\ ~Ending(Idle)
  BY DEF Idle, Consistent, Ending, Request, Known
<1>2. Presented(Idle, codes')
  BY DEF Idle, Presented
<1> QED BY <1>1, <1>2, RequestStep DEF Answer

\* The row that a handler works on is one of the table.
LEMMA LoadedIsTyped ==
    ASSUME IInv, NEW r \in Requests, req[r].pc = "handle"
    PROVE  Loaded(r) \in User
BY DEF IInv, TypeOK, Consistent, Loaded

\* A handler goes on, with a row of the table.
LEMMA GoOnStep ==
    ASSUME IInv, NEW r \in Requests, req[r].pc = "handle", LoopFree(r),
           NEW pc \in {"delete", "commit"}, NEW object \in User, GoOn(r, pc, object),
           UNCHANGED user, RedisTyped',
           (pc = "delete" /\ req[r].kind \in {"verify", "verifyLogin"})
               => codes'[PurposeOf(req[r])] \in {req[r].input, None}
    PROVE  IInv'
<1> DEFINE q == [req[r] EXCEPT !.pc = pc, !.seen = Loaded(r), !.object = object]
<1>1. req[r] \in Request /\ Consistent(req[r]) /\ Loaded(r) \in User /\ user' \in User
  BY LoadedIsTyped DEF IInv, TypeOK
<1>2. /\ q \in Request
      /\ q.pc = pc /\ q.object = object
      /\ q.kind = req[r].kind /\ q.channel = req[r].channel
      /\ q.to = req[r].to /\ q.input = req[r].input
  BY <1>1 DEF Request
<1>3. req' = [req EXCEPT ![r] = q]
  BY <1>1 DEF GoOn, IInv, TypeOK
<1> HIDE DEF q
<1>4. Consistent(q)
  BY <1>1, <1>2 DEF Consistent
<1>5. Presented(q, codes')
  BY <1>2 DEF Presented, PurposeOf
<1> QED BY <1>1, <1>3, <1>4, <1>5, RequestStep

\* A code that is right is remembered, and one that is wrong is refused.
LEMMA CheckCodeStep ==
    ASSUME IInv, NEW r \in Requests, req[r].pc = "handle", LoopFree(r), NEW object \in User,
           CheckCode(r, PurposeOf(req[r]), object), UNCHANGED user
    PROVE  IInv' /\ UNCHANGED codes
<1>1. RedisTyped' /\ user' \in User /\ UNCHANGED codes
  BY DEF IInv, TypeOK, RedisTyped, CheckCode, redis
<1>2. CASE Answer(r)
  BY <1>1, <1>2, AnswerStep
<1>3. CASE codes[PurposeOf(req[r])] = req[r].input /\ GoOn(r, "delete", object)
  BY <1>1, <1>3, GoOnStep
<1> QED BY <1>1, <1>2, <1>3 DEF CheckCode

\* The step after the check of a code or a link deletes it.
LEMMA DeleteStep ==
    ASSUME IInv, NEW r \in Requests, req[r].pc = "delete",
           req' = [req EXCEPT ![r].pc = "commit"], UNCHANGED user, RedisTyped',
           \A p \in Purposes : codes'[p] \in {codes[p], None}
    PROVE  IInv'
<1> DEFINE q == [req[r] EXCEPT !.pc = "commit"]
<1>1. req[r] \in Request /\ Consistent(req[r]) /\ user' \in User
  BY DEF IInv, TypeOK
<1>2. /\ q \in Request
      /\ q.pc = "commit" /\ q.object = req[r].object
      /\ q.kind = req[r].kind /\ q.channel = req[r].channel /\ q.to = req[r].to
  BY <1>1 DEF Request
<1>3. req' = [req EXCEPT ![r] = q]
  BY <1>1 DEF IInv, TypeOK
<1> HIDE DEF q
<1>4. Consistent(q) /\ Ending(req[r])
  BY <1>1, <1>2 DEF Consistent, Ending
<1>5. Presented(q, codes')
  BY <1>2 DEF Presented
<1> QED BY <1>1, <1>3, <1>4, <1>5, RequestStep

-----------------------------------------------------------------------------
(* The actions.                                                            *)

\* A code that is gone was presented by a request.
RemovedWasPresented ==
    \A p \in Purposes : (codes[p] # None /\ codes'[p] = None)
                            => \E r \in Requests : req[r].input = codes[p]

\* A request arrives.
LEMMA ArriveStep ==
    ASSUME IInv, NEW r \in Requests, ArriveAny(r)
    PROVE  IInv' /\ UNCHANGED codes
<1>1. RedisTyped' /\ user \in User /\ UNCHANGED <<user, codes>>
  BY DEF IInv, TypeOK, RedisTyped, ArriveAny, Arrive, redis
<1>2. LiveCodes \subseteq Codes \cup {None} /\ LiveLinks \subseteq Links \cup {None}
  BY DEF LiveCodes, LiveLinks, IInv, TypeOK
<1>3. user.totp_secret \in Secrets \cup {None}
  BY <1>1 DEF User
<1>4. ASSUME NEW kind \in Known \cup Anonymous, NEW ch \in Channels \cup {None},
             NEW to \in Emails \cup Phones \cup {None},
             NEW input \in Codes \cup Secrets \cup Links \cup {None},
             Arrive(r, kind, ch, to, input),
             kind = "verify" => ch \in Channels,
             kind = "add" => \/ ch = "email" /\ to \in Emails
                             \/ ch = "phone" /\ to \in Phones
      PROVE  IInv'
  <2> DEFINE loaded == IF kind \in Known THEN user ELSE None
             q == [kind |-> kind, pc |-> "handle", channel |-> ch, to |-> to,
                   input |-> input, seen |-> loaded, object |-> loaded]
  <2>1. loaded \in User \cup {None} /\ (kind \in Known => loaded \in User)
    BY <1>1
  <2> HIDE DEF loaded
  <2>2. q \in Request
    BY <2>1 DEF Request
  <2>3. Consistent(q)
    BY <1>4, <2>1, <2>2 DEF Consistent, Ending
  <2>4. ~Ending(q) /\ Presented(q, codes')
    BY DEF Ending, Presented
  <2>5. req' = [req EXCEPT ![r] = q]
    BY <1>4 DEF Arrive, loaded
  <2> HIDE DEF q
  <2> QED BY <1>1, <2>3, <2>4, <2>5, RequestStep
<1>5. ASSUME NEW a \in Emails, Arrive(r, "add", "email", a, None) PROVE IInv'
  BY <1>4, <1>5 DEF Known, Channels
<1>6. ASSUME NEW n \in Phones, Arrive(r, "add", "phone", n, None) PROVE IInv'
  BY <1>4, <1>6 DEF Known, Channels
<1>7. ASSUME NEW ch \in Channels, NEW c \in LiveCodes, Arrive(r, "verify", ch, None, c)
      PROVE  IInv'
  BY <1>2, <1>4, <1>7 DEF Known
<1>8. ASSUME NEW kind \in {"enable", "disable", "setupTotp", "resend", "challenge", "forgot"},
             Arrive(r, kind, None, None, None)
      PROVE  IInv'
  BY <1>4, <1>8 DEF Known, Anonymous
<1>9. ASSUME NEW s \in {user.totp_secret, None}, Arrive(r, "verifyTotp", None, None, s)
      PROVE  IInv'
  BY <1>3, <1>4, <1>9 DEF Known
<1>10. ASSUME NEW i \in LiveCodes \cup {user.totp_secret},
              Arrive(r, "verifyLogin", None, None, i)
       PROVE  IInv'
  BY <1>2, <1>3, <1>4, <1>10 DEF Anonymous
<1>11. ASSUME NEW use \in LinkUses, NEW l \in LiveLinks, Arrive(r, use, None, None, l)
       PROVE  IInv'
  BY <1>2, <1>4, <1>11 DEF Anonymous, LinkUses
<1> QED BY <1>1, <1>5, <1>6, <1>7, <1>8, <1>9, <1>10, <1>11 DEF ArriveAny

\* A channel is added: its code is stored, and the address set.
LEMMA AddChannelStep ==
    ASSUME IInv, NEW r \in Requests, AddChannel(r)
    PROVE  IInv' /\ RemovedWasPresented
<1>1. /\ req[r].pc = "handle" /\ req[r].kind = "add" /\ LoopFree(r)
      /\ Consistent(req[r]) /\ RedisTyped
  BY DEF AddChannel, Handles, IInv, TypeOK, RedisTyped
<1>2. \/ req[r].channel = "email" /\ req[r].to \in Emails
      \/ req[r].channel = "phone" /\ req[r].to \in Phones
  BY <1>1 DEF Consistent
<1>3. WithAddress(Loaded(r), req[r].channel, req[r].to) \in User
  BY <1>1, <1>2, LoadedIsTyped, AddressIsTyped
<1>4. req[r].channel \in Purposes /\ {req[r].to} \in SUBSET Addresses
  BY <1>2 DEF Purposes, Channels, Addresses
<1>5. RedisTyped' /\ \A x \in Purposes : codes'[x] = None => codes[x] = None
  BY <1>1, <1>4, IssueCodeStep DEF AddChannel
<1>6. IInv'
  BY <1>1, <1>3, <1>5, GoOnStep DEF AddChannel
<1> QED BY <1>5, <1>6 DEF RemovedWasPresented

\* The steps that store or delete nothing in Redis.
LEMMA PlainStep ==
    ASSUME IInv, NEW r \in Requests,
           \/ VerifyChannel(r) \/ Enable(r) \/ Disable(r) \/ SetupTotp(r) \/ VerifyTotp(r)
           \/ VerifyLogin(r) \/ FollowLink(r)
    PROVE  IInv' /\ UNCHANGED codes
<1>1. req[r].pc = "handle" /\ LoopFree(r) /\ UNCHANGED user /\ user' \in User
  BY DEF VerifyChannel, Enable, Disable, SetupTotp, VerifyTotp, VerifyLogin, FollowLink,
         Handles, IInv, TypeOK
<1>2. Loaded(r) \in User /\ user \in User
  BY <1>1, LoadedIsTyped DEF IInv, TypeOK
<1>3. ASSUME UNCHANGED redis PROVE RedisTyped' /\ UNCHANGED codes
  BY <1>3 DEF redis, RedisTyped, IInv, TypeOK
<1>4. ASSUME UNCHANGED redis, Answer(r) PROVE IInv'
  BY <1>1, <1>3, <1>4, AnswerStep
<1>5. ASSUME UNCHANGED redis, NEW object \in User, GoOn(r, "commit", object) PROVE IInv'
  BY <1>1, <1>3, <1>5, GoOnStep
<1>6. CASE VerifyChannel(r)
  <2>1. req[r].kind = "verify" /\ req[r].channel \in Channels
    BY <1>1, <1>6 DEF VerifyChannel, Handles, IInv, Consistent
  <2>2. [Loaded(r) EXCEPT ![VerifiedOf(req[r].channel)] = TRUE] \in User
    BY <1>2 DEF User, VerifiedOf
  <2>3. CASE Answer(r) /\ UNCHANGED redis
    BY <1>3, <1>4, <2>3
  <2>4. CASE CheckCode(r, req[r].channel,
                       [Loaded(r) EXCEPT ![VerifiedOf(req[r].channel)] = TRUE])
    BY <1>1, <2>1, <2>2, <2>4, CheckCodeStep DEF PurposeOf
  <2> QED BY <1>6, <2>3, <2>4 DEF VerifyChannel
<1>7. CASE Enable(r) \/ Disable(r)
  <2>1. /\ [Loaded(r) EXCEPT !.mfa_enabled = TRUE] \in User
        /\ [Loaded(r) EXCEPT !.mfa_enabled = FALSE] \in User
    BY <1>2 DEF User
  <2> QED BY <1>3, <1>4, <1>5, <1>7, <2>1 DEF Enable, Disable
<1>8. CASE SetupTotp(r)
  <2>1. AnyOf(FreshSecrets) \in Secrets
    BY <1>8 DEF SetupTotp, AnyOf, FreshSecrets
  <2>2. WithSecret(Loaded(r), AnyOf(FreshSecrets)) \in User
    BY <1>2, <2>1 DEF WithSecret, User
  <2> QED BY <1>3, <1>5, <1>8, <2>2 DEF SetupTotp
<1>9. CASE VerifyTotp(r)
  <2>1. [Loaded(r) EXCEPT !.totp_verified = TRUE] \in User
    BY <1>2 DEF User
  <2> QED BY <1>3, <1>4, <1>5, <1>9, <2>1 DEF VerifyTotp
<1>10. CASE VerifyLogin(r)
  <2>1. PurposeOf(req[r]) = "login"
    BY <1>10 DEF VerifyLogin, Handles, PurposeOf
  <2>2. CASE CheckCode(r, "login", user)
    BY <1>1, <1>2, <2>1, <2>2, CheckCodeStep
  <2> QED BY <1>2, <1>3, <1>4, <1>5, <1>10, <2>2 DEF VerifyLogin
<1>11. CASE FollowLink(r)
  <2>1. [user EXCEPT !.email_verified = TRUE] \in User
    BY <1>2 DEF User
  <2>2. req[r].kind \notin {"verify", "verifyLogin"} /\ UNCHANGED redis
    BY <1>11 DEF FollowLink, Handles
  <2>3. ASSUME NEW object \in User, GoOn(r, "delete", object) PROVE IInv'
    BY <1>1, <1>3, <2>2, <2>3, GoOnStep
  <2> QED BY <1>2, <1>3, <1>4, <1>11, <2>1, <2>2, <2>3 DEF FollowLink
<1> QED BY <1>6, <1>7, <1>8, <1>9, <1>10, <1>11

\* The second factor is challenged: the login code is stored.
LEMMA ChallengeStep ==
    ASSUME IInv, NEW r \in Requests, Challenge(r)
    PROVE  IInv' /\ RemovedWasPresented
<1>1. /\ req[r].pc = "handle" /\ req[r].kind = "challenge" /\ LoopFree(r)
      /\ UNCHANGED user /\ user' \in User /\ user \in User /\ RedisTyped
  BY DEF Challenge, Handles, IInv, TypeOK, RedisTyped
<1>2. CASE Answer(r) /\ UNCHANGED redis
  <2>1. RedisTyped' /\ UNCHANGED codes
    BY <1>1, <1>2 DEF redis, RedisTyped
  <2> QED BY <1>1, <1>2, <2>1, AnswerStep DEF RemovedWasPresented
<1>3. CASE IssueCode("login", Recipients(user)) /\ GoOn(r, "commit", user)
  <2>1. RedisTyped' /\ \A x \in Purposes : codes'[x] = None => codes[x] = None
    BY <1>1, <1>3, RecipientsAreTyped, IssueCodeStep DEF Purposes
  <2>2. IInv'
    BY <1>1, <1>3, <2>1, GoOnStep
  <2> QED BY <2>1, <2>2 DEF RemovedWasPresented
<1> QED BY <1>2, <1>3 DEF Challenge

\* A link is sent.
LEMMA SendLinkStep ==
    ASSUME IInv, NEW r \in Requests, SendLink(r)
    PROVE  IInv' /\ UNCHANGED codes
<1>1. RedisTyped /\ user' \in User /\ Answer(r)
  BY DEF SendLink, IInv, TypeOK, RedisTyped
<1>2. ASSUME NEW use \in LinkUses, IssueLink(use) PROVE RedisTyped' /\ UNCHANGED codes
  BY <1>1, <1>2, IssueLinkStep
<1>3. ASSUME UNCHANGED redis PROVE RedisTyped' /\ UNCHANGED codes
  BY <1>1, <1>3 DEF redis, RedisTyped
<1>4. RedisTyped' /\ UNCHANGED codes
  BY <1>2, <1>3 DEF SendLink, LinkUses
<1> QED BY <1>1, <1>4, AnswerStep

\* The delete after the check: the code that goes is the one that was presented.
LEMMA RemovalStep ==
    ASSUME IInv, NEW r \in Requests, DeleteCode(r) \/ DeleteLink(r)
    PROVE  IInv' /\ RemovedWasPresented
<1>1. /\ req[r].pc = "delete" /\ UNCHANGED user /\ RedisTyped
      /\ req' = [req EXCEPT ![r].pc = "commit"]
      /\ Consistent(req[r]) /\ Presented(req[r], codes)
  BY DEF DeleteCode, DeleteLink, IInv, TypeOK, RedisTyped
<1>2. CASE DeleteCode(r)
  <2>1. /\ DropCode(PurposeOf(req[r])) /\ PurposeOf(req[r]) \in Purposes
        /\ codes[PurposeOf(req[r])] \in {req[r].input, None}
    BY <1>1, <1>2 DEF DeleteCode, PurposeOf, Purposes, Consistent, Presented
  <2>2. /\ RedisTyped'
        /\ \A x \in Purposes : codes'[x] = IF x = PurposeOf(req[r]) THEN None ELSE codes[x]
    BY <1>1, <2>1 DEF DropCode, RedisTyped
  <2>3. IInv'
    BY <1>1, <2>2, DeleteStep
  <2> QED BY <2>1, <2>2, <2>3 DEF RemovedWasPresented
<1>3. CASE DeleteLink(r)
  <2>1. RedisTyped' /\ UNCHANGED codes
    BY <1>1, <1>3 DEF DeleteLink, DropLink, RedisTyped
  <2>2. IInv'
    BY <1>1, <2>1, DeleteStep
  <2> QED BY <2>1, <2>2 DEF RemovedWasPresented
<1> QED BY <1>2, <1>3

\* The commit, and a failure.
LEMMA EndStep ==
    ASSUME IInv, NEW r \in Requests, Commit(r) \/ Abort(r)
    PROVE  IInv' /\ UNCHANGED codes
<1>1. RedisTyped' /\ UNCHANGED codes /\ Answer(r)
  BY DEF Commit, Abort, redis, RedisTyped, IInv, TypeOK
<1>2. user' \in User
  <2>1. CASE Commit(r)
    <3>1. req[r].object \in User
      BY <2>1 DEF Commit, IInv, Consistent, Ending
    <3> QED BY <2>1, <3>1, FlushIsTyped DEF Commit, IInv, TypeOK
  <2>2. CASE Abort(r)
    BY <2>2 DEF Abort, IInv, TypeOK
  <2> QED BY <2>1, <2>2
<1> QED BY <1>1, <1>2, AnswerStep

\* Redis drops a code or a link.
LEMMA ExpireStep == IInv /\ Expire => IInv' /\ UNCHANGED req
<1> SUFFICES ASSUME IInv, Expire PROVE IInv' /\ UNCHANGED req
  OBVIOUS
<1>1. RedisTyped /\ UNCHANGED <<user, req>>
  BY DEF Expire, IInv, TypeOK, RedisTyped
<1>2. RedisTyped' /\ \A x \in Purposes : codes'[x] \in {codes[x], None}
  BY <1>1 DEF Expire, RedisTyped, DropCode, DropLink
<1>3. TypeOK'
  BY <1>1, <1>2 DEF IInv, TypeOK, RedisTyped
<1>4. \A r \in Requests : Consistent(req[r])' /\ Presented(req[r], codes)'
  <2> SUFFICES ASSUME NEW r \in Requests
               PROVE  Consistent(req[r])' /\ Presented(req[r], codes)'
    OBVIOUS
  <2>1. Consistent(req[r]) /\ Presented(req[r], codes)
    BY DEF IInv
  <2> QED BY <1>1, <1>2, <2>1 DEF Consistent, Ending, Presented, PurposeOf, Purposes
<1> QED BY <1>1, <1>3, <1>4 DEF IInv, OneHandler, Ending

\* Every step keeps the invariant, and removes only a code that was presented.
LEMMA NextPreserves ==
    ASSUME IInv, [Next]_vars
    PROVE  /\ IInv'
           /\ \A p \in Purposes :
                 (codes[p] # None /\ codes'[p] = None)
                     => (req' = req \/ \E r \in Requests : req[r].input = codes[p])
<1>1. ASSUME NEW r \in Requests, ArriveAny(r) \/ Handle(r) \/ Abort(r)
      PROVE  IInv' /\ RemovedWasPresented
  <2>1. ASSUME UNCHANGED codes PROVE RemovedWasPresented
    BY <2>1 DEF RemovedWasPresented
  <2> QED BY <1>1, <2>1, ArriveStep, AddChannelStep, PlainStep, ChallengeStep, SendLinkStep,
             RemovalStep, EndStep DEF Handle
<1>2. CASE Expire
  BY <1>2, ExpireStep
<1>3. CASE UNCHANGED vars
  BY <1>3 DEF vars, IInv, TypeOK, Consistent, Presented, PurposeOf, OneHandler, Ending
<1> QED BY <1>1, <1>2, <1>3 DEF Next, RemovedWasPresented

\* The invariant holds throughout.
LEMMA Invariance == Spec => []IInv
<1>1. IInv /\ [Next]_vars => IInv'
  BY NextPreserves
<1> QED BY <1>1, InitEstablishes, PTL DEF Spec

\* Every variable has its type in every state, whatever requests overlap: what a
\* handler assigns to the row, and what it tells Redis, is typed.
THEOREM TypeCorrect == Spec => []TypeOK
<1>1. IInv => TypeOK
  BY DEF IInv
<1> QED BY <1>1, Invariance, PTL

\* A code leaves Redis by its end of life, for a newer code, or because a request
\* presented exactly that code: between the GET and the DELETE of verify_stored_otp
\* no other handler stores a new one.
THEOREM RemovalIsEarned == Spec => OnlyTheAcceptedCodeIsDeleted
<1>1. IInv /\ [Next]_vars
        => [\A p \in Purposes :
               (codes[p] # None /\ codes'[p] = None)
                   => (req' = req \/ \E r \in Requests : req[r].input = codes[p])]_vars
  BY NextPreserves
<1> QED BY <1>1, Invariance, PTL DEF Spec, OnlyTheAcceptedCodeIsDeleted

-----------------------------------------------------------------------------
(* A code and a link are accepted once.                                    *)

CodeKinds == {"verify", "verifyLogin"}

CodesApart == \A p, q \in Purposes : codes[p] = codes[q] => p = q \/ codes[p] = None

\* What a request presents for its purpose is stored for no other.
Sole(q, stored) ==
    /\ q.pc # "idle" /\ q.kind \in LinkUses => q.input \in Links \cup {None}
    /\ q.pc = "delete" =>
          \/ /\ q.kind \in CodeKinds /\ q.input \in Codes
             /\ \A p \in Purposes : stored[p] = q.input => p = PurposeOf(q)
          \/ q.kind \in LinkUses /\ q.input \in Links

\* Nothing that is stored, and nothing that is about to be accepted, was accepted before.
Unspent ==
    /\ \A p \in Purposes : codes[p] # None => codes[p] \notin spent
    /\ \A l \in Links : links[l] # None => l \notin spent
    /\ \A r \in Requests : req[r].pc = "delete" => req[r].input \notin spent

\* The inductive invariant, on top of IInv.
OnceInv ==
    /\ CodesApart
    /\ \A r \in Requests : Sole(req[r], codes)
    /\ Unspent

\* What is in spent' was there before or is accepted now, and is not issued anew.
LEMMA SpentIs ==
    ASSUME spent' = SpentNext
    PROVE  /\ \A x \in spent' : x \in spent \/ \E r \in Requests : Accepts(r) /\ x = req[r].input
           /\ \A p \in Purposes : codes'[p] \in spent' => codes[p] = codes'[p]
           /\ \A l \in Links : l \in spent' /\ links'[l] # None => links[l] # None
BY DEF SpentNext

\* A step that issues nothing spent, and stores no more what it accepts.
LEMMA OnceStep ==
    ASSUME OnceInv, spent' = SpentNext, CodesApart', \A r \in Requests : Sole(req'[r], codes'),
           \A r \in Requests : Accepts(r) =>
               /\ \A p \in Purposes : codes'[p] # req[r].input
               /\ \A l \in Links : links'[l] # None => l # req[r].input
               /\ \A s \in Requests : req'[s].pc # "delete",
           \A s \in Requests : req'[s].pc = "delete" => req'[s].input \notin spent
    PROVE  OnceInv'
<1>1. \A p \in Purposes : codes'[p] # None => codes'[p] \notin spent'
  BY SpentIs DEF OnceInv, Unspent
<1>2. \A l \in Links : links'[l] # None => l \notin spent'
  BY SpentIs DEF OnceInv, Unspent
<1>3. \A r \in Requests : req'[r].pc = "delete" => req'[r].input \notin spent'
  BY SpentIs
<1>4. Unspent'
  BY <1>1, <1>2, <1>3 DEF Unspent
<1>5. \A r \in Requests : Sole(req[r], codes)'
  OBVIOUS
<1> QED BY <1>4, <1>5 DEF OnceInv

\* A request goes on without being accepted: the others present what they presented.
LEMMA OnceGoesOn ==
    ASSUME IInv, OnceInv, spent' = SpentNext, NEW r \in Requests, NEW q,
           req' = [req EXCEPT ![r] = q], ~(req[r].pc = "delete" /\ q.pc = "commit"),
           Sole(q, codes'), q.pc = "delete" => q.input \notin spent, CodesApart',
           \/ UNCHANGED codes
           \/ \A x \in Requests \ {r} : req[x].pc # "delete"
    PROVE  OnceInv'
<1>1. \A x \in Requests : req'[x] = IF x = r THEN q ELSE req[x]
  BY DEF IInv, TypeOK
<1>2. \A x \in Requests : ~Accepts(x)
  BY <1>1 DEF Accepts
<1>3. ASSUME NEW x \in Requests PROVE Sole(req'[x], codes')
  <2>1. CASE x = r
    BY <1>1, <2>1
  <2>2. CASE x # r
    <3>1. req'[x] = req[x] /\ Sole(req[x], codes)
      BY <1>1, <2>2 DEF OnceInv
    <3> QED BY <2>2, <3>1 DEF Sole
  <2> QED BY <2>1, <2>2
<1>4. \A x \in Requests : req'[x].pc = "delete" => req'[x].input \notin spent
  BY <1>1 DEF OnceInv, Unspent
<1> QED BY <1>2, <1>3, <1>4, OnceStep

\* A request is answered, or begins, and Redis stays as it is.
LEMMA OnceAnswered ==
    ASSUME IInv, OnceInv, spent' = SpentNext, NEW r \in Requests, Answer(r), UNCHANGED codes
    PROVE  OnceInv'
<1>1. Idle.pc = "idle" /\ Sole(Idle, codes')
  BY DEF Idle, Sole
<1>2. CodesApart'
  BY DEF OnceInv, CodesApart
<1> QED BY <1>1, <1>2, OnceGoesOn DEF Answer

\* What GoOn makes of a request's record.
LEMMA GoOnRecord ==
    ASSUME IInv, NEW r \in Requests, NEW pc, NEW object, GoOn(r, pc, object)
    PROVE  \E q : /\ req' = [req EXCEPT ![r] = q]
                  /\ q.pc = pc /\ q.seen = Loaded(r) /\ q.object = object
                  /\ q.kind = req[r].kind /\ q.channel = req[r].channel
                  /\ q.to = req[r].to /\ q.input = req[r].input
<1> DEFINE q == [req[r] EXCEPT !.pc = pc, !.seen = Loaded(r), !.object = object]
<1>1. req[r] \in Request
  BY DEF IInv, TypeOK
<1>2. req' = [req EXCEPT ![r] = q]
  BY DEF GoOn, IInv, TypeOK
<1>3. /\ q.pc = pc /\ q.seen = Loaded(r) /\ q.object = object
      /\ q.kind = req[r].kind /\ q.channel = req[r].channel
      /\ q.to = req[r].to /\ q.input = req[r].input
  BY <1>1 DEF Request
<1> HIDE DEF q
<1> QED BY <1>2, <1>3

\* A handler goes on to its commit.
LEMMA OnceCommits ==
    ASSUME IInv, OnceInv, spent' = SpentNext, NEW r \in Requests, req[r].pc = "handle",
           NEW object, GoOn(r, "commit", object), CodesApart', UNCHANGED codes \/ LoopFree(r)
    PROVE  OnceInv'
<1>1. PICK q : /\ req' = [req EXCEPT ![r] = q] /\ q.pc = "commit"
               /\ q.kind = req[r].kind /\ q.input = req[r].input
  BY GoOnRecord
<1>2. Sole(q, codes')
  BY <1>1 DEF OnceInv, Sole
<1> QED BY <1>1, <1>2, OnceGoesOn DEF LoopFree

\* A code is checked.
LEMMA OnceChecked ==
    ASSUME IInv, OnceInv, spent' = SpentNext, NEW r \in Requests, req[r].pc = "handle",
           req[r].kind \in CodeKinds, PurposeOf(req[r]) \in Purposes, NEW object,
           CheckCode(r, PurposeOf(req[r]), object)
    PROVE  OnceInv'
<1>1. UNCHANGED codes /\ CodesApart'
  BY DEF CheckCode, redis, OnceInv, CodesApart
<1>2. CASE Answer(r)
  BY <1>1, <1>2, OnceAnswered
<1>3. CASE /\ codes[PurposeOf(req[r])] # None /\ codes[PurposeOf(req[r])] = req[r].input
           /\ GoOn(r, "delete", object)
  <2>1. PICK q : /\ req' = [req EXCEPT ![r] = q] /\ q.pc = "delete"
                 /\ q.kind = req[r].kind /\ q.input = req[r].input /\ q.channel = req[r].channel
    BY <1>3, GoOnRecord
  <2>2. PurposeOf(q) = PurposeOf(req[r]) /\ q.kind \notin LinkUses
    BY <2>1 DEF PurposeOf, CodeKinds, LinkUses
  <2>3. q.input \in Codes /\ q.input \notin spent
    BY <1>3, <2>1 DEF IInv, TypeOK, OnceInv, Unspent
  <2>4. \A p \in Purposes : codes[p] = q.input => p = PurposeOf(q)
    BY <1>3, <2>1, <2>2 DEF OnceInv, CodesApart
  <2>5. Sole(q, codes')
    BY <1>1, <2>1, <2>2, <2>3, <2>4 DEF Sole
  <2> QED BY <1>1, <2>1, <2>3, <2>5, OnceGoesOn
<1> QED BY <1>2, <1>3 DEF CheckCode

\* A code is stored that is neither stored nor presented.
LEMMA OnceIssued ==
    ASSUME IInv, OnceInv, NEW p \in Purposes, NEW to, IssueCode(p, to)
    PROVE  CodesApart'
<1>1. AnyOf(FreshCodes) \in FreshCodes
  BY DEF IssueCode, AnyOf
<1>2. codes' = [codes EXCEPT ![p] = AnyOf(FreshCodes)]
      /\ \A x \in Purposes : codes[x] # AnyOf(FreshCodes)
  BY <1>1 DEF IssueCode, FreshCodes
<1> QED BY <1>2 DEF IInv, TypeOK, OnceInv, CodesApart

\* The code or link that is accepted is deleted, and was not accepted before.
LEMMA OnceDeleted ==
    ASSUME IInv, OnceInv, spent' = SpentNext, NEW r \in Requests,
           DeleteCode(r) \/ DeleteLink(r)
    PROVE  OnceInv'
<1> DEFINE q == [req[r] EXCEPT !.pc = "commit"]
           i == req[r].input
<1>1. /\ req[r].pc = "delete" /\ req' = [req EXCEPT ![r] = q] /\ req[r] \in Request
      /\ Sole(req[r], codes) /\ Consistent(req[r])
  BY DEF DeleteCode, DeleteLink, IInv, TypeOK, OnceInv
<1>2. q.pc = "commit" /\ q.kind = req[r].kind /\ q.input = req[r].input
  BY <1>1 DEF Request
<1> HIDE DEF q
<1>3. \A x \in Requests : req'[x] = IF x = r THEN q ELSE req[x]
  BY <1>1 DEF IInv, TypeOK
<1>4. \A x \in Requests : req'[x].pc # "delete" /\ (Accepts(x) => x = r)
  BY <1>1, <1>2, <1>3 DEF IInv, OneHandler, Ending, Accepts
<1>5. /\ \A p \in Purposes : codes'[p] \in {codes[p], None} /\ codes'[p] # i
      /\ \A l \in Links : links'[l] # None => l # i
  <2>1. CASE DeleteCode(r)
    <3>1. /\ i \in Codes /\ \A p \in Purposes : codes[p] = i => p = PurposeOf(req[r])
      BY <1>1, <2>1 DEF DeleteCode, Sole, CodeKinds, LinkUses
    <3>2. DropCode(PurposeOf(req[r]))
      BY <2>1 DEF DeleteCode, PurposeOf
    <3>3. i # None /\ i \notin Links
      BY <3>1, FactorConstants, CodesAreNoLinks
    <3>4. \A p \in Purposes : codes'[p] = IF p = PurposeOf(req[r]) THEN None ELSE codes[p]
      BY <3>2 DEF DropCode, IInv, TypeOK
    <3> QED BY <3>1, <3>3, <3>4
  <2>2. CASE DeleteLink(r)
    <3>1. i \in Links /\ i \notin Codes
      BY <1>1, <2>2, CodesAreNoLinks DEF DeleteLink, Sole, CodeKinds, LinkUses
    <3>2. links' = [links EXCEPT ![i] = None] /\ UNCHANGED codes
      BY <2>2 DEF DeleteLink, DropLink
    <3>3. i # None
      BY <3>1, FactorConstants
    <3> QED BY <3>1, <3>2, <3>3 DEF IInv, TypeOK
  <2> QED BY <2>1, <2>2
<1>6. CodesApart'
  BY <1>5 DEF OnceInv, CodesApart
<1>7. ASSUME NEW x \in Requests PROVE Sole(req'[x], codes')
  <2>1. Sole(req[x], codes)
    BY DEF OnceInv
  <2>2. req'[x].kind = req[x].kind /\ req'[x].input = req[x].input
        /\ (req'[x].pc # "idle" => req[x].pc # "idle")
    BY <1>1, <1>2, <1>3
  <2> QED BY <1>4, <2>1, <2>2 DEF Sole
<1> HIDE DEF i
<1>8. \A x \in Requests : Accepts(x) =>
               /\ \A p \in Purposes : codes'[p] # req[x].input
               /\ \A l \in Links : links'[l] # None => l # req[x].input
               /\ \A s \in Requests : req'[s].pc # "delete"
  BY <1>4, <1>5 DEF i
<1> QED BY <1>4, <1>6, <1>7, <1>8, OnceStep

\* A request arrives.
LEMMA OnceArrives ==
    ASSUME IInv, OnceInv, spent' = SpentNext, NEW r \in Requests, ArriveAny(r)
    PROVE  OnceInv'
<1>1. ASSUME NEW kind, NEW ch, NEW to, NEW input, Arrive(r, kind, ch, to, input),
             kind \in LinkUses => input \in Links \cup {None}
      PROVE  OnceInv'
  <2> DEFINE loaded == IF kind \in Known THEN user ELSE None
             q == [kind |-> kind, pc |-> "handle", channel |-> ch, to |-> to,
                   input |-> input, seen |-> loaded, object |-> loaded]
  <2>1. req' = [req EXCEPT ![r] = q] /\ UNCHANGED codes
    BY <1>1 DEF Arrive, redis
  <2>2. q.pc = "handle" /\ Sole(q, codes')
    BY <1>1 DEF Sole
  <2>3. CodesApart'
    BY <2>1 DEF OnceInv, CodesApart
  <2> HIDE DEF q
  <2> QED BY <2>1, <2>2, <2>3, OnceGoesOn
<1>2. LiveLinks \subseteq Links \cup {None}
  BY DEF LiveLinks
<1> QED BY <1>1, <1>2 DEF ArriveAny, LinkUses

\* Redis drops a code or a link.
LEMMA OnceExpires ==
    ASSUME IInv, OnceInv, spent' = SpentNext, Expire
    PROVE  OnceInv'
<1>1. /\ UNCHANGED req /\ \A p \in Purposes : codes'[p] \in {codes[p], None}
      /\ \A r \in Requests : ~Accepts(r)
  BY DEF Expire, DropCode, DropLink, IInv, TypeOK, Accepts
<1>2. CodesApart'
  BY <1>1 DEF OnceInv, CodesApart
<1>3. ASSUME NEW r \in Requests PROVE Sole(req'[r], codes')
  <2>1. Sole(req[r], codes)
    BY DEF OnceInv
  <2>2. \A c \in Codes : c # None
    BY FactorConstants
  <2> QED BY <1>1, <2>1, <2>2 DEF Sole
<1>4. \A r \in Requests : req'[r].pc = "delete" => req'[r].input \notin spent
  BY <1>1 DEF OnceInv, Unspent
<1> QED BY <1>1, <1>2, <1>3, <1>4, OnceStep

\* The handlers.
LEMMA OnceHandled ==
    ASSUME IInv, OnceInv, spent' = SpentNext, NEW r \in Requests, Handle(r) \/ Abort(r)
    PROVE  OnceInv'
<1>0. ASSUME UNCHANGED codes PROVE CodesApart'
  BY <1>0 DEF OnceInv, CodesApart
<1>a. ASSUME UNCHANGED redis PROVE UNCHANGED codes /\ CodesApart'
  BY <1>0, <1>a DEF redis
<1>1. CASE Commit(r) \/ Abort(r)
  BY <1>a, <1>1, OnceAnswered DEF Commit, Abort
<1>2. CASE DeleteCode(r) \/ DeleteLink(r)
  BY <1>2, OnceDeleted
<1>3. CASE Enable(r) \/ Disable(r) \/ SetupTotp(r) \/ VerifyTotp(r)
  <2>1. /\ req[r].pc = "handle" /\ UNCHANGED redis
        /\ Answer(r) \/ \E object : GoOn(r, "commit", object)
    BY <1>3 DEF Enable, Disable, SetupTotp, VerifyTotp, Handles
  <2> QED BY <1>a, <2>1, OnceAnswered, OnceCommits
<1>4. CASE SendLink(r)
  BY <1>a, <1>4, OnceAnswered DEF SendLink, IssueLink
<1>5. CASE AddChannel(r)
  <2>1. /\ req[r].pc = "handle" /\ req[r].kind = "add" /\ Consistent(req[r]) /\ LoopFree(r)
        /\ IssueCode(req[r].channel, {req[r].to}) /\ \E object : GoOn(r, "commit", object)
    BY <1>5 DEF AddChannel, Handles, IInv
  <2>2. req[r].channel \in Purposes
    BY <2>1 DEF Consistent, Purposes, Channels
  <2>3. CodesApart'
    BY <2>1, <2>2, OnceIssued
  <2> QED BY <2>1, <2>3, OnceCommits
<1>6. CASE Challenge(r)
  <2>1. req[r].pc = "handle" /\ LoopFree(r)
    BY <1>6 DEF Challenge, Handles
  <2>2. CASE Answer(r) /\ UNCHANGED redis
    BY <1>a, <2>2, OnceAnswered
  <2>3. CASE IssueCode("login", Recipients(user)) /\ GoOn(r, "commit", user)
    <3>1. CodesApart'
      BY <2>3, OnceIssued DEF Purposes
    <3> QED BY <2>1, <2>3, <3>1, OnceCommits
  <2> QED BY <1>6, <2>2, <2>3 DEF Challenge
<1>7. CASE VerifyChannel(r)
  <2>1. req[r].pc = "handle" /\ req[r].kind = "verify" /\ req[r].channel \in Channels
    BY <1>7 DEF VerifyChannel, Handles, IInv, Consistent
  <2>2. CASE Answer(r) /\ UNCHANGED redis
    BY <1>a, <2>2, OnceAnswered
  <2>3. ASSUME NEW object, CheckCode(r, req[r].channel, object) PROVE OnceInv'
    BY <2>1, <2>3, OnceChecked DEF PurposeOf, CodeKinds, Purposes
  <2> QED BY <1>7, <2>2, <2>3 DEF VerifyChannel
<1>8. CASE VerifyLogin(r)
  <2>1. req[r].pc = "handle" /\ req[r].kind = "verifyLogin"
    BY <1>8 DEF VerifyLogin, Handles
  <2>2. CASE (Answer(r) \/ GoOn(r, "commit", user)) /\ UNCHANGED redis
    BY <1>a, <2>1, <2>2, OnceAnswered, OnceCommits
  <2>3. CASE CheckCode(r, "login", user)
    BY <2>1, <2>3, OnceChecked DEF PurposeOf, CodeKinds, Purposes
  <2> QED BY <1>8, <2>2, <2>3 DEF VerifyLogin
<1>9. CASE FollowLink(r)
  <2> DEFINE l == req[r].input
  <2>1. /\ req[r].pc = "handle" /\ req[r].kind \in LinkUses /\ UNCHANGED redis
        /\ Sole(req[r], codes)
    BY <1>9 DEF FollowLink, Handles, LinkUses, OnceInv
  <2>2. CASE Answer(r)
    BY <1>a, <2>1, <2>2, OnceAnswered
  <2>3. ASSUME l # None, links[l] = req[r].kind, NEW object, GoOn(r, "delete", object)
        PROVE  OnceInv'
    <3>1. PICK q : /\ req' = [req EXCEPT ![r] = q] /\ q.pc = "delete"
                   /\ q.kind = req[r].kind /\ q.input = l
      BY <2>3, GoOnRecord
    <3>2. l \in Links
      BY <2>1, <2>3 DEF Sole
    <3>3. links[l] # None
      BY <2>1, <2>3, FactorConstants
    <3>4. q.input \notin spent /\ Sole(q, codes')
      BY <2>1, <3>1, <3>2, <3>3 DEF OnceInv, Unspent, Sole
    <3> QED BY <1>a, <2>1, <3>1, <3>4, OnceGoesOn
  <2> QED BY <1>9, <2>2, <2>3 DEF FollowLink
<1> QED BY <1>1, <1>2, <1>3, <1>4, <1>5, <1>6, <1>7, <1>8, <1>9 DEF Handle

\* The history starts with a user whose row is typed, and nothing in Redis.
LEMMA HistoryEstablishes == HistoryInit => IInv /\ OnceInv
<1> SUFFICES ASSUME HistoryInit PROVE IInv /\ OnceInv
  OBVIOUS
<1>1. /\ Consistent(Idle) /\ Idle \in Request /\ ~Ending(Idle) /\ Idle.pc = "idle"
      /\ Presented(Idle, codes) /\ Sole(Idle, codes)
  BY DEF Idle, Consistent, Ending, Request, Presented, Known, Sole
<1>2. user \in User /\ spent = {} /\ \A r \in Requests : req[r] = Idle
  BY DEF HistoryInit
<1>3. req \in [Requests -> Request]
  BY <1>1 DEF HistoryInit
<1>4. /\ codes \in [Purposes -> Codes \cup {None}] /\ sent \in [Purposes -> SUBSET Addresses]
      /\ links \in [Links -> LinkUses \cup {None}] /\ CodesApart
  BY DEF HistoryInit, CodesApart
<1>5. IInv
  BY <1>1, <1>2, <1>3, <1>4 DEF IInv, TypeOK, OneHandler
<1> QED BY <1>1, <1>2, <1>4, <1>5 DEF OnceInv, Unspent

\* Both invariants hold throughout.
LEMMA OnceInvariance == HistorySpec => [](IInv /\ OnceInv)
<1>1. ASSUME IInv, OnceInv, HistoryNext PROVE IInv' /\ OnceInv'
  <2>1. Next /\ spent' = SpentNext
    BY <1>1 DEF HistoryNext
  <2>2. IInv'
    BY <1>1, <2>1, NextPreserves
  <2>3. OnceInv'
    BY <1>1, <2>1, OnceArrives, OnceHandled, OnceExpires DEF Next
  <2> QED BY <2>2, <2>3
<1>2. ASSUME IInv, OnceInv, UNCHANGED hvars PROVE IInv' /\ OnceInv'
  <2>1. IInv'
    BY <1>2, NextPreserves DEF hvars
  <2>2. OnceInv'
    BY <1>2 DEF hvars, vars, OnceInv, CodesApart, Sole, Unspent, PurposeOf
  <2> QED BY <2>1, <2>2
<1> QED BY <1>1, <1>2, HistoryEstablishes, PTL DEF HistorySpec

\* However many requests present one code or one link, one of them is accepted: from
\* the GET to the DELETE of verify_stored_otp and consume_token no other handler runs.
THEOREM AcceptedOnce == HistorySpec => SecretsAcceptedOnce
<1> DEFINE A == \A r \in Requests : Accepts(r) => req[r].input \notin spent
<1>1. OnceInv => A
  BY DEF OnceInv, Unspent, Accepts
<1>2. HistorySpec => [][A]_hvars
  BY <1>1, OnceInvariance, PTL
<1> QED BY <1>2 DEF SecretsAcceptedOnce

-----------------------------------------------------------------------------
(* What is verified was proven, as long as requests come one at a time.    *)

\* What the handler of q has made of the row u that it has loaded.
Honest(q, u, shownTo, seen) ==
    /\ \A ch \in Channels :
          /\ q.object[VerifiedOf(ch)] =>
                \/ u[VerifiedOf(ch)]
                \/ shownTo[ch] = {u[AddressOf(ch)]}
          /\ \/ q.object[AddressOf(ch)] = u[AddressOf(ch)]
             \/ q.kind = "add" /\ q.channel = ch
          /\ q.kind = "add" /\ q.channel = ch =>
                ~q.object[VerifiedOf(ch)] /\ q.object[AddressOf(ch)] = q.to
    /\ \/ ~q.object.totp_verified
       \/ /\ q.object.totp_secret = u.totp_secret
          /\ u.totp_verified \/ u.totp_secret \in seen

\* What a request that runs alone has read still holds when it goes on.
Current(q, u, shownTo, seen) ==
    /\ q.pc = "handle" /\ q.kind \in Known => q.object = u
    /\ Ending(q) => q.seen = u /\ Honest(q, u, shownTo, seen)

Adding(q, ch) == q.kind = "add" /\ q.channel = ch /\ q.pc = "commit"

\* The code of a channel went to its address, or to the one that is being added.
CodesReach ==
    \A ch \in Channels : codes[ch] # None =>
        /\ \A r \in Requests : Adding(req[r], ch) => sent[ch] = {req[r].to}
        /\ (\A r \in Requests : ~Adding(req[r], ch)) => sent[ch] = {user[AddressOf(ch)]}

Proven ==
    /\ \A ch \in Channels : user[VerifiedOf(ch)] => proven[ch] = {user[AddressOf(ch)]}
    /\ user.totp_verified => user.totp_secret \in shown

Calm ==
    /\ OneAtATime
    /\ \A r \in Requests : Current(req[r], user, proven, shown)
    /\ CodesReach
    /\ Proven

\* The inductive invariant, on top of IInv.
ProvenInv == undisturbed => Calm

\* The history that concerns the channels and the app.
ProvenHistory ==
    /\ proven' = [ch \in Channels |-> ProvenNext(ch)]
    /\ shown' = (shown \cup {req[r].input : r \in {q \in Requests : req[q].kind = "verifyTotp"}})
                   \cap {user'.totp_secret}

\* The requests come one at a time, and r is the one in progress: it goes on to q.
Alone(r, q) ==
    /\ req' = [req EXCEPT ![r] = q]
    /\ \A x \in Requests \ {r} : req[x].pc = "idle"

\* What one step of the only request does to the history.
LEMMA HistoryIs ==
    ASSUME IInv, NEW r \in Requests, NEW q, Alone(r, q), ProvenHistory
    PROVE  /\ \A ch \in Channels :
                 /\ Adding(req[r], ch) /\ q.pc = "idle" => proven'[ch] = {}
                 /\ req[r].kind = "verify" /\ req[r].channel = ch
                       /\ req[r].pc = "handle" /\ q.pc = "delete" => proven'[ch] = sent[ch]
                 /\ \/ proven'[ch] = proven[ch]
                    \/ Adding(req[r], ch) /\ q.pc = "idle"
                    \/ /\ req[r].kind = "verify" /\ req[r].channel = ch
                       /\ req[r].pc = "handle" /\ q.pc = "delete"
           /\ \A s \in shown : s = user'.totp_secret => s \in shown'
           /\ req[r].kind = "verifyTotp" /\ req[r].input = user'.totp_secret
                 => user'.totp_secret \in shown'
<1>1. \A x \in Requests : req'[x] = IF x = r THEN q ELSE req[x]
  BY DEF Alone, IInv, TypeOK
<1>2. \A x \in Requests \ {r} : req[x].pc = "idle"
  BY DEF Alone
<1>3. ASSUME NEW ch \in Channels
      PROVE  proven'[ch] = IF Adding(req[r], ch) /\ q.pc = "idle" THEN {}
                           ELSE IF /\ req[r].kind = "verify" /\ req[r].channel = ch
                                   /\ req[r].pc = "handle" /\ q.pc = "delete"
                                THEN sent[ch] ELSE proven[ch]
  <2>1. (\E x \in Requests : Added(x) /\ req[x].channel = ch)
           <=> (Adding(req[r], ch) /\ q.pc = "idle")
    BY <1>1, <1>2 DEF Added, Adding
  <2>2. (\E x \in Requests : /\ req[x].kind = "verify" /\ req[x].channel = ch
                             /\ req[x].pc = "handle" /\ req'[x].pc = "delete")
           <=> (/\ req[r].kind = "verify" /\ req[r].channel = ch
                /\ req[r].pc = "handle" /\ q.pc = "delete")
    BY <1>1, <1>2
  <2>3. proven'[ch] = ProvenNext(ch)
    BY DEF ProvenHistory
  <2> QED BY <2>1, <2>2, <2>3 DEF ProvenNext
<1>4. /\ \A s \in shown : s = user'.totp_secret => s \in shown'
      /\ req[r].kind = "verifyTotp" /\ req[r].input = user'.totp_secret
             => user'.totp_secret \in shown'
  BY DEF ProvenHistory
<1>5. ASSUME NEW ch \in Channels, Adding(req[r], ch), q.pc = "idle" PROVE proven'[ch] = {}
  BY <1>3, <1>5
<1>6. ASSUME NEW ch \in Channels, req[r].kind = "verify", q.pc = "delete"
      PROVE  ~Adding(req[r], ch)
  BY <1>6 DEF Adding
<1> QED BY <1>3, <1>4, <1>5, <1>6

\* The only request in progress has gone on to q.
LEMMA CalmStep ==
    ASSUME IInv, NEW r \in Requests, NEW q, Alone(r, q),
           Current(q, user', proven', shown'), Proven',
           \A ch \in Channels : codes'[ch] # None =>
               sent'[ch] = IF Adding(q, ch) THEN {q.to} ELSE {user'[AddressOf(ch)]}
    PROVE  Calm'
<1>1. \A x \in Requests : req'[x] = IF x = r THEN q ELSE req[x]
  BY DEF Alone, IInv, TypeOK
<1>2. \A x \in Requests \ {r} : req'[x].pc = "idle"
  BY <1>1 DEF Alone
<1>3. OneAtATime'
  BY <1>2 DEF OneAtATime, Active
<1>4. \A x \in Requests : Current(req'[x], user', proven', shown')
  BY <1>1, <1>2 DEF Current, Ending
<1>5. \A x \in Requests : Current(req[x], user, proven, shown)'
  BY <1>4
<1>6. CodesReach'
  <2> SUFFICES ASSUME NEW ch \in Channels, codes'[ch] # None
               PROVE  /\ \A x \in Requests : Adding(req'[x], ch) => sent'[ch] = {req'[x].to}
                      /\ (\A x \in Requests : ~Adding(req'[x], ch))
                            => sent'[ch] = {user'[AddressOf(ch)]}
    BY DEF CodesReach, Adding, AddressOf
  <2>1. \A x \in Requests \ {r} : ~Adding(req'[x], ch)
    BY <1>2 DEF Adding
  <2> QED BY <1>1, <2>1
<1> QED BY <1>3, <1>5, <1>6 DEF Calm

\* The columns that the promises speak of are as they were loaded.
Same(o, u) ==
    /\ \A ch \in Channels : /\ o[AddressOf(ch)] = u[AddressOf(ch)]
                            /\ o[VerifiedOf(ch)] = u[VerifiedOf(ch)]
    /\ o.totp_secret = u.totp_secret /\ o.totp_verified = u.totp_verified

\* An object with the verified columns of the row changes nothing that has to be proven.
LEMMA SameIsHonest ==
    ASSUME NEW q, NEW u, NEW shownTo, NEW seen, Same(q.object, u), q.kind # "add",
           u.totp_verified \in BOOLEAN
    PROVE  Honest(q, u, shownTo, seen)
BY DEF Same, Honest

\* Without a commit, what is verified stays proven.
LEMMA ProvenStays ==
    ASSUME IInv, Calm, NEW r \in Requests, NEW q, Alone(r, q), ProvenHistory, UNCHANGED user,
           ~(req[r].kind = "add" /\ req[r].pc = "commit" /\ q.pc = "idle"),
           (req[r].kind = "verify" /\ req[r].pc = "handle" /\ q.pc = "delete")
               => sent[req[r].channel] = {user[AddressOf(req[r].channel)]}
    PROVE  /\ Proven'
           /\ \A ch \in Channels : \/ proven'[ch] = proven[ch]
                                   \/ proven'[ch] = {user[AddressOf(ch)]}
           /\ user.totp_secret \in shown => user.totp_secret \in shown'
<1>1. \A ch \in Channels : proven'[ch] = proven[ch] \/ proven'[ch] = {user[AddressOf(ch)]}
  BY HistoryIs DEF Adding
<1>2. user.totp_secret \in shown => user.totp_secret \in shown'
  BY HistoryIs
<1>3. Proven'
  BY <1>1, <1>2 DEF Calm, Proven
<1> QED BY <1>1, <1>2, <1>3

\* What was honest stays so, while the row does not change.
LEMMA HonestStays ==
    ASSUME NEW q, NEW p, NEW u, NEW shownTo, NEW shownTo2, NEW seen, NEW seen2,
           Honest(q, u, shownTo, seen),
           p.kind = q.kind, p.channel = q.channel, p.to = q.to, p.object = q.object,
           \A ch \in Channels : \/ shownTo2[ch] = shownTo[ch]
                                \/ shownTo2[ch] = {u[AddressOf(ch)]},
           u.totp_secret \in seen => u.totp_secret \in seen2
    PROVE  Honest(p, u, shownTo2, seen2)
BY DEF Honest

\* The others are idle, whether the step begins a request or goes on with it.
LEMMA OthersIdle ==
    ASSUME IInv, OneAtATime, OneAtATime', NEW r \in Requests, NEW q,
           req' = [req EXCEPT ![r] = q], Active(r) \/ q.pc # "idle"
    PROVE  Alone(r, q)
<1>1. \A x \in Requests : req'[x] = IF x = r THEN q ELSE req[x]
  BY DEF IInv, TypeOK
<1> QED BY <1>1 DEF OneAtATime, Active, Alone

\* A handler of the only request works on the row as it is.
LEMMA LoadedIsUser ==
    ASSUME Calm, NEW r \in Requests, req[r].pc = "handle"
    PROVE  Loaded(r) = user
BY DEF Calm, Current, Loaded

\* The commit of the only request stores its object.
LEMMA FlushedIsObject ==
    ASSUME IInv, Calm, NEW r \in Requests, req[r].pc = "commit"
    PROVE  Flushed(r) = req[r].object
<1>1. req[r].seen = user /\ req[r].object \in User
  BY DEF Calm, Current, Ending, IInv, Consistent
<1>2. Flushed(r) = [c \in Columns |-> req[r].object[c]]
  BY <1>1 DEF Flushed
<1>3. DOMAIN req[r].object = Columns /\ req[r].object = [c \in DOMAIN req[r].object |->
                                                            req[r].object[c]]
  BY <1>1, ColumnsAre DEF User
<1> QED BY <1>2, <1>3

\* One request goes on, and what the others are doing is nothing.
Moves(r, q) == IInv /\ Calm /\ Alone(r, q) /\ ProvenHistory

\* A step that leaves the row and the codes of the channels alone.
LEMMA CalmPlain ==
    ASSUME NEW r \in Requests, NEW q, Moves(r, q), UNCHANGED user,
           ~(req[r].kind = "add" /\ req[r].pc = "commit"),
           ~(req[r].kind = "verify" /\ q.pc = "delete"),
           ~(q.kind = "add" /\ q.pc = "commit"),
           \A ch \in Channels : codes'[ch] # None => codes[ch] # None /\ sent'[ch] = sent[ch],
           Current(q, user, proven', shown')
    PROVE  Calm'
<1>1. Proven'
  BY ProvenStays DEF Moves
<1>2. \A ch \in Channels : codes'[ch] # None => sent'[ch] = {user[AddressOf(ch)]}
  <2>1. \A ch \in Channels, x \in Requests : ~Adding(req[x], ch)
    BY DEF Adding, Moves, Alone
  <2> QED BY <2>1 DEF Moves, Calm, CodesReach
<1>3. \A ch \in Channels : ~Adding(q, ch)
  BY DEF Adding
<1> QED BY <1>1, <1>2, <1>3, CalmStep DEF Moves

\* A request is answered, and neither begins nor ends a change of an address.
LEMMA CalmAnswered ==
    ASSUME NEW r \in Requests, Moves(r, Idle), UNCHANGED <<user, codes, sent>>,
           ~(req[r].kind = "add" /\ req[r].pc = "commit")
    PROVE  Calm'
<1>1. Idle.pc = "idle" /\ Current(Idle, user, proven', shown')
  BY DEF Idle, Current, Ending
<1> QED BY <1>1, CalmPlain

\* A handler goes on to its commit with a row that it has not changed in what the
\* promises speak of.
LEMMA CalmSame ==
    ASSUME NEW r \in Requests, NEW q, Moves(r, q), UNCHANGED user,
           req[r].pc = "handle", req[r].kind # "add",
           q.kind = req[r].kind, q.pc \in {"delete", "commit"},
           ~(req[r].kind = "verify" /\ q.pc = "delete"),
           q.seen = user, Same(q.object, user),
           \A ch \in Channels : codes'[ch] # None => codes[ch] # None /\ sent'[ch] = sent[ch]
    PROVE  Calm'
<1>1. user.totp_verified \in BOOLEAN
  BY DEF Moves, IInv, TypeOK, User
<1>2. Current(q, user, proven', shown')
  BY <1>1, SameIsHonest DEF Current, Ending
<1> QED BY <1>2, CalmPlain

\* The request ends with its object stored, or fails when the row is its object.
LEMMA CalmStored ==
    ASSUME NEW r \in Requests, Moves(r, Idle), req[r].pc = "commit",
           user' = req[r].object, UNCHANGED redis
    PROVE  Calm'
<1> USE DEF Moves
<1>0. /\ Idle.pc = "idle" /\ Honest(req[r], user, proven, shown) /\ Consistent(req[r])
      /\ req[r].object \in User /\ UNCHANGED <<codes, sent>>
  BY DEF Idle, Calm, Current, Ending, IInv, Consistent, redis
<1>1. Current(Idle, user', proven', shown')
  BY DEF Idle, Current, Ending
<1>2. ASSUME NEW ch \in Channels
      PROVE  /\ user'[VerifiedOf(ch)] => proven'[ch] = {user'[AddressOf(ch)]}
             /\ codes'[ch] # None => sent'[ch] = {user'[AddressOf(ch)]}
  <2>1. CASE req[r].kind = "add" /\ req[r].channel = ch
    <3>1. ~user'[VerifiedOf(ch)] /\ user'[AddressOf(ch)] = req[r].to
      BY <1>0, <2>1 DEF Honest
    <3>2. codes[ch] # None => sent[ch] = {req[r].to}
      BY <2>1 DEF Calm, CodesReach, Adding
    <3> QED BY <1>0, <3>1, <3>2
  <2>2. CASE ~(req[r].kind = "add" /\ req[r].channel = ch)
    <3>1. /\ user'[AddressOf(ch)] = user[AddressOf(ch)]
          /\ user'[VerifiedOf(ch)] => \/ user[VerifiedOf(ch)]
                                      \/ proven[ch] = {user[AddressOf(ch)]}
      BY <1>0, <2>2 DEF Honest
    <3>2. proven'[ch] = proven[ch]
      BY <2>2, HistoryIs DEF Adding
    <3>3. \A x \in Requests : ~Adding(req[x], ch)
      BY <2>2 DEF Alone, Adding
    <3>4. codes[ch] # None => sent[ch] = {user[AddressOf(ch)]}
      BY <3>3 DEF Calm, CodesReach
    <3>5. user[VerifiedOf(ch)] => proven[ch] = {user[AddressOf(ch)]}
      BY DEF Calm, Proven
    <3> QED BY <1>0, <3>1, <3>2, <3>4, <3>5
  <2> QED BY <2>1, <2>2
<1>3. user'.totp_verified => user'.totp_secret \in shown'
  <2>1. user'.totp_verified => user'.totp_secret = user.totp_secret /\ user.totp_secret \in shown
    BY <1>0 DEF Honest, Calm, Proven
  <2> QED BY <2>1, HistoryIs
<1>4. Proven'
  BY <1>2, <1>3 DEF Proven, AddressOf, VerifiedOf
<1>5. \A ch \in Channels : ~Adding(Idle, ch)
  BY <1>0 DEF Adding
<1> QED BY <1>1, <1>2, <1>4, <1>5, CalmStep

\* The handler of an "add" has sent the code and set the address.
LEMMA CalmAdds ==
    ASSUME NEW r \in Requests, NEW q, Moves(r, q), UNCHANGED user,
           req[r].pc = "handle", req[r].kind = "add",
           q.pc = "commit", q.kind = "add", q.channel = req[r].channel, q.to = req[r].to,
           q.seen = user, q.object = WithAddress(user, req[r].channel, req[r].to),
           IssueCode(req[r].channel, {req[r].to})
    PROVE  Calm'
<1> USE DEF Moves
<1> DEFINE own == req[r].channel
<1>1. own \in Channels /\ user \in User
  BY DEF IInv, TypeOK, Consistent, Channels
<1>2. /\ q.object[AddressOf(own)] = req[r].to /\ ~q.object[VerifiedOf(own)]
      /\ \A ch \in Channels : ch # own =>
            /\ q.object[AddressOf(ch)] = user[AddressOf(ch)]
            /\ q.object[VerifiedOf(ch)] = user[VerifiedOf(ch)]
      /\ q.object.totp_secret = user.totp_secret /\ q.object.totp_verified = user.totp_verified
  BY <1>1 DEF WithAddress, AddressOf, VerifiedOf, Channels, User
<1>3. user.totp_verified \in BOOLEAN
  BY <1>1 DEF User
<1>4. Honest(q, user, proven', shown')
  BY <1>2, <1>3 DEF Honest
<1>5. Current(q, user, proven', shown')
  BY <1>4 DEF Current, Ending
<1>6. Proven'
  BY ProvenStays
<1>7. /\ \A ch \in Channels : ch # own => codes'[ch] = codes[ch] /\ sent'[ch] = sent[ch]
      /\ sent'[own] = {req[r].to}
  BY <1>1 DEF IssueCode, IInv, TypeOK, Purposes, Channels
<1>8. \A ch \in Channels : codes[ch] # None => sent[ch] = {user[AddressOf(ch)]}
  <2>1. \A ch \in Channels, x \in Requests : ~Adding(req[x], ch)
    BY DEF Adding, Alone
  <2> QED BY <2>1 DEF Calm, CodesReach
<1>9. \A ch \in Channels : Adding(q, ch) <=> ch = own
  BY DEF Adding
<1> HIDE DEF own
<1>10. \A ch \in Channels : codes'[ch] # None =>
           sent'[ch] = IF Adding(q, ch) THEN {q.to} ELSE {user[AddressOf(ch)]}
  BY <1>7, <1>8, <1>9
<1> QED BY <1>5, <1>6, <1>10, CalmStep

\* The code of a channel is right: it was sent to the address.
LEMMA CalmVerifies ==
    ASSUME NEW r \in Requests, NEW q, Moves(r, q), UNCHANGED <<user, redis>>,
           req[r].pc = "handle", req[r].kind = "verify", codes[req[r].channel] # None,
           q.pc = "delete", q.kind = "verify", q.seen = user,
           q.object = [user EXCEPT ![VerifiedOf(req[r].channel)] = TRUE]
    PROVE  Calm'
<1> USE DEF Moves
<1> DEFINE own == req[r].channel
<1>1. own \in Channels /\ user \in User
  BY DEF IInv, TypeOK, Consistent
<1>2. \A ch \in Channels : codes[ch] # None => sent[ch] = {user[AddressOf(ch)]}
  <2>1. \A ch \in Channels, x \in Requests : ~Adding(req[x], ch)
    BY DEF Adding, Alone
  <2> QED BY <2>1 DEF Calm, CodesReach
<1>3. proven'[own] = {user[AddressOf(own)]}
  BY <1>1, <1>2, HistoryIs
<1>4. Proven'
  BY <1>1, <1>2, ProvenStays
<1>5. /\ \A ch \in Channels :
            /\ q.object[AddressOf(ch)] = user[AddressOf(ch)]
            /\ ch # own => q.object[VerifiedOf(ch)] = user[VerifiedOf(ch)]
      /\ q.object.totp_secret = user.totp_secret /\ q.object.totp_verified = user.totp_verified
      /\ user.totp_verified \in BOOLEAN
  BY <1>1 DEF AddressOf, VerifiedOf, Channels, User
<1> HIDE DEF own
<1>6. Honest(q, user, proven', shown')
  BY <1>3, <1>5 DEF Honest
<1>7. Current(q, user, proven', shown')
  BY <1>6 DEF Current, Ending
<1>8. \A ch \in Channels : ~Adding(q, ch)
  BY DEF Adding
<1> QED BY <1>2, <1>4, <1>7, <1>8, CalmStep DEF redis

\* The code or link that was right is deleted.
LEMMA CalmDeletes ==
    ASSUME NEW r \in Requests, NEW q, Moves(r, q), UNCHANGED user,
           req[r].pc = "delete", req[r].kind # "add",
           q.pc = "commit", q.kind = req[r].kind, q.channel = req[r].channel,
           q.to = req[r].to, q.seen = req[r].seen, q.object = req[r].object,
           \A ch \in Channels : codes'[ch] # None => codes[ch] # None /\ sent'[ch] = sent[ch]
    PROVE  Calm'
<1> USE DEF Moves
<1>1. req[r].seen = user /\ Honest(req[r], user, proven, shown)
  BY DEF Calm, Current, Ending
<1>2. /\ \A ch \in Channels : \/ proven'[ch] = proven[ch]
                              \/ proven'[ch] = {user[AddressOf(ch)]}
      /\ user.totp_secret \in shown => user.totp_secret \in shown'
  BY ProvenStays
<1>3. Honest(q, user, proven', shown')
  BY <1>1, <1>2, HonestStays
<1>4. Current(q, user, proven', shown')
  BY <1>1, <1>3 DEF Current, Ending
<1> QED BY <1>4, CalmPlain

\* A new secret is not verified, and a code of the present one was shown.
LEMMA CalmApp ==
    ASSUME NEW r \in Requests, NEW q, Moves(r, q), UNCHANGED <<user, redis>>,
           req[r].pc = "handle", q.pc = "commit", q.kind = req[r].kind, q.seen = user,
           \/ req[r].kind = "setupTotp" /\ \E s : q.object = WithSecret(user, s)
           \/ /\ req[r].kind = "verifyTotp" /\ req[r].input = user.totp_secret
              /\ q.object = [user EXCEPT !.totp_verified = TRUE]
    PROVE  Calm'
<1> USE DEF Moves
<1>1. user \in User
  BY DEF IInv, TypeOK
<1>2. \A ch \in Channels : /\ q.object[AddressOf(ch)] = user[AddressOf(ch)]
                           /\ q.object[VerifiedOf(ch)] = user[VerifiedOf(ch)]
  BY <1>1 DEF WithSecret, AddressOf, VerifiedOf, Channels, User
<1>3. CASE req[r].kind = "setupTotp"
  <2>1. ~q.object.totp_verified
    BY <1>1, <1>3 DEF WithSecret, User
  <2>2. Honest(q, user, proven', shown')
    BY <1>2, <1>3, <2>1 DEF Honest
  <2> QED BY <1>3, <2>2, CalmPlain DEF Current, Ending, redis
<1>4. CASE req[r].kind = "verifyTotp"
  <2>1. user.totp_secret \in shown' /\ q.object.totp_secret = user.totp_secret
    BY <1>1, <1>4, HistoryIs DEF User
  <2>2. Honest(q, user, proven', shown')
    BY <1>2, <1>4, <2>1 DEF Honest
  <2> QED BY <1>4, <2>2, CalmPlain DEF Current, Ending, redis
<1> QED BY <1>3, <1>4

-----------------------------------------------------------------------------
(* The steps, as long as requests come one at a time.                      *)

\* A request arrives, and loads the row as it is stored.
LEMMA CalmArrives ==
    ASSUME IInv, Calm, OneAtATime', ProvenHistory, NEW r \in Requests, ArriveAny(r)
    PROVE  Calm'
<1>1. ASSUME NEW kind, NEW ch, NEW to, NEW input, Arrive(r, kind, ch, to, input)
      PROVE  Calm'
  <2> DEFINE loaded == IF kind \in Known THEN user ELSE None
             q == [kind |-> kind, pc |-> "handle", channel |-> ch, to |-> to,
                   input |-> input, seen |-> loaded, object |-> loaded]
  <2>1. /\ req' = [req EXCEPT ![r] = q] /\ UNCHANGED <<user, codes, sent>>
        /\ req[r].pc = "idle"
    BY <1>1 DEF Arrive, redis
  <2>2. q.pc = "handle" /\ Current(q, user, proven', shown')
    BY DEF Current, Ending
  <2> HIDE DEF q
  <2>3. Moves(r, q)
    BY <2>1, <2>2, OthersIdle DEF Moves, Calm
  <2> QED BY <2>1, <2>2, <2>3, CalmPlain
<1> QED BY <1>1 DEF ArriveAny

\* A statement of the handler, or its failure.
LEMMA CalmHandled ==
    ASSUME IInv, Calm, OneAtATime', ProvenHistory, NEW r \in Requests, Handle(r) \/ Abort(r),
           Added(r) => user' = Flushed(r)
    PROVE  Calm'
<1>0. Active(r)
  BY DEF Handle, Abort, Active, Handles, AddChannel, VerifyChannel, Enable, Disable, SetupTotp,
         VerifyTotp, Challenge, VerifyLogin, SendLink, FollowLink, DeleteCode, DeleteLink, Commit
<1>a. ASSUME NEW q, req' = [req EXCEPT ![r] = q] PROVE Moves(r, q)
  BY <1>0, <1>a, OthersIdle DEF Moves, Calm
<1>b. ASSUME Answer(r) PROVE Moves(r, Idle)
  BY <1>a, <1>b DEF Answer
<1>c. ASSUME NEW pc, NEW object, GoOn(r, pc, object), req[r].pc = "handle"
      PROVE  \E q : /\ Moves(r, q)
                    /\ q.pc = pc /\ q.seen = user /\ q.object = object
                    /\ q.kind = req[r].kind /\ q.channel = req[r].channel
                    /\ q.to = req[r].to /\ q.input = req[r].input
  BY <1>a, <1>c, GoOnRecord, LoadedIsUser
<1>d. ASSUME UNCHANGED redis PROVE UNCHANGED <<codes, sent>>
  BY <1>d DEF redis
<1>e. user \in User
  BY DEF IInv, TypeOK
<1>f. ASSUME req[r].pc = "handle", req[r].kind \notin {"add", "verify"}, NEW object,
             Same(object, user), NEW pc \in {"delete", "commit"}, GoOn(r, pc, object),
             UNCHANGED user,
             \A ch \in Channels : codes'[ch] # None => codes[ch] # None /\ sent'[ch] = sent[ch]
      PROVE  Calm'
  BY <1>c, <1>f, CalmSame
<1>g. ASSUME req[r].pc # "commit", Answer(r), UNCHANGED <<user, redis>> PROVE Calm'
  BY <1>b, <1>d, <1>g, CalmAnswered
<1>1. CASE Commit(r)
  <2>1. req[r].pc = "commit" /\ user' = req[r].object /\ UNCHANGED redis /\ Answer(r)
    BY <1>1, FlushedIsObject DEF Commit
  <2> QED BY <1>b, <2>1, CalmStored
<1>2. CASE Abort(r)
  <2>1. Answer(r) /\ UNCHANGED <<user, redis>>
    BY <1>2 DEF Abort
  <2>2. CASE Added(r)
    <3>1. req[r].pc = "commit" /\ user' = req[r].object
      BY <2>2, FlushedIsObject DEF Added
    <3> QED BY <1>b, <2>1, <3>1, CalmStored
  <2>3. CASE ~Added(r)
    <3>1. req'[r].pc = "idle"
      BY <2>1 DEF Answer, Idle, IInv, TypeOK
    <3> QED BY <1>b, <1>d, <2>1, <2>3, <3>1, CalmAnswered DEF Added
  <2> QED BY <2>2, <2>3
<1>3. CASE DeleteCode(r) \/ DeleteLink(r)
  <2> DEFINE q == [req[r] EXCEPT !.pc = "commit"]
  <2>1. /\ req[r].pc = "delete" /\ req[r].kind # "add" /\ UNCHANGED user
        /\ req' = [req EXCEPT ![r] = q] /\ req[r] \in Request
    BY <1>3 DEF DeleteCode, DeleteLink, IInv, TypeOK
  <2>2. /\ q.pc = "commit" /\ q.kind = req[r].kind /\ q.channel = req[r].channel
        /\ q.to = req[r].to /\ q.seen = req[r].seen /\ q.object = req[r].object
    BY <2>1 DEF Request
  <2> HIDE DEF q
  <2>3. \A ch \in Channels : codes'[ch] # None => codes[ch] # None /\ sent'[ch] = sent[ch]
    BY <1>3 DEF DeleteCode, DeleteLink, DropCode, DropLink, IInv, TypeOK, Purposes
  <2> QED BY <1>a, <2>1, <2>2, <2>3, CalmDeletes
<1>4. CASE Enable(r) \/ Disable(r)
  <2>1. /\ req[r].pc = "handle" /\ req[r].kind \in {"enable", "disable"}
        /\ UNCHANGED <<user, redis>>
        /\ \/ Answer(r)
           \/ \E on \in BOOLEAN : GoOn(r, "commit", [user EXCEPT !.mfa_enabled = on])
    BY <1>4, LoadedIsUser DEF Enable, Disable, Handles
  <2>2. \A on \in BOOLEAN : Same([user EXCEPT !.mfa_enabled = on], user)
    BY <1>e DEF Same, AddressOf, VerifiedOf, Channels, User
  <2> QED BY <1>d, <1>f, <1>g, <2>1, <2>2
<1>5. CASE SetupTotp(r)
  <2>1. /\ req[r].pc = "handle" /\ req[r].kind = "setupTotp" /\ UNCHANGED <<user, redis>>
        /\ GoOn(r, "commit", WithSecret(user, AnyOf(FreshSecrets)))
    BY <1>5, LoadedIsUser DEF SetupTotp, Handles
  <2> QED BY <1>c, <2>1, CalmApp
<1>6. CASE VerifyTotp(r)
  <2>1. /\ req[r].pc = "handle" /\ req[r].kind = "verifyTotp" /\ UNCHANGED <<user, redis>>
        /\ \/ Answer(r)
           \/ /\ req[r].input = user.totp_secret
              /\ GoOn(r, "commit", [user EXCEPT !.totp_verified = TRUE])
    BY <1>6, LoadedIsUser DEF VerifyTotp, Handles
  <2>2. ASSUME req[r].input = user.totp_secret,
               GoOn(r, "commit", [user EXCEPT !.totp_verified = TRUE])
        PROVE  Calm'
    <3>1. PICK q : /\ Moves(r, q) /\ q.pc = "commit" /\ q.seen = user
                   /\ q.object = [user EXCEPT !.totp_verified = TRUE]
                   /\ q.kind = req[r].kind
      BY <1>c, <2>1, <2>2
    <3> QED BY <2>1, <2>2, <3>1, CalmApp
  <2> QED BY <1>g, <2>1, <2>2
<1>7. Same(user, user)
  BY DEF Same
<1>8. CASE SendLink(r)
  <2>1. Answer(r) /\ req[r].pc = "handle" /\ UNCHANGED <<user, codes, sent>>
    BY <1>8 DEF SendLink, Handles, IssueLink, redis
  <2> QED BY <1>b, <2>1, CalmAnswered
<1>9. CASE AddChannel(r)
  <2>1. /\ req[r].pc = "handle" /\ req[r].kind = "add" /\ UNCHANGED user
        /\ IssueCode(req[r].channel, {req[r].to})
        /\ GoOn(r, "commit", WithAddress(user, req[r].channel, req[r].to))
    BY <1>9, LoadedIsUser DEF AddChannel, Handles
  <2> QED BY <1>c, <2>1, CalmAdds
<1>10. CASE Challenge(r)
  <2>1. req[r].pc = "handle" /\ req[r].kind = "challenge" /\ UNCHANGED user
    BY <1>10 DEF Challenge, Handles
  <2>2. CASE Answer(r) /\ UNCHANGED redis
    BY <1>g, <2>1, <2>2
  <2>3. CASE IssueCode("login", Recipients(user)) /\ GoOn(r, "commit", user)
    <3>1. \A ch \in Channels : codes'[ch] = codes[ch] /\ sent'[ch] = sent[ch]
      BY <2>3 DEF IssueCode, IInv, TypeOK, Purposes, Channels
    <3> QED BY <1>7, <1>f, <2>1, <2>3, <3>1
  <2> QED BY <1>10, <2>2, <2>3 DEF Challenge
<1>11. CASE VerifyChannel(r)
  <2> DEFINE object == [user EXCEPT ![VerifiedOf(req[r].channel)] = TRUE]
  <2>1. /\ req[r].pc = "handle" /\ req[r].kind = "verify" /\ UNCHANGED <<user, redis>>
        /\ \/ Answer(r)
           \/ codes[req[r].channel] # None /\ GoOn(r, "delete", object)
    BY <1>11, LoadedIsUser DEF VerifyChannel, Handles, CheckCode
  <2> HIDE DEF object
  <2>2. ASSUME codes[req[r].channel] # None, GoOn(r, "delete", object) PROVE Calm'
    BY <1>c, <2>1, <2>2, CalmVerifies DEF object
  <2> QED BY <1>g, <2>1, <2>2
<1>12. CASE VerifyLogin(r)
  <2>1. /\ req[r].pc = "handle" /\ req[r].kind = "verifyLogin" /\ UNCHANGED <<user, redis>>
        /\ Answer(r) \/ \E pc \in {"delete", "commit"} : GoOn(r, pc, user)
    BY <1>12 DEF VerifyLogin, Handles, CheckCode
  <2> QED BY <1>7, <1>d, <1>f, <1>g, <2>1
<1>13. CASE FollowLink(r)
  <2>1. /\ req[r].pc = "handle" /\ req[r].kind \in {"reset", "confirm"}
        /\ UNCHANGED <<user, redis>>
        /\ \/ Answer(r) \/ GoOn(r, "delete", user)
           \/ GoOn(r, "delete", [user EXCEPT !.email_verified = TRUE])
    BY <1>13 DEF FollowLink, Handles
  <2>2. Same([user EXCEPT !.email_verified = TRUE], user)
    BY <1>e DEF Same, AddressOf, VerifiedOf, Channels, User
  <2> QED BY <1>7, <1>d, <1>f, <1>g, <2>1, <2>2
<1> QED BY <1>1, <1>2, <1>3, <1>4, <1>5, <1>6, <1>8, <1>9, <1>10, <1>11, <1>12, <1>13
        DEF Handle

\* A key reaches the end of its life.
LEMMA CalmExpires ==
    ASSUME IInv, Calm, OneAtATime', ProvenHistory, Expire
    PROVE  Calm'
<1>1. /\ UNCHANGED <<user, req>>
      /\ \A p \in Purposes : codes'[p] # None => codes[p] # None /\ sent'[p] = sent[p]
  BY DEF Expire, DropCode, DropLink, IInv, TypeOK
<1>2. \A ch \in Channels : proven'[ch] = proven[ch]
  BY <1>1 DEF ProvenHistory, ProvenNext, Added
<1>3. user.totp_secret \in shown => user.totp_secret \in shown'
  BY <1>1 DEF ProvenHistory
<1>4. Proven'
  BY <1>1, <1>2, <1>3 DEF Calm, Proven
<1>5. ASSUME NEW r \in Requests PROVE Current(req[r], user, proven', shown')
  <2>1. Current(req[r], user, proven, shown)
    BY DEF Calm
  <2>2. Ending(req[r]) => Honest(req[r], user, proven', shown')
    BY <1>2, <1>3, <2>1, HonestStays DEF Current
  <2> QED BY <2>1, <2>2 DEF Current
<1>6. \A r \in Requests : Current(req[r], user, proven, shown)'
  BY <1>1, <1>5
<1>7. CodesReach'
  BY <1>1 DEF Calm, CodesReach, Adding, AddressOf, Purposes
<1> QED BY <1>4, <1>6, <1>7 DEF Calm

\* Both invariants hold throughout.
LEMMA ProvenInvariance == HistorySpec => [](IInv /\ ProvenInv)
<1>1. HistoryInit => IInv /\ ProvenInv
  <2> SUFFICES ASSUME HistoryInit PROVE IInv /\ ProvenInv
    OBVIOUS
  <2>1. IInv /\ \A r \in Requests : req[r] = Idle
    BY HistoryEstablishes DEF HistoryInit
  <2>2. OneAtATime /\ \A r \in Requests : Current(req[r], user, proven, shown)
    BY <2>1 DEF OneAtATime, Active, Idle, Current, Ending
  <2>3. CodesReach
    BY DEF HistoryInit, CodesReach, Channels, Purposes
  <2>4. Proven
    BY DEF HistoryInit, Proven
  <2> QED BY <2>1, <2>2, <2>3, <2>4 DEF ProvenInv, Calm
<1>2. ASSUME IInv, ProvenInv, HistoryNext PROVE IInv' /\ ProvenInv'
  <2>1. /\ Next /\ ProvenHistory
        /\ undisturbed' = /\ undisturbed
                          /\ OneAtATime'
                          /\ \A r \in Requests : Added(r) => user' = Flushed(r)
    BY <1>2 DEF HistoryNext, ProvenHistory
  <2>2. IInv'
    BY <1>2, <2>1, NextPreserves
  <2>3. ASSUME undisturbed' PROVE Calm'
    <3>1. Calm /\ OneAtATime' /\ \A r \in Requests : Added(r) => user' = Flushed(r)
      BY <1>2, <2>1, <2>3 DEF ProvenInv
    <3> QED BY <1>2, <2>1, <3>1, CalmArrives, CalmHandled, CalmExpires DEF Next
  <2> QED BY <2>2, <2>3 DEF ProvenInv
<1>3. ASSUME IInv, ProvenInv, UNCHANGED hvars PROVE IInv' /\ ProvenInv'
  <2>1. IInv'
    BY <1>3, NextPreserves DEF hvars
  <2>2. ProvenInv'
    BY <1>3 DEF hvars, vars, ProvenInv, Calm, OneAtATime, Active, Current, Ending, Honest,
                CodesReach, Adding, Proven, AddressOf, VerifiedOf
  <2> QED BY <2>1, <2>2
<1> QED BY <1>1, <1>2, <1>3, PTL DEF HistorySpec

\* As long as requests come one at a time and no change of an address fails after its
\* code was sent, a channel is verified only by a code that went to its present
\* address, and the app only by a code of its present secret: WithAddress and
\* WithSecret take back what an earlier code has shown.
THEOREM VerifiedByCode == HistorySpec => []VerifiedIsProven
<1>1. ProvenInv => VerifiedIsProven
  BY DEF ProvenInv, Calm, Proven, VerifiedIsProven
<1> QED BY <1>1, ProvenInvariance, PTL

\* Only a challenge stores a login code.
LEMMA LoginCodeIsSent ==
    ASSUME IInv, ProvenInv, Next
    PROVE  LoginCodeReaches
<1> SUFFICES ASSUME undisturbed, codes'["login"] \notin {codes["login"], None}
             PROVE  /\ sent'["login"] # {}
                    /\ sent'["login"] \subseteq {Account} \cup UNION {proven[ch] : ch \in Channels}
  BY DEF LoginCodeReaches
<1>0. codes \in [Purposes -> Codes \cup {None}] /\ sent \in [Purposes -> SUBSET Addresses]
      /\ "login" \in Purposes
  BY DEF IInv, TypeOK, Purposes
<1>1. ~Expire
  BY <1>0 DEF Expire, DropCode, DropLink
<1>2. PICK r \in Requests : ArriveAny(r) \/ Handle(r) \/ Abort(r)
  BY <1>1 DEF Next
<1>3. ~UNCHANGED codes
  BY <1>0
<1>4. ~ArriveAny(r) /\ ~Abort(r) /\ ~Commit(r) /\ ~SendLink(r)
  BY <1>3, ArriveStep, EndStep, SendLinkStep
<1>5. ~(VerifyChannel(r) \/ Enable(r) \/ Disable(r) \/ SetupTotp(r) \/ VerifyTotp(r)
           \/ VerifyLogin(r) \/ FollowLink(r))
  BY <1>3, PlainStep
<1>6. ~DeleteCode(r) /\ ~DeleteLink(r)
  BY <1>0, <1>3 DEF DeleteCode, DeleteLink, DropCode, DropLink
<1>7. ~AddChannel(r)
  <2>1. AddChannel(r) => req[r].channel \in Channels
    BY DEF AddChannel, Handles, IInv, Consistent, Channels
  <2>2. "login" \notin Channels
    BY DEF Channels
  <2> QED BY <1>0, <2>1, <2>2 DEF AddChannel, IssueCode
<1>8. IssueCode("login", Recipients(user))
  BY <1>2, <1>3, <1>4, <1>5, <1>6, <1>7 DEF Handle, Challenge, redis
<1>9. sent'["login"] = Recipients(user)
  BY <1>0, <1>8 DEF IssueCode
<1>10. \A ch \in Channels : user[VerifiedOf(ch)] => proven[ch] = {user[AddressOf(ch)]}
  BY DEF ProvenInv, Calm, Proven
<1> DEFINE verified == {user[AddressOf(ch)] : ch \in {c \in Channels :
                            user[AddressOf(c)] # None /\ user[VerifiedOf(c)]}}
<1>11. Recipients(user) = IF verified = {} THEN {Account} ELSE verified
  BY DEF Recipients
<1>12. verified \subseteq UNION {proven[ch] : ch \in Channels}
  BY <1>10
<1> HIDE DEF verified
<1> QED BY <1>9, <1>11, <1>12

\* A login code always goes to somebody, and only to where the user has proven or
\* signed up to be.
THEOREM LoginCodeArrives == HistorySpec => LoginCodeReachesItsUser
<1>1. IInv /\ ProvenInv /\ [HistoryNext]_hvars => [LoginCodeReaches]_hvars
  BY LoginCodeIsSent DEF HistoryNext
<1>2. HistorySpec => [][LoginCodeReaches]_hvars
  BY <1>1, ProvenInvariance, PTL DEF HistorySpec
<1> QED BY <1>2 DEF LoginCodeReachesItsUser
=============================================================================
