---------------------------- MODULE SecondFactor ----------------------------
(***************************************************************************)
(* One user's second factor and one-time secrets: the channels for login   *)
(* codes, the authenticator app (TOTP), the codes that Redis keeps for each *)
(* purpose, and the links for a password reset and for the confirmation of *)
(* the e-mail address.                                                     *)
(*                                                                         *)
(* The handlers are coroutines that never await: in the one process of the *)
(* API nothing else runs between two of their statements.  The dependency  *)
(* get_current_user runs in a thread before the handler: what it loads may *)
(* be old when the handler uses it.  The login guard, the sessions that a  *)
(* login creates and the new password are in LoginGuard and Sessions.      *)
(***************************************************************************)
EXTENDS Naturals, FiniteSets

CONSTANTS Emails,       \* addresses that mfa_email may have
          Phones,       \* numbers that mfa_phone may have
          Account,      \* the address with which the user has signed up
          Secrets,      \* TOTP secrets, a bound on those made
          Codes,        \* codes, a bound on those in use
          Links,        \* link tokens, a bound on those in use
          Requests,     \* requests in progress at the same time
          None          \* a null column, or an unused field

VARIABLES
    user,   \* the committed columns of the user's row
    codes,  \* Redis: the code stored for each purpose
    sent,   \* to whom that code was sent
    links,  \* Redis: what each live link is for
    req     \* what each request executes

vars == <<user, codes, sent, links, req>>

Channels  == {"email", "phone"}
Purposes  == Channels \cup {"login"}
LinkUses  == {"reset", "confirm"}
Addresses == Emails \cup Phones \cup {Account}

ASSUME FactorConstants ==
    None \notin Emails \cup Phones \cup Secrets \cup Codes \cup Links \cup LinkUses

User == [mfa_email          : Emails \cup {None},
         mfa_phone          : Phones \cup {None},
         mfa_email_verified : BOOLEAN,
         mfa_phone_verified : BOOLEAN,
         mfa_enabled        : BOOLEAN,
         totp_secret        : Secrets \cup {None},
         totp_verified      : BOOLEAN,
         email_verified     : BOOLEAN]

Columns == DOMAIN CHOOSE u \in User : TRUE

AddressOf(channel)  == IF channel = "email" THEN "mfa_email" ELSE "mfa_phone"
VerifiedOf(channel) == IF channel = "email" THEN "mfa_email_verified"
                                            ELSE "mfa_phone_verified"

\* Requests with an access token, and requests without.
Known     == {"add", "verify", "enable", "disable", "setupTotp", "verifyTotp", "resend"}
Anonymous == {"challenge", "verifyLogin", "forgot", "reset", "confirm"}

Request == [kind    : Known \cup Anonymous \cup {None},
            pc      : {"idle", "handle", "delete", "commit"},
            channel : Channels \cup {None},
            to      : Emails \cup Phones \cup {None},
            input   : Codes \cup Secrets \cup Links \cup {None},
            seen    : User \cup {None},    \* the row as it was loaded
            object  : User \cup {None}]    \* the session's object

Idle == [kind |-> None, pc |-> "idle", channel |-> None, to |-> None, input |-> None,
         seen |-> None, object |-> None]

TypeOK ==
    /\ user \in User
    /\ codes \in [Purposes -> Codes \cup {None}]
    /\ sent \in [Purposes -> SUBSET Addresses]
    /\ links \in [Links -> LinkUses \cup {None}]
    /\ req \in [Requests -> Request]

Init ==
    /\ user = [mfa_email |-> None, mfa_phone |-> None, mfa_email_verified |-> FALSE,
               mfa_phone_verified |-> FALSE, mfa_enabled |-> FALSE,
               totp_secret |-> None, totp_verified |-> FALSE, email_verified |-> FALSE]
    /\ codes = [p \in Purposes |-> None]
    /\ sent = [p \in Purposes |-> {}]
    /\ links = [l \in Links |-> None]
    /\ req = [r \in Requests |-> Idle]

redis == <<codes, sent, links>>

Answer(r) == req' = [req EXCEPT ![r] = Idle]

-----------------------------------------------------------------------------
(* Redis.                                                                  *)

Inputs == {req[r].input : r \in Requests}

\* A code of six random digits.  That it repeats one in use is not modelled.
FreshCodes == Codes \ (Inputs \cup {codes[p] : p \in Purposes})
FreshLinks == {l \in Links \ Inputs : links[l] = None}

\* Which of the fresh values it is does not matter.
AnyOf(S) == CHOOSE x \in S : TRUE

\* generate_and_store_otp and the message with the code.
IssueCode(purpose, to) ==
    /\ FreshCodes # {}
    /\ codes' = [codes EXCEPT ![purpose] = AnyOf(FreshCodes)]
    /\ sent' = [sent EXCEPT ![purpose] = to]
    /\ UNCHANGED links

DropCode(purpose) ==
    /\ codes' = [codes EXCEPT ![purpose] = None]
    /\ sent' = [sent EXCEPT ![purpose] = {}]
    /\ UNCHANGED links

\* issue_token and the message to the account's address.
IssueLink(use) ==
    /\ FreshLinks # {}
    /\ links' = [links EXCEPT ![AnyOf(FreshLinks)] = use]
    /\ UNCHANGED <<codes, sent>>

DropLink(l) ==
    /\ links' = [links EXCEPT ![l] = None]
    /\ UNCHANGED <<codes, sent>>

-----------------------------------------------------------------------------
(* Arrival and commit.                                                     *)

\* get_current_user loads the row for the requests that need it.
Arrive(r, kind, channel, to, input) ==
    /\ req[r].pc = "idle"
    /\ LET loaded == IF kind \in Known THEN user ELSE None
       IN  req' = [req EXCEPT ![r] = [kind |-> kind, pc |-> "handle", channel |-> channel,
                       to |-> to, input |-> input, seen |-> loaded, object |-> loaded]]
    /\ UNCHANGED <<user, redis>>

\* Mistake: the handlers are plain functions, which run in threads.
LoopFreeInThreads(r) == TRUE

\* No other handler has begun and not ended.
LoopFree(r) == \A q \in Requests \ {r} : req[q].pc \notin {"delete", "commit"}

Handles(r, kind) == req[r].pc = "handle" /\ req[r].kind = kind /\ LoopFree(r)

\* The row that a handler works on: the loaded one, or the one that it reads itself.
Loaded(r) == IF req[r].kind \in Known THEN req[r].object ELSE user

\* The handler goes on to pc, having assigned to the object.
GoOn(r, pc, object) ==
    req' = [req EXCEPT ![r].pc = pc, ![r].seen = Loaded(r), ![r].object = object]

\* The UPDATE sets the columns in which the object differs from what was loaded.
Flushed(r) == [c \in Columns |-> IF req[r].object[c] # req[r].seen[c]
                                 THEN req[r].object[c] ELSE user[c]]

Commit(r) ==
    /\ req[r].pc = "commit"
    /\ user' = Flushed(r)
    /\ Answer(r)
    /\ UNCHANGED redis

-----------------------------------------------------------------------------
(* Channels.                                                               *)

\* Mistake: a new address leaves the flag alone.
WithAddressOnly(u, channel, to) == [u EXCEPT ![AddressOf(channel)] = to]

WithAddress(u, channel, to) ==
    [u EXCEPT ![AddressOf(channel)] = to, ![VerifiedOf(channel)] = FALSE]

\* The code is stored and sent before the commit.
AddChannel(r) ==
    /\ Handles(r, "add")
    /\ IssueCode(req[r].channel, {req[r].to})
    /\ GoOn(r, "commit", WithAddress(Loaded(r), req[r].channel, req[r].to))
    /\ UNCHANGED user

\* Mistake: the code is deleted whether or not it is the right one.
CheckAndDrop(r, purpose, object) ==
    IF codes[purpose] # None
    THEN DropCode(purpose) /\ GoOn(r, "commit", object)
    ELSE Answer(r) /\ UNCHANGED redis

\* verify_stored_otp: GET and the comparison.  The DELETE is a step of its own.
CheckCode(r, purpose, object) ==
    /\ IF codes[purpose] # None /\ codes[purpose] = req[r].input
       THEN GoOn(r, "delete", object)
       ELSE Answer(r)
    /\ UNCHANGED redis

DeleteCode(r) ==
    /\ req[r].pc = "delete" /\ req[r].kind \in {"verify", "verifyLogin"}
    /\ DropCode(IF req[r].kind = "verify" THEN req[r].channel ELSE "login")
    /\ req' = [req EXCEPT ![r].pc = "commit"]
    /\ UNCHANGED user

VerifyChannel(r) ==
    /\ Handles(r, "verify")
    /\ LET channel == req[r].channel
       IN  IF Loaded(r)[AddressOf(channel)] = None
           THEN Answer(r) /\ UNCHANGED redis
           ELSE CheckCode(r, channel, [Loaded(r) EXCEPT ![VerifiedOf(channel)] = TRUE])
    /\ UNCHANGED user

\* Enabling needs a verified channel.
Enable(r) ==
    /\ Handles(r, "enable")
    /\ IF Loaded(r).mfa_email_verified \/ Loaded(r).mfa_phone_verified
       THEN GoOn(r, "commit", [Loaded(r) EXCEPT !.mfa_enabled = TRUE])
       ELSE Answer(r)
    /\ UNCHANGED <<user, redis>>

Disable(r) ==
    /\ Handles(r, "disable")
    /\ GoOn(r, "commit", [Loaded(r) EXCEPT !.mfa_enabled = FALSE])
    /\ UNCHANGED <<user, redis>>

-----------------------------------------------------------------------------
(* Authenticator app.  A TOTP code shows that its sender has the secret, so *)
(* the secret stands for it; the time window is not modelled.              *)

WithSecret(u, s) == [u EXCEPT !.totp_secret = s, !.totp_verified = FALSE]

FreshSecrets ==
    Secrets \ (Inputs \cup {user.totp_secret}
                      \cup {req[r].object.totp_secret : r \in {q \in Requests :
                                                          req[q].object # None}})

SetupTotp(r) ==
    /\ Handles(r, "setupTotp")
    /\ FreshSecrets # {}
    /\ GoOn(r, "commit", WithSecret(Loaded(r), AnyOf(FreshSecrets)))
    /\ UNCHANGED <<user, redis>>

VerifyTotp(r) ==
    /\ Handles(r, "verifyTotp")
    /\ IF Loaded(r).totp_secret # None /\ Loaded(r).totp_secret = req[r].input
       THEN GoOn(r, "commit", [Loaded(r) EXCEPT !.totp_verified = TRUE])
       ELSE Answer(r)
    /\ UNCHANGED <<user, redis>>

-----------------------------------------------------------------------------
(* Login with a second factor, after the password was right.               *)

\* Mistake: the code goes to both channels as they are.
RecipientsAll(u) == {u.mfa_email, u.mfa_phone}

\* _dispatch_login_otp: the verified channels, else the account's address.
Recipients(u) ==
    LET verified == {u[AddressOf(ch)] : ch \in {c \in Channels :
                         u[AddressOf(c)] # None /\ u[VerifiedOf(c)]}}
    IN  IF verified = {} THEN {Account} ELSE verified

\* A user with a verified app gets no code.
Challenge(r) ==
    /\ Handles(r, "challenge")
    /\ IF user.mfa_enabled /\ ~user.totp_verified
       THEN IssueCode("login", Recipients(user)) /\ GoOn(r, "commit", user)
       ELSE Answer(r) /\ UNCHANGED redis
    /\ UNCHANGED user

VerifyLogin(r) ==
    /\ Handles(r, "verifyLogin")
    /\ \/ /\ ~user.mfa_enabled
          /\ Answer(r)
          /\ UNCHANGED redis
       \/ /\ user.mfa_enabled /\ user.totp_verified
          /\ user.totp_secret # None /\ user.totp_secret = req[r].input
          /\ GoOn(r, "commit", user)
          /\ UNCHANGED redis
       \/ /\ user.mfa_enabled
          /\ ~(user.totp_verified /\ user.totp_secret # None
                                  /\ user.totp_secret = req[r].input)
          /\ CheckCode(r, "login", user)
    /\ UNCHANGED user

-----------------------------------------------------------------------------
(* Links.                                                                  *)

\* request_password_reset, and request_email_verification of a user who has not
\* confirmed the address.  A new link leaves the earlier ones alive.
SendLink(r) ==
    /\ \/ Handles(r, "forgot") /\ IssueLink("reset")
       \/ Handles(r, "resend") /\ ~Loaded(r).email_verified /\ IssueLink("confirm")
       \/ Handles(r, "resend") /\ Loaded(r).email_verified /\ UNCHANGED redis
    /\ Answer(r)
    /\ UNCHANGED user

\* consume_token: GET.  The DELETE is a step of its own.
FollowLink(r) ==
    /\ Handles(r, "reset") \/ Handles(r, "confirm")
    /\ LET l == req[r].input
       IN  IF l # None /\ links[l] = req[r].kind
           THEN GoOn(r, "delete", IF req[r].kind = "confirm"
                                  THEN [user EXCEPT !.email_verified = TRUE] ELSE user)
           ELSE Answer(r)
    /\ UNCHANGED <<user, redis>>

DeleteLink(r) ==
    /\ req[r].pc = "delete" /\ req[r].kind \in {"reset", "confirm"}
    /\ DropLink(req[r].input)
    /\ req' = [req EXCEPT ![r].pc = "commit"]
    /\ UNCHANGED user

-----------------------------------------------------------------------------
(* Failures, and the specification.                                        *)

\* A statement or the commit fails.  What Redis was told stays.
Abort(r) ==
    /\ req[r].pc # "idle"
    /\ Answer(r)
    /\ UNCHANGED <<user, redis>>

\* Redis drops what has reached its end of life.
Expire ==
    /\ \/ \E p \in Purposes : codes[p] # None /\ DropCode(p)
       \/ \E l \in Links : links[l] # None /\ DropLink(l)
    /\ UNCHANGED <<user, req>>

\* What a client may type: a code or a secret in use, one that is wrong, a live link.
LiveCodes == {codes[p] : p \in Purposes} \cup {None}
LiveLinks == {l \in Links : links[l] # None} \cup {None}

ArriveAny(r) ==
    \/ \E a \in Emails : Arrive(r, "add", "email", a, None)
    \/ \E n \in Phones : Arrive(r, "add", "phone", n, None)
    \/ \E ch \in Channels, c \in LiveCodes : Arrive(r, "verify", ch, None, c)
    \/ \E kind \in {"enable", "disable", "setupTotp", "resend", "challenge", "forgot"} :
          Arrive(r, kind, None, None, None)
    \/ \E s \in {user.totp_secret, None} : Arrive(r, "verifyTotp", None, None, s)
    \/ \E i \in LiveCodes \cup {user.totp_secret} : Arrive(r, "verifyLogin", None, None, i)
    \/ \E use \in LinkUses, l \in LiveLinks : Arrive(r, use, None, None, l)

Handle(r) ==
    \/ AddChannel(r) \/ VerifyChannel(r) \/ Enable(r) \/ Disable(r)
    \/ SetupTotp(r) \/ VerifyTotp(r) \/ Challenge(r) \/ VerifyLogin(r)
    \/ SendLink(r) \/ FollowLink(r)
    \/ DeleteCode(r) \/ DeleteLink(r) \/ Commit(r)

Next == (\E r \in Requests : ArriveAny(r) \/ Handle(r) \/ Abort(r)) \/ Expire

Spec == Init /\ [][Next]_vars

-----------------------------------------------------------------------------
(* Properties.                                                             *)

\* A code is removed from Redis by its end of life, by a newer code, or because a
\* request presented exactly that code: neither a wrong code nor a slow request
\* removes it.
OnlyTheAcceptedCodeIsDeleted ==
    [][\A p \in Purposes :
           (codes[p] # None /\ codes'[p] = None)
               => (req' = req \/ \E r \in Requests : req[r].input = codes[p])]_vars
=============================================================================
