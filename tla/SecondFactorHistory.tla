------------------------ MODULE SecondFactorHistory ------------------------
(***************************************************************************)
(* SecondFactor with the history that its promises speak of.               *)
(***************************************************************************)
EXTENDS SecondFactor

\* A code has six digits and a link's token 43 characters.
ASSUME CodesAreNoLinks == Codes \cap Links = {}

VARIABLES
    spent,       \* the codes and links that were accepted
    proven,      \* per channel, to whom the code that was accepted last was sent
    shown,       \* secrets of which a code was given
    undisturbed  \* requests came one at a time, and no change of a channel failed

hvars == <<vars, spent, proven, shown, undisturbed>>

\* The user has an account, and may have set up a channel before.
HistoryInit ==
    /\ user \in User /\ ~user.totp_verified
    /\ \A ch \in Channels : user[VerifiedOf(ch)] => user[AddressOf(ch)] # None
    /\ codes = [p \in Purposes |-> None]
    /\ sent = [p \in Purposes |-> {}]
    /\ links = [l \in Links |-> None]
    /\ req = [r \in Requests |-> Idle]
    /\ proven = [ch \in Channels |-> {user[AddressOf(ch)]} \ {None}]
    /\ spent = {} /\ shown = {} /\ undisturbed = TRUE

\* r has presented the right code or link, and has deleted it.
Accepts(r) == req[r].pc = "delete" /\ req'[r].pc = "commit"

\* What nobody can present any more, or is issued anew, is forgotten.
SpentNext ==
    {x \in spent \cup {req[r].input : r \in {q \in Requests : Accepts(q)}} :
        /\ x \in Inputs' \cup {codes'[p] : p \in Purposes} \cup {l \in Links : links'[l] # None}
        /\ \A p \in Purposes : codes'[p] = x => codes[p] = x
        /\ x \in Links /\ links'[x] # None => links[x] # None}

\* The handler of an "add" has begun, and ends with this step.
Added(r) == req[r].kind = "add" /\ req[r].pc = "commit" /\ req'[r].pc = "idle"

\* A new address has not been proven, though it may be the old one.
ProvenNext(ch) ==
    IF \E r \in Requests : Added(r) /\ req[r].channel = ch
    THEN {}
    ELSE IF \E r \in Requests : /\ req[r].kind = "verify" /\ req[r].channel = ch
                                /\ req[r].pc = "handle" /\ req'[r].pc = "delete"
         THEN sent[ch]
         ELSE proven[ch]

Active(r) == req[r].pc # "idle"

OneAtATime == \A q, r \in Requests : Active(q) /\ Active(r) => q = r

HistoryNext ==
    /\ Next
    /\ spent' = SpentNext
    /\ proven' = [ch \in Channels |-> ProvenNext(ch)]
    /\ shown' = (shown \cup {req[r].input : r \in {q \in Requests : req[q].kind = "verifyTotp"}})
                   \cap {user'.totp_secret}
    /\ undisturbed' = /\ undisturbed
                      /\ OneAtATime'
                      /\ \A r \in Requests : Added(r) => user' = Flushed(r)

HistorySpec == HistoryInit /\ [][HistoryNext]_hvars

-----------------------------------------------------------------------------
(* Properties.                                                             *)

\* A one-time code and a link are accepted once: a second request with the same
\* code, before or after the first one has committed, is refused.
SecretsAcceptedOnce ==
    [][\A r \in Requests : Accepts(r) => req[r].input \notin spent]_hvars

\* A channel counts as verified only after the user has given back a code that was
\* sent to its present address, since this address was set, and the app only after a
\* code of its present secret was given.
VerifiedIsProven ==
    undisturbed =>
        /\ \A ch \in Channels : user[VerifiedOf(ch)] => proven[ch] = {user[AddressOf(ch)]}
        /\ user.totp_verified => user.totp_secret \in shown

\* A login code is always sent to somebody, and only to an address that the user has
\* proven or has signed up with.
LoginCodeReaches ==
    undisturbed /\ codes'["login"] \notin {codes["login"], None}
        => /\ sent'["login"] # {}
           /\ sent'["login"] \subseteq {Account} \cup UNION {proven[ch] : ch \in Channels}

LoginCodeReachesItsUser == [][LoginCodeReaches]_hvars
=============================================================================
