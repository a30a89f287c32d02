--------------------------- MODULE MCSecondFactor ---------------------------
(***************************************************************************)
(* SecondFactorHistory with bounds on what a behaviour is about, for model *)
(* checking.                                                               *)
(***************************************************************************)
EXTENDS SecondFactorHistory

CONSTANTS e1, n1, r1

VARIABLE scene  \* what the requests are about

mcvars == <<hvars, scene>>

\* Bounds: a behaviour is about two addresses of one channel, or about both channels,
\* or about the login of a user with a second factor, or about the app of such a user,
\* or about the links.  A second request begins while the first one runs.
Kinds == CASE scene = "address" -> {"add", "verify"}
           [] scene = "both"    -> {"add", "verify"}
           [] scene = "login"   -> {"add", "verify", "enable", "disable", "challenge",
                                    "verifyLogin"}
           [] scene = "app"     -> {"setupTotp", "verifyTotp", "challenge", "verifyLogin"}
           [] scene = "links"   -> {"forgot", "resend", "reset", "confirm"}

Begins(r) == req[r].kind = None /\ req'[r].kind # None

Scene ==
    \A r \in Requests : Begins(r) =>
        /\ req'[r].kind \in Kinds
        /\ req'[r].to \in (IF scene = "address" THEN Emails ELSE {e1} \cup Phones) \cup {None}
        /\ scene # "both" => req'[r].channel # "phone"
        /\ r # r1 => req[r1].kind # None

NewUser == [mfa_email |-> None, mfa_phone |-> None, mfa_email_verified |-> FALSE,
            mfa_phone_verified |-> FALSE, mfa_enabled |-> FALSE,
            totp_secret |-> None, totp_verified |-> FALSE, email_verified |-> FALSE]

MCInit ==
    /\ scene \in {"address", "both", "login", "app", "links"}
    /\ user = CASE scene = "login" -> [NewUser EXCEPT !.mfa_phone = n1,
                             !.mfa_phone_verified = TRUE, !.mfa_enabled = TRUE]
                 [] scene = "app" -> [NewUser EXCEPT !.mfa_enabled = TRUE]
                 [] OTHER -> NewUser
    /\ HistoryInit

MCNext == HistoryNext /\ Scene /\ UNCHANGED scene

MCSpec == MCInit /\ [][MCNext]_mcvars
=============================================================================
