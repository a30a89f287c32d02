--------------------------- MODULE SerialSessions ---------------------------
(***************************************************************************)
(* Sessions with a history variable, for what holds as long as requests do *)
(* not overlap.                                                            *)
(***************************************************************************)
EXTENDS Sessions

VARIABLE overlapped  \* whether two requests have been in progress at the same time

svars == <<vars, overlapped>>

Overlap == \E r, s \in Requests : r # s /\ req[r].pc # "idle" /\ req[s].pc # "idle"

SerialInit == Init /\ overlapped = FALSE
SerialNext == Next /\ overlapped' = (overlapped \/ Overlap')
SerialSpec == SerialInit /\ [][SerialNext]_svars

\* reset_password: "Revoke all active sessions for the user".  Without overlap no
\* session that was opened with an earlier password is still good.
SerialResetEndsOldSessions == overlapped \/ ResetEndsOldSessions

\* Without overlap a refresh token buys one new pair of tokens and no more, also
\* when the request that exchanged it fails or its session is revoked.
SerialRefreshTokenUsedOnce ==
    [][\A r \in Requests :
          ~overlapped' /\ req[r].pc = "rotate" /\ req'[r].status = 200
              => req[r].tok \notin exchanged]_svars
=============================================================================
