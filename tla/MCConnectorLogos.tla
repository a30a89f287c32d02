-------------------------- MODULE MCConnectorLogos --------------------------
(* SerialLogos with bounds on what a behaviour is about, for model checking. *)
EXTENDS SerialLogos, TLC

CONSTANTS n1, n2, n3, s1, s2, i1, i2, r1

\* _slugify maps n1 and n2 to the same slug.
MCSlugOf == n1 :> s1 @@ n2 :> s1 @@ n3 :> s2
MCExtOf == i1 :> "png" @@ i2 :> "svg"
MCDefaults == <<n1>>

\* Bounds: r1 alone with every image, name and operation, and undisturbed; or all
\* requests, over a storage that may be faulty, with the large image and the names of one
\* slug, and without what only concerns the files.
Scene ==
    IF undisturbed
    THEN undisturbed' /\ \A r \in Requests \ {r1} : req'[r].pc = "idle"
    ELSE \A r \in Requests :
            /\ req'[r].image # i1
            /\ req'[r].kind \notin {"upload", "clear"}
            /\ req'[r].object = None \/ req'[r].object.name # n3

MCSpec == HistoryInit /\ [][HistoryNext /\ Scene]_hvars /\ Fairness
=============================================================================
