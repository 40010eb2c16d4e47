-------------------------------- MODULE MCApi --------------------------------
(***************************************************************************)
(* What one API process and its Bee Engine keep in memory, in one run: the *)
(* parse uploads, the browser sessions of both, and the render jobs.       *)
(* Their tables share no key and no lock, so the run looks at the traffic  *)
(* of one of them at a time instead of at the product of all three.        *)
(***************************************************************************)
EXTENDS ParseUploads, BrowserSessions, EngineJobs

VARIABLE traffic

MCDocuments ==
    {[pdf |-> TRUE, readable |-> TRUE, texts |-> t, scans |-> {1, 2} \ t] :
        t \in {{}, {1}, {1, 2}}}
    \cup {[pdf |-> p, readable |-> FALSE, texts |-> {1}, scans |-> {}] : p \in BOOLEAN}

MCOptions ==
    {[accepted |-> a, mode |-> m, onlyMarkdown |-> TRUE] :
        a \in BOOLEAN, m \in {"fast", "auto", "ocr"}}
    \cup {[accepted |-> TRUE, mode |-> "auto", onlyMarkdown |-> FALSE]}

vars == <<traffic, uploadVars, sessionVars, engineJobVars>>

MCInit ==
    /\ traffic \in {"uploads", "sessions", "renders"}
    /\ UploadsInit /\ SessionsInit /\ EngineInit

MCNext ==
    /\ UNCHANGED traffic
    /\ \/ traffic = "uploads" /\ UploadsNext
          /\ UNCHANGED <<sessionVars, engineJobVars>>
       \/ traffic = "sessions" /\ SessionsNext
          /\ UNCHANGED <<uploadVars, engineJobVars>>
       \/ traffic = "renders" /\ EngineNext
          /\ UNCHANGED <<uploadVars, sessionVars>>

(* Where there is no traffic, the fair actions are never enabled.          *)
MCSpec == MCInit /\ [][MCNext]_vars /\ SessionsFairness /\ EngineFairness
=============================================================================
