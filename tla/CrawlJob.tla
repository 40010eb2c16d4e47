------------------------------ MODULE CrawlJob ------------------------------
(***************************************************************************)
(* What a crawl or batch job promises to whoever polls it, without queue,  *)
(* leases, workers or retries: pages are found, each gets one outcome, the *)
(* job is completed exactly when no page is pending, and cancelling stops  *)
(* discovery but lets a page already in flight record its outcome.         *)
(***************************************************************************)
EXTENDS Naturals, FiniteSets

CONSTANTS Jobs, Pages, JobOf, PageLimit

VARIABLES
    phase,   \* the job status a client sees, "absent" before, "deleted" after
    outcome  \* per page: "none" (not found), "pending", "page" or "error"

jobView == <<phase, outcome>>

PagesOf(j) == {p \in Pages : JobOf[p] = j}
Unfound(j) == {p \in PagesOf(j) : outcome[p] = "none"}

Total(out, j) == Cardinality({p \in Pages : JobOf[p] = j /\ out[p] # "none"})
Pending(out, j) == \E p \in Pages : JobOf[p] = j /\ out[p] = "pending"

Init ==
    /\ phase = [j \in Jobs |-> "absent"]
    /\ outcome = [p \in Pages |-> "none"]

(* A request is accepted with the pages it names. *)
Accept(j, named) ==
    /\ phase[j] = "absent"
    /\ named # {} /\ named \subseteq PagesOf(j)
    /\ phase' = [phase EXCEPT ![j] = "queued"]
    /\ outcome' = [p \in Pages |-> IF p \in named THEN "pending" ELSE outcome[p]]
    /\ Total(outcome', j) <= PageLimit[j]

Start(j) ==
    /\ phase[j] = "queued"
    /\ phase' = [phase EXCEPT ![j] = "scraping"]
    /\ UNCHANGED outcome

(* p gets its outcome and reveals pages that were not known.  The last     *)
(* outcome completes the job.                                              *)
Record(p, result, fresh) ==
    LET j == JobOf[p] IN
    /\ phase[j] \in {"scraping", "cancelled"}
    /\ outcome[p] = "pending"
    /\ fresh \subseteq Unfound(j)
    /\ fresh # {} => result = "page" /\ phase[j] = "scraping"
    /\ outcome' = [q \in Pages |-> IF q = p THEN result
                                   ELSE IF q \in fresh THEN "pending" ELSE outcome[q]]
    /\ Total(outcome', j) <= PageLimit[j]
    /\ phase' = IF phase[j] = "scraping" /\ ~Pending(outcome', j)
                THEN [phase EXCEPT ![j] = "completed"] ELSE phase

Cancel(j) ==
    /\ phase[j] \in {"queued", "scraping"}
    /\ phase' = [phase EXCEPT ![j] = "cancelled"]
    /\ UNCHANGED outcome

(* Retention ended: the jobs and their pages are gone. *)
Forget(gone) ==
    /\ gone # {} /\ \A j \in gone : phase[j] \in {"completed", "cancelled"}
    /\ phase' = [j \in Jobs |-> IF j \in gone THEN "deleted" ELSE phase[j]]
    /\ outcome' = [p \in Pages |-> IF JobOf[p] \in gone THEN "none" ELSE outcome[p]]

Next ==
    \/ \E j \in Jobs : Start(j) \/ Cancel(j)
    \/ \E j \in Jobs : \E named \in SUBSET PagesOf(j) : Accept(j, named)
    \/ \E p \in {q \in Pages : outcome[q] = "pending"}, result \in {"page", "error"} :
          \E fresh \in SUBSET Unfound(JobOf[p]) : Record(p, result, fresh)
    \/ \E gone \in SUBSET Jobs : Forget(gone)

Spec == Init /\ [][Next]_jobView
=============================================================================
