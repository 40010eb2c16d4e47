------------------------------ MODULE JobFinish -----------------------------
(***************************************************************************)
(* The transactions that end a task, finish_success and finish_failure of  *)
(* apps/api/src/crawl.rs, statement by statement for one crawl job.        *)
(* CrawlQueue takes each as one step; this module shows that under READ    *)
(* COMMITTED the lock on the job's row makes it one.                       *)
(*                                                                         *)
(* A statement sees the rows committed before it and those its own         *)
(* transaction wrote.  A claim passes over a job whose row is locked, and  *)
(* a cancel and a delete wait for it.                                      *)
(***************************************************************************)
EXTENDS Naturals, FiniteSets

CONSTANTS
    Pages,      \* the urls a crawl_tasks row of the job can have
    Seed,       \* the url the crawl starts from
    LinksOf,    \* the links a scrape of a page may find
    DedupKey,   \* the dedup_key of a page
    Finishers,  \* worker processes
    PageLimit,  \* page_limit
    NoPage, NoWorker

ASSUME FinishAssumption ==
    /\ IsFiniteSet(Pages) /\ Seed \in Pages
    /\ LinksOf \in [Pages -> SUBSET Pages]
    /\ PageLimit \in Nat \ {0}
    /\ NoPage \notin Pages /\ NoWorker \notin Finishers

VARIABLES
    status,     \* crawl_jobs.status, or "absent" / "deleted"
    cancelled,  \* crawl_jobs.cancel_requested
    rows,       \* crawl_tasks.status per page; "page" is completed, "error" failed
    token,      \* crawl_tasks.lease_token
    lock,       \* the transaction that holds the lock on the job's row
    at,         \* how far each worker's task is
    page,       \* the page of the worker's ClaimedTask
    tx          \* the worker's open transaction

finishVars == <<status, cancelled, rows, token, lock, at, page, tx>>

(* A transaction: the outcome it records ("again" is a failure with a      *)
(* retry left), the links it was given and those not tried yet, what it    *)
(* wrote ("same" is a row it left alone), the cancel_requested it read,    *)
(* and whether it completed the job.                                       *)
NoTx == [result |-> "error", links |-> {}, left |-> {}, own |-> [p \in Pages |-> "same"],
         stopped |-> FALSE, drains |-> FALSE]

View(w) == [p \in Pages |-> IF tx[w].own[p] = "same" THEN rows[p] ELSE tx[w].own[p]]

Found(table) == {p \in Pages : table[p] # "absent"}
Open(table) == {p \in Pages : table[p] \in {"queued", "active"}}

FinishInit ==
    /\ status = "absent" /\ cancelled = FALSE
    /\ rows = [p \in Pages |-> "absent"]
    /\ token = [p \in Pages |-> NoWorker]
    /\ lock = NoWorker
    /\ at = [w \in Finishers |-> "idle"]
    /\ page = [w \in Finishers |-> NoPage]
    /\ tx = [w \in Finishers |-> NoTx]

-----------------------------------------------------------------------------
(* The statements of others, each a transaction of its own.                *)

Enqueue ==
    /\ status = "absent"
    /\ status' = "queued"
    /\ rows' = [rows EXCEPT ![Seed] = "queued"]
    /\ UNCHANGED <<cancelled, token, lock, at, page, tx>>

Cancel ==
    /\ lock = NoWorker /\ status \in {"queued", "scraping"}
    /\ status' = "cancelled" /\ cancelled' = TRUE
    /\ UNCHANGED <<rows, token, lock, at, page, tx>>

Cleanup ==
    /\ lock = NoWorker /\ status \in {"completed", "cancelled"}
    /\ status' = "deleted" /\ cancelled' = FALSE
    /\ rows' = [p \in Pages |-> "absent"]
    /\ token' = [p \in Pages |-> NoWorker]
    /\ UNCHANGED <<lock, at, page, tx>>

(* A queued task, or an active one whose lease may have lapsed. *)
Claim(w, p) ==
    /\ at[w] = "idle"
    /\ lock = NoWorker /\ status \in {"queued", "scraping"} /\ ~cancelled
    /\ rows[p] \in {"queued", "active"}
    /\ status' = "scraping"
    /\ rows' = [rows EXCEPT ![p] = "active"]
    /\ token' = [token EXCEPT ![p] = w]
    /\ at' = [at EXCEPT ![w] = "scraping"]
    /\ page' = [page EXCEPT ![w] = p]
    /\ UNCHANGED <<cancelled, lock, tx>>

-----------------------------------------------------------------------------
(* finish_success ("page") and finish_failure (the others).                *)

BadMayLockShared == TRUE

(* SELECT ... FOR UPDATE waits for the transaction that has the row. *)
MayLock == lock = NoWorker

LockJob(w, result, links) ==
    /\ at[w] = "scraping" /\ status # "deleted" /\ MayLock
    /\ links \subseteq LinksOf[page[w]] /\ (result # "page" => links = {})
    /\ lock' = w
    /\ at' = [at EXCEPT ![w] = "locked"]
    /\ tx' = [tx EXCEPT ![w] = [NoTx EXCEPT !.result = result, !.links = links,
                                            !.left = links, !.stopped = cancelled]]
    /\ UNCHANGED <<status, cancelled, rows, token, page>>

(* The transaction of w is over, and so is its task. *)
Leave(w) ==
    /\ lock' = IF lock = w THEN NoWorker ELSE lock
    /\ at' = [at EXCEPT ![w] = "idle"]
    /\ page' = [page EXCEPT ![w] = NoPage]
    /\ tx' = [tx EXCEPT ![w] = NoTx]

Outcome(w) ==
    IF tx[w].result # "again" THEN tx[w].result
    ELSE IF tx[w].stopped THEN "error" ELSE "queued"

(* WHERE lease_token = mine AND status = 'active'; without a row both      *)
(* functions end having changed nothing.                                   *)
UpdateTask(w) ==
    /\ at[w] = "locked"
    /\ IF token[page[w]] = w /\ rows[page[w]] = "active"
       THEN /\ tx' = [tx EXCEPT ![w].own[page[w]] = Outcome(w)]
            /\ at' = [at EXCEPT ![w] = "inserting"]
            /\ UNCHANGED <<lock, page>>
       ELSE Leave(w)
    /\ UNCHANGED <<status, cancelled, rows, token>>

BadHasRoomOneLess(w) == Cardinality(Found(View(w))) + 1 < PageLimit

HasRoom(w) == Cardinality(Found(View(w))) < PageLimit

(* ON CONFLICT: on the url, or on the dedup_key. *)
Taken(table, l) == \E p \in Found(table) : DedupKey[p] = DedupKey[l]

(* One turn of the loop over the links. *)
InsertLink(w, l) ==
    /\ at[w] = "inserting" /\ ~tx[w].stopped /\ l \in tx[w].left
    /\ tx' = [tx EXCEPT ![w].left = @ \ {l},
                        ![w].own[l] = IF HasRoom(w) /\ ~Taken(View(w), l)
                                      THEN "queued" ELSE @]
    /\ UNCHANGED <<status, cancelled, rows, token, lock, at, page>>

(* complete_if_drained. *)
Drain(w) ==
    /\ at[w] = "inserting"
    /\ tx[w].stopped \/ tx[w].left = {}
    /\ tx' = [tx EXCEPT ![w].drains = ~cancelled /\ Open(View(w)) = {}]
    /\ at' = [at EXCEPT ![w] = "drained"]
    /\ UNCHANGED <<status, cancelled, rows, token, lock, page>>

Commit(w) ==
    /\ at[w] = "drained"
    /\ rows' = View(w)
    /\ status' = IF tx[w].drains THEN "completed" ELSE status
    /\ Leave(w)
    /\ UNCHANGED <<cancelled, token>>

(* The process is killed, or an error (the job is gone, a statement fails) *)
(* ends it: an open transaction is rolled back.                            *)
RollBack(w) ==
    /\ at[w] # "idle"
    /\ Leave(w)
    /\ UNCHANGED <<status, cancelled, rows, token>>

EndTask(w) ==
    \/ \E result \in {"page", "error", "again"}, links \in SUBSET Pages :
          LockJob(w, result, links)
    \/ UpdateTask(w)
    \/ \E l \in Pages : InsertLink(w, l)
    \/ Drain(w)
    \/ Commit(w)

FinishNext ==
    \/ Enqueue
    \/ Cancel
    \/ Cleanup
    \/ \E w \in Finishers : EndTask(w) \/ RollBack(w) \/ \E p \in Pages : Claim(w, p)

FinishSpec == FinishInit /\ [][FinishNext]_finishVars

-----------------------------------------------------------------------------
(* Properties.                                                             *)

OneJob == {"job"}

(* The outcomes a client reads from the rows. *)
Seen(table) ==
    [p \in Pages |-> CASE table[p] = "absent" -> "none"
                       [] table[p] \in {"queued", "active"} -> "pending"
                       [] OTHER -> table[p]]

Client == INSTANCE CrawlJob WITH
    Jobs <- OneJob,
    JobOf <- [p \in Pages |-> "job"],
    PageLimit <- [j \in OneJob |-> PageLimit],
    phase <- [j \in OneJob |-> status],
    outcome <- Seen(rows)

(* Workers that finish tasks of one job at once, with links to insert and  *)
(* room for fewer, lose leases, retry, are killed between two statements   *)
(* or meet a cancel, change the job a client sees as if each outcome, its  *)
(* links and the end of the job were recorded in one step: never over      *)
(* page_limit, completed with the last outcome and not before.             *)
FinishesAsOne == Client!Spec

(* A page recorded by a job that is not cancelled leaves none of its links *)
(* out, unless the link's key has a row already or the job has all the     *)
(* pages page_limit allows, whoever finishes tasks at the same time.       *)
LinksKept ==
    [][\A w \in Finishers :
          (/\ at[w] # "idle" /\ ~cancelled
           /\ rows[page[w]] = "active" /\ rows'[page[w]] = "page")
          => \/ \A l \in tx[w].links : Taken(rows', l)
             \/ Cardinality(Found(rows')) = PageLimit]_finishVars
=============================================================================
