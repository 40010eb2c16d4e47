----------------------------- MODULE CrawlQueue -----------------------------
(***************************************************************************)
(* The crawl and batch-scrape queue of apps/api/src/crawl.rs: API          *)
(* processes accept and cancel jobs, worker processes claim tasks under a  *)
(* 90 second lease, scrape them, record the outcome, insert the links they *)
(* found and send webhook events.  Everything they share lives in the      *)
(* PostgreSQL tables crawl_jobs and crawl_tasks.  (How a request comes to   *)
(* be accepted, with its idempotency key, is the subject of JobRequests.)  *)
(*                                                                         *)
(* An action is one SQL transaction or one step of a worker between two of *)
(* them.  The claim statement alone is two actions: under READ COMMITTED   *)
(* it selects candidates in a snapshot, locks one later, and re-evaluates  *)
(* for it only what depends on the two rows it locked.                     *)
(*                                                                         *)
(* Operators named Bad... are plausible mistakes in the operator that      *)
(* follows them; no action uses them.  Swapping one in must break a        *)
(* property (see README.md).                                               *)
(*                                                                         *)
(* Time is abstracted to the comparisons the SQL makes with now(): a lease *)
(* has lapsed or not, a retry is due or not, a delayed job is cooling down *)
(* or not, a job has outlived its retention or not.                        *)
(***************************************************************************)
EXTENDS Naturals, FiniteSets

CONSTANTS
    Jobs,            \* crawl_jobs ids; an id is used once
    Pages,           \* the (crawl_id, url) pairs a crawl_tasks row can have
    JobOf,           \* the crawl_id of a page
    DedupKey,        \* the dedup_key of a page
    Workers,         \* worker processes
    Batches,         \* the jobs whose job_type is batch_scrape
    Delayed,         \* the jobs whose delay_ms is positive
    Hooked,          \* the jobs with a webhook
    PageLimit,       \* page_limit of a crawl, cap on the URLs of a batch
    MaxDepth,        \* max_depth
    MaxConcurrency,  \* max_concurrency
    MaxRetries,      \* max_retries
    NoPage, NoWorker

ASSUME QueueAssumption ==
    /\ IsFiniteSet(Pages) /\ IsFiniteSet(Workers)
    /\ JobOf \in [Pages -> Jobs]
    /\ Batches \subseteq Jobs /\ Delayed \subseteq Jobs /\ Hooked \subseteq Jobs
    /\ PageLimit \in [Jobs -> Nat \ {0}]
    /\ MaxDepth \in [Jobs -> Nat]
    /\ MaxConcurrency \in [Jobs -> Nat \ {0}]
    /\ MaxRetries \in [Jobs -> Nat]
    /\ NoPage \notin Pages /\ NoWorker \notin Workers

VARIABLES
    status,     \* crawl_jobs.status, or "absent" / "deleted"
    cancelled,  \* the jobs with cancel_requested
    started,    \* the jobs with webhook_started_at
    completed,  \* the jobs with webhook_completed_at
    cooling,    \* the jobs with last_task_started_at + delay > now()
    expired,    \* the jobs with expires_at <= now()
    tasks,      \* crawl_tasks
    pc,         \* where each worker is in run_worker_forever / process_task
    held,       \* the page of the worker's ClaimedTask
    candidates, \* the rows a running claim statement may still lock
    older,      \* <<v, w>>: v's running claim has an earlier now() than w's
    received    \* the webhook events that reached their receiver

jobVars == <<status, cancelled, started, completed, cooling, expired>>
claimVars == <<candidates, older>>
vars == <<jobVars, tasks, pc, held, claimVars, received>>

-----------------------------------------------------------------------------
(* Rows and the questions the SQL asks about them.                         *)

Blank == [status |-> "absent", depth |-> 0, attempts |-> 0, token |-> NoWorker,
          lapsed |-> FALSE, due |-> FALSE, error |-> FALSE, notified |-> FALSE]

QueuedRow(depth) == [Blank EXCEPT !.status = "queued", !.depth = depth, !.due = TRUE]

(* What the UPDATEs make of a row.  lease_token survives the outcome.      *)
Claimed(row, w, n) ==
    [row EXCEPT !.status = "active", !.attempts = n, !.token = w, !.lapsed = FALSE]
Succeeded(row) == [row EXCEPT !.status = "completed", !.lapsed = FALSE]
Requeued(row) ==
    [row EXCEPT !.status = "queued", !.lapsed = FALSE, !.due = FALSE, !.error = TRUE]
Failed(row) == [row EXCEPT !.status = "failed", !.lapsed = FALSE, !.error = TRUE]
Notified(row) == [row EXCEPT !.notified = TRUE]
LeaseLost(row) == [row EXCEPT !.lapsed = TRUE]
RetryDue(row) == [row EXCEPT !.due = TRUE]

PagesOf(j) == {p \in Pages : JobOf[p] = j}
Found(j) == {p \in PagesOf(j) : tasks[p].status # "absent"}
Open(row) == row.status \in {"queued", "active"}
LiveLeases(j) == {p \in PagesOf(j) : tasks[p].status = "active" /\ ~tasks[p].lapsed}

BadClaimableUncapped(p) ==
    /\ status[JobOf[p]] \in {"queued", "scraping"} /\ JobOf[p] \notin cooling
    /\ \/ tasks[p].status = "queued" /\ tasks[p].due
       \/ tasks[p].status = "active" /\ tasks[p].lapsed

BadClaimableNoReclaim(p) ==
    /\ status[JobOf[p]] \in {"queued", "scraping"} /\ JobOf[p] \notin cooling
    /\ tasks[p].status = "queued" /\ tasks[p].due
    /\ Cardinality(LiveLeases(JobOf[p])) < MaxConcurrency[JobOf[p]]

(* The WHERE clause of the claim, in the statement's own snapshot.         *)
Claimable(p) ==
    LET j == JobOf[p] IN
    /\ status[j] \in {"queued", "scraping"} /\ j \notin cancelled
    /\ \/ tasks[p].status = "queued" /\ tasks[p].due
       \/ tasks[p].status = "active" /\ tasks[p].lapsed
    /\ j \notin cooling
    /\ Cardinality(LiveLeases(j)) < MaxConcurrency[j]

BadAfterClaimNoRecheck(v, w, p) == candidates[v] \ {p}

(* What remains of v's candidates once w has claimed p.  v finds the row   *)
(* of p changed, and the row of its job changed too: the recheck compares  *)
(* w's now(), the new last_task_started_at, with v's own now(), and fails  *)
(* when v began first or the job has a delay (which is assumed longer than *)
(* a claim statement runs).  The COUNT is not part of the recheck.         *)
AfterClaim(v, w, p) ==
    IF JobOf[p] \in Delayed \/ <<v, w>> \in older
    THEN candidates[v] \ PagesOf(JobOf[p])
    ELSE candidates[v] \ {p}

(* attempts + 1; only attempts <= max_retries is ever asked, so the count  *)
(* stops at max_retries + 1.                                               *)
NextAttempt(p) ==
    IF tasks[p].attempts > MaxRetries[JobOf[p]]
    THEN tasks[p].attempts
    ELSE tasks[p].attempts + 1

BadOwnsLeaseAnyToken(w) == tasks[held[w]].status = "active"

(* lease_token = mine AND status = 'active'.  A token is a fresh UUID and  *)
(* a process holds one task at a time, so the process names its token.     *)
OwnsLease(w) == tasks[held[w]].token = w /\ tasks[held[w]].status = "active"

(* The discovered links that insert a row: the others conflict on the URL  *)
(* or the dedup_key, or come after page_limit was reached.                 *)
CanInsert(j, fresh) ==
    /\ \A p \in fresh : tasks[p].status = "absent"
    /\ \A p \in fresh, q \in fresh \cup Found(j) :
          p # q => DedupKey[p] # DedupKey[q]
    /\ Cardinality(Found(j)) + Cardinality(fresh) <= PageLimit[j]

BadMayDiscoverAfterCancel(p) ==
    JobOf[p] \notin Batches /\ tasks[p].depth < MaxDepth[JobOf[p]]

(* map_site runs only for a crawl below its depth limit, and the links are *)
(* inserted only if the job was not cancelled meanwhile.                   *)
MayDiscover(p) ==
    /\ JobOf[p] \notin Batches
    /\ tasks[p].depth < MaxDepth[JobOf[p]]
    /\ JobOf[p] \notin cancelled

BadDrainedBeforeInsert(j, rows) ==
    /\ j \notin cancelled
    /\ \A p \in PagesOf(j) : Open(rows[p]) => tasks[p].status = "absent"

BadDrainedCancelled(j, rows) == \A p \in PagesOf(j) : ~Open(rows[p])

(* complete_if_drained, on the rows the transaction is about to commit.    *)
Drained(j, rows) == j \notin cancelled /\ \A p \in PagesOf(j) : ~Open(rows[p])

StatusAfter(j, rows) ==
    IF Drained(j, rows) THEN [status EXCEPT ![j] = "completed"] ELSE status

MayRetry(p, retryable) ==
    /\ retryable
    /\ JobOf[p] \notin cancelled
    /\ tasks[p].attempts <= MaxRetries[JobOf[p]]

-----------------------------------------------------------------------------
Untouched ==
    /\ cancelled = {} /\ started = {} /\ completed = {}
    /\ cooling = {} /\ expired = {}
    /\ tasks = [p \in Pages |-> Blank]
    /\ pc = [w \in Workers |-> "idle"]
    /\ held = [w \in Workers |-> NoPage]
    /\ candidates = [w \in Workers |-> {}]
    /\ older = {}
    /\ received = {}

Init == status = [j \in Jobs |-> "absent"] /\ Untouched

-----------------------------------------------------------------------------
(* The API.  A refused request rolls back and changes nothing.             *)

EnqueueCrawl(j, seed) ==
    /\ status[j] = "absent" /\ j \notin Batches /\ JobOf[seed] = j
    /\ status' = [status EXCEPT ![j] = "queued"]
    /\ tasks' = [tasks EXCEPT ![seed] = QueuedRow(0)]
    /\ UNCHANGED <<cancelled, started, completed, cooling, expired,
                   pc, held, claimVars, received>>

EnqueueBatch(j, urls) ==
    /\ status[j] = "absent" /\ j \in Batches
    /\ urls # {} /\ Cardinality(urls) <= PageLimit[j]
    /\ status' = [status EXCEPT ![j] = "queued"]
    /\ tasks' = [p \in Pages |-> IF p \in urls THEN QueuedRow(0) ELSE tasks[p]]
    /\ UNCHANGED <<cancelled, started, completed, cooling, expired,
                   pc, held, claimVars, received>>

Cancel(j) ==
    /\ status[j] \in {"queued", "scraping"}
    /\ status' = [status EXCEPT ![j] = "cancelled"]
    /\ cancelled' = cancelled \cup {j}
    /\ candidates' = [w \in Workers |-> candidates[w] \ PagesOf(j)]
    /\ UNCHANGED <<started, completed, cooling, expired,
                   tasks, pc, held, older, received>>

-----------------------------------------------------------------------------
(* The passing of time.                                                    *)

LeaseLapses(p) ==
    /\ tasks[p].status = "active" /\ ~tasks[p].lapsed
    /\ tasks' = [tasks EXCEPT ![p] = LeaseLost(@)]
    /\ UNCHANGED <<jobVars, pc, held, claimVars, received>>

RetryFallsDue(p) ==
    /\ tasks[p].status = "queued" /\ ~tasks[p].due
    /\ tasks' = [tasks EXCEPT ![p] = RetryDue(@)]
    /\ UNCHANGED <<jobVars, pc, held, claimVars, received>>

DelayElapses(j) ==
    /\ j \in cooling
    /\ cooling' = cooling \ {j}
    /\ UNCHANGED <<status, cancelled, started, completed, expired,
                   tasks, pc, held, claimVars, received>>

RetentionEnds(j) ==
    /\ status[j] \notin {"absent", "deleted"} /\ j \notin expired
    /\ expired' = expired \cup {j}
    /\ UNCHANGED <<status, cancelled, started, completed, cooling,
                   tasks, pc, held, claimVars, received>>

-----------------------------------------------------------------------------
(* A worker: run_worker_forever around process_task.                       *)

Goto(w, label) == pc' = [pc EXCEPT ![w] = label]

(* No claim of w is running any more. *)
EndClaim(w) == older' = {pair \in older : pair[1] # w /\ pair[2] # w}

Cleanup(w) ==
    LET gone == {j \in expired : status[j] \in {"completed", "cancelled"}} IN
    /\ pc[w] = "idle" /\ gone # {}
    /\ status' = [j \in Jobs |-> IF j \in gone THEN "deleted" ELSE status[j]]
    /\ tasks' = [p \in Pages |-> IF JobOf[p] \in gone THEN Blank ELSE tasks[p]]
    /\ cancelled' = cancelled \ gone
    /\ started' = started \ gone /\ completed' = completed \ gone
    /\ cooling' = cooling \ gone /\ expired' = expired \ gone
    /\ UNCHANGED <<pc, held, claimVars, received>>

BeginClaim(w) ==
    /\ pc[w] = "idle"
    /\ candidates' = [candidates EXCEPT ![w] = {p \in Pages : Claimable(p)}]
    /\ older' = older \cup {<<v, w>> : v \in {x \in Workers : pc[x] = "claiming"}}
    /\ Goto(w, "claiming")
    /\ UNCHANGED <<jobVars, tasks, held, received>>

ClaimTask(w, p) ==
    LET j == JobOf[p] IN
    /\ pc[w] = "claiming" /\ p \in candidates[w]
    /\ tasks' = [tasks EXCEPT ![p] = Claimed(@, w, NextAttempt(p))]
    /\ status' = [status EXCEPT ![j] = "scraping"]
    /\ cooling' = cooling \cup ({j} \cap Delayed)
    /\ candidates' = [v \in Workers |-> IF v = w THEN {} ELSE AfterClaim(v, w, p)]
    /\ EndClaim(w)
    /\ held' = [held EXCEPT ![w] = p]
    /\ Goto(w, "claimed")
    /\ UNCHANGED <<cancelled, started, completed, expired, received>>

(* No candidate is left, or the ones left are locked (SKIP LOCKED).        *)
ClaimNothing(w) ==
    /\ pc[w] = "claiming"
    /\ candidates' = [candidates EXCEPT ![w] = {}]
    /\ EndClaim(w)
    /\ Goto(w, "idle")
    /\ UNCHANGED <<jobVars, tasks, held, received>>

(* The process exits: on any error of run_worker_forever, or killed.       *)
Exit(w) ==
    /\ held' = [held EXCEPT ![w] = NoPage]
    /\ candidates' = [candidates EXCEPT ![w] = {}]
    /\ EndClaim(w)
    /\ Goto(w, "down")
    /\ UNCHANGED <<jobVars, tasks, received>>

BadDoneKeepsTask(w) == Goto(w, "idle") /\ UNCHANGED held

Done(w) == held' = [held EXCEPT ![w] = NoPage] /\ Goto(w, "idle")

ReadOptions(w) ==
    LET j == JobOf[held[w]] IN
    /\ pc[w] = "claimed" /\ status[j] # "deleted"
    /\ IF j \in cancelled THEN Done(w) ELSE Goto(w, "starting") /\ UNCHANGED held
    /\ UNCHANGED <<jobVars, tasks, claimVars, received>>

(* fetch_one finds no job row, in options() or at the head of a finish.    *)
JobGone(w) ==
    /\ pc[w] \in {"claimed", "scraping"} /\ status[JobOf[held[w]]] = "deleted"
    /\ Exit(w)

(* The row that claim_job_webhook("started") updates. *)
StartedUnclaimed(j) == j \in Hooked /\ j \notin started /\ status[j] # "deleted"

ClaimStarted(w) ==
    LET j == JobOf[held[w]] IN
    /\ pc[w] = "starting"
    /\ IF StartedUnclaimed(j)
       THEN started' = started \cup {j} /\ Goto(w, "postStarted")
       ELSE UNCHANGED started /\ Goto(w, "scraping")
    /\ UNCHANGED <<status, cancelled, completed, cooling, expired,
                   tasks, held, claimVars, received>>

(* A delivery may fail; the result of deliver() is dropped.                *)
Post(event) == received' \in {received, received \cup {event}}

PostStarted(w) ==
    /\ pc[w] = "postStarted"
    /\ Post(<<"started", JobOf[held[w]]>>)
    /\ Goto(w, "scraping")
    /\ UNCHANGED <<jobVars, tasks, held, claimVars>>

(* finish_success, with the scrape and the map_site before it.  `fresh`    *)
(* are the links that insert a row.                                        *)
FinishSuccess(w, fresh) ==
    LET p == held[w]
        j == JobOf[p]
        rows == [q \in Pages |-> IF q = p THEN Succeeded(tasks[p])
                                 ELSE IF q \in fresh THEN QueuedRow(tasks[p].depth + 1)
                                 ELSE tasks[q]]
    IN
    /\ pc[w] = "scraping" /\ status[j] # "deleted"
    /\ IF OwnsLease(w)
       THEN /\ fresh # {} => MayDiscover(p)
            /\ CanInsert(j, fresh)
            /\ tasks' = rows
            /\ status' = StatusAfter(j, rows)
            /\ candidates' = [v \in Workers |-> candidates[v] \ {p}]
       ELSE /\ fresh = {}
            /\ UNCHANGED <<tasks, status, candidates>>
    /\ Goto(w, "pageEvent")
    /\ UNCHANGED <<cancelled, started, completed, cooling, expired,
                   held, older, received>>

(* finish_failure: the scrape failed, or robots.txt or the path filters    *)
(* exclude the page (not retryable).                                       *)
FinishFailure(w, retryable) ==
    LET p == held[w]
        j == JobOf[p]
        rows == [tasks EXCEPT ![p] = IF MayRetry(p, retryable) THEN Requeued(@) ELSE Failed(@)]
    IN
    /\ pc[w] = "scraping" /\ status[j] # "deleted"
    /\ IF OwnsLease(w)
       THEN /\ tasks' = rows
            /\ status' = StatusAfter(j, rows)
            /\ candidates' = [v \in Workers |-> candidates[v] \ {p}]
       ELSE UNCHANGED <<tasks, status, candidates>>
    /\ Goto(w, "pageEvent")
    /\ UNCHANGED <<cancelled, started, completed, cooling, expired,
                   held, older, received>>

BadPageUnclaimedAgain(p) ==
    JobOf[p] \in Hooked /\ tasks[p].status \in {"completed", "failed"}

(* The row that claim_page_webhook updates: the lease token is not asked.  *)
PageUnclaimed(p) ==
    /\ JobOf[p] \in Hooked /\ ~tasks[p].notified
    /\ tasks[p].status \in {"completed", "failed"}

ClaimPage(w) ==
    LET p == held[w] IN
    /\ pc[w] = "pageEvent"
    /\ IF PageUnclaimed(p)
       THEN tasks' = [tasks EXCEPT ![p] = Notified(@)] /\ Goto(w, "postPage")
       ELSE UNCHANGED tasks /\ Goto(w, "jobEvent")
    /\ UNCHANGED <<jobVars, held, claimVars, received>>

PostPage(w) ==
    /\ pc[w] = "postPage"
    /\ Post(<<"page", held[w]>>)
    /\ Goto(w, "jobEvent")
    /\ UNCHANGED <<jobVars, tasks, held, claimVars>>

BadCompletedUnclaimedEarly(j) == j \in Hooked /\ j \notin completed

(* The row that claim_job_webhook("completed") updates. *)
CompletedUnclaimed(j) ==
    j \in Hooked /\ j \notin completed /\ status[j] = "completed"

ClaimCompleted(w) ==
    LET j == JobOf[held[w]] IN
    /\ pc[w] = "jobEvent"
    /\ IF CompletedUnclaimed(j)
       THEN completed' = completed \cup {j} /\ Goto(w, "postCompleted") /\ UNCHANGED held
       ELSE UNCHANGED completed /\ Done(w)
    /\ UNCHANGED <<status, cancelled, started, cooling, expired,
                   tasks, claimVars, received>>

PostCompleted(w) ==
    /\ pc[w] = "postCompleted"
    /\ Post(<<"completed", JobOf[held[w]]>>)
    /\ Done(w)
    /\ UNCHANGED <<jobVars, tasks, claimVars>>

Crash(w) == pc[w] # "down" /\ Exit(w)

Restart(w) ==
    /\ pc[w] = "down"
    /\ Goto(w, "idle")
    /\ UNCHANGED <<jobVars, tasks, held, claimVars, received>>

-----------------------------------------------------------------------------
Api ==
    \/ \E j \in Jobs, p \in Pages : EnqueueCrawl(j, p)
    \/ \E j \in Jobs : \E urls \in SUBSET PagesOf(j) : EnqueueBatch(j, urls)
    \/ \E j \in Jobs : Cancel(j)

Time ==
    \/ \E p \in Pages : LeaseLapses(p) \/ RetryFallsDue(p)
    \/ \E j \in Jobs : DelayElapses(j) \/ RetentionEnds(j)

Scrape(w) ==
    \/ \E fresh \in SUBSET PagesOf(JobOf[held[w]]) : FinishSuccess(w, fresh)
    \/ \E retryable \in BOOLEAN : FinishFailure(w, retryable)

(* What a running worker process does of its own accord.                   *)
WorkerStep(w) ==
    \/ Cleanup(w) \/ BeginClaim(w)
    \/ \E p \in Pages : ClaimTask(w, p)
    \/ ClaimNothing(w)
    \/ ReadOptions(w) \/ JobGone(w)
    \/ ClaimStarted(w) \/ PostStarted(w)
    \/ pc[w] = "scraping" /\ Scrape(w)
    \/ ClaimPage(w) \/ PostPage(w)
    \/ ClaimCompleted(w) \/ PostCompleted(w)

Next ==
    \/ Api
    \/ Time
    \/ \E w \in Workers : WorkerStep(w) \/ Crash(w) \/ Restart(w)

Spec == Init /\ [][Next]_vars

(* Every await of a worker ends (each HTTP call has a timeout), a process  *)
(* that exits is started again, time passes, and a row that stays a        *)
(* candidate is not skipped as locked for ever: locks last one statement.  *)
Fairness ==
    /\ \A w \in Workers :
          /\ WF_vars(WorkerStep(w)) /\ WF_vars(Restart(w))
          /\ SF_vars(\E p \in Pages : ClaimTask(w, p))
    /\ \A p \in Pages : WF_vars(LeaseLapses(p)) /\ WF_vars(RetryFallsDue(p))
    /\ \A j \in Jobs : WF_vars(DelayElapses(j))

FairSpec == Spec /\ Fairness
=============================================================================
