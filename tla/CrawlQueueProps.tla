-------------------------- MODULE CrawlQueueProps ---------------------------
(***************************************************************************)
(* What the crawl queue has to get right.                                  *)
(***************************************************************************)
EXTENDS CrawlQueue

(* The type of every variable; a worker has a page exactly while it        *)
(* processes a claimed task.                                               *)
RowType == [status : {"absent", "queued", "active", "completed", "failed"},
            depth : Nat, attempts : Nat, token : Workers \cup {NoWorker},
            lapsed : BOOLEAN, due : BOOLEAN, error : BOOLEAN, notified : BOOLEAN]

Processing == {"claimed", "starting", "postStarted", "scraping",
               "pageEvent", "postPage", "jobEvent", "postCompleted"}

TypeOK ==
    /\ status \in [Jobs -> {"absent", "queued", "scraping", "completed",
                            "cancelled", "deleted"}]
    /\ cancelled \in SUBSET Jobs /\ started \in SUBSET Jobs /\ completed \in SUBSET Jobs
    /\ cooling \in SUBSET Jobs /\ expired \in SUBSET Jobs
    /\ tasks \in [Pages -> RowType]
    /\ pc \in [Workers -> {"idle", "claiming", "down"} \cup Processing]
    /\ held \in [Workers -> Pages \cup {NoPage}]
    /\ candidates \in [Workers -> SUBSET Pages]
    /\ older \in SUBSET (Workers \X Workers)
    /\ received \in SUBSET ({"started", "page", "completed"} \X (Jobs \cup Pages))
    /\ \A w \in Workers : pc[w] \in Processing <=> held[w] # NoPage

(* A job that is neither finished nor cancelled still has a task that will *)
(* drain it, and a completed job has none: no order of finishing,          *)
(* requeueing, link insertion and lease loss leaves a job scraping for     *)
(* ever with nothing to do, or completed with pages outstanding            *)
(* (finish_success, finish_failure, complete_if_drained).                  *)
CompletedIffDrained ==
    \A j \in Jobs :
        /\ status[j] \in {"queued", "scraping"} => \E p \in PagesOf(j) : Open(tasks[p])
        /\ status[j] = "completed" => \A p \in PagesOf(j) : ~Open(tasks[p])

(* The inductive strengthening of CompletedIffDrained: cancel_requested    *)
(* and the status agree, tasks exist only under a job, a leased task's job *)
(* has started, and what a running claim may still lock is an open task of *)
(* a job that has not ended.                                               *)
CancelRecorded == \A j \in Jobs : j \in cancelled <=> status[j] = "cancelled"
TasksHaveJobs ==
    \A p \in Pages : status[JobOf[p]] \in {"absent", "deleted"} => tasks[p].status = "absent"
LeasedJobsStarted ==
    \A p \in Pages : tasks[p].status = "active" => status[JobOf[p]] \in {"scraping", "cancelled"}
CandidatesOpen ==
    \A w \in Workers : \A p \in candidates[w] :
        status[JobOf[p]] \in {"queued", "scraping"} /\ Open(tasks[p])

QueueInv ==
    /\ CancelRecorded /\ TasksHaveJobs /\ LeasedJobsStarted /\ CandidatesOpen
    /\ CompletedIffDrained

(* Only deletion takes a job out of completed or cancelled: a claim that   *)
(* was already running cannot revive it, a late finish cannot complete it. *)
(* ImplementsJob says so too, so no run checks it: it is proved.           *)
JobsEndOnce ==
    [][\A j \in Jobs :
         /\ status[j] \in {"completed", "cancelled"} => status'[j] \in {status[j], "deleted"}
         /\ status[j] = "deleted" => status'[j] = "deleted"]_vars

(* The outcome of a page is written once, by the process whose lease is    *)
(* the latest: a worker that outlived its lease cannot end, requeue or     *)
(* overwrite a task that another worker took over.                         *)
LeaseHolderDecides ==
    [][\A p \in Pages :
         status'[JobOf[p]] # "deleted" =>
            /\ tasks[p].status \in {"completed", "failed"} =>
                  tasks'[p].status = tasks[p].status
            /\ tasks[p].status = "active" /\ tasks'[p].status # "active" =>
                  \E w \in Workers : /\ pc[w] = "scraping" /\ pc'[w] = "pageEvent"
                                     /\ held[w] = p /\ tasks[p].token = w]_vars

(* From the commit of a cancellation on, no task of the job is claimed and *)
(* no page is added, even by a claim or a scrape that began before it.     *)
CancelStopsWork ==
    [][\A p \in Pages :
         JobOf[p] \in cancelled /\ status'[JobOf[p]] # "deleted" =>
            /\ tasks'[p].attempts = tasks[p].attempts
            /\ tasks'[p].token = tasks[p].token
            /\ tasks[p].status = "absent" => tasks'[p].status = "absent"]_vars

(* A delayed job never starts two tasks within one delay, even from claims *)
(* that overlap: the row lock makes the later one look again.              *)
DelaySpacesStarts ==
    [][\A w \in Workers :
         pc[w] = "claiming" /\ pc'[w] = "claimed" => JobOf[held'[w]] \notin cooling]_vars

(* The concurrency cap holds for jobs with a delay.                        *)
DelayedJobsKeepCap ==
    \A j \in Delayed : Cardinality(LiveLeases(j)) <= MaxConcurrency[j]

(* For every job the cap can be exceeded, but only by claims that          *)
(* overlapped: by less than the number of worker processes.                *)
OvershootBounded ==
    \A j \in Jobs :
        Cardinality(LiveLeases(j)) + 1 <= MaxConcurrency[j] + Cardinality(Workers)

(* The cap as docs/firecrawl-compatibility.mdx:104-106 states it.          *)
ConcurrencyCap ==
    \A j \in Jobs : Cardinality(LiveLeases(j)) <= MaxConcurrency[j]

(* README.md:105-106: max_retries is counted after the first failed        *)
(* scrape, so a page whose first scrape fails with a retryable error is    *)
(* tried again.                                                            *)
RetriesAfterFirstFailure ==
    [][\A w \in Workers :
         LET p == held[w] IN
         /\ pc[w] = "scraping" /\ pc'[w] = "pageEvent"
         /\ FinishFailure(w, TRUE)
         /\ OwnsLease(w) /\ ~tasks[p].error
         /\ JobOf[p] \notin cancelled /\ MaxRetries[JobOf[p]] > 0
         => tasks'[p].status = "queued"]_vars

(* The event a worker is about to post. *)
Posting(w) == pc[w] \in {"postStarted", "postPage", "postCompleted"}
EventOf(w) ==
    CASE pc[w] = "postStarted" -> <<"started", JobOf[held[w]]>>
      [] pc[w] = "postPage" -> <<"page", held[w]>>
      [] pc[w] = "postCompleted" -> <<"completed", JobOf[held[w]]>>

(* No lifecycle event is delivered twice, by one worker or by two, through *)
(* crashes, lease loss and pages scraped twice.                            *)
NoDuplicateEvent ==
    \A w \in Workers : Posting(w) =>
        /\ EventOf(w) \notin received
        /\ \A v \in Workers : Posting(v) /\ EventOf(v) = EventOf(w) => v = w

(* A completed event is about a job that completed, never about one that   *)
(* was cancelled or still had pages outstanding.                           *)
CompletedEventSound ==
    \A j \in Jobs : <<"completed", j>> \in received => status[j] \in {"completed", "deleted"}

(* If from some time on no process dies and a lease lapses only when its   *)
(* holder is gone, every accepted job is completed, cancelled or deleted.  *)
HolderAlive(p) ==
    \E w \in Workers : tasks[p].token = w /\ held[w] = p

Calm ==
    <>[][/\ \A w \in Workers : ~(pc[w] # "down" /\ pc'[w] = "down")
         /\ \A p \in Pages : ~(~tasks[p].lapsed /\ tasks'[p].lapsed /\ HolderAlive(p))]_vars

EventuallySettles ==
    Calm => \A j \in Jobs :
        status[j] = "queued" ~> status[j] \in {"completed", "cancelled", "deleted"}

-----------------------------------------------------------------------------
(* The queue implements the job a client sees.                             *)
OutcomeOf(row) ==
    CASE row.status = "absent" -> "none"
      [] row.status \in {"queued", "active"} -> "pending"
      [] row.status = "completed" -> "page"
      [] row.status = "failed" -> "error"

Client == INSTANCE CrawlJob WITH
    phase <- status, outcome <- [p \in Pages |-> OutcomeOf(tasks[p])]

(* Every behaviour of the queue is, for a client, a behaviour of CrawlJob. *)
ImplementsJob == Client!Spec
=============================================================================
