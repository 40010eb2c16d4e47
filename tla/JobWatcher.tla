----------------------------- MODULE JobWatcher -----------------------------
(***************************************************************************)
(* How a client learns the outcome of a crawl or batch job: the status     *)
(* route, the WebSocket watcher of apps/api/src/routes.rs, the answer of a *)
(* cancel, and the poll loop of the Rust SDK.  All of them go through      *)
(* CrawlStore::get, which reads the status, the counts and one page of     *)
(* results in three statements; between two of them the workers commit.    *)
(*                                                                         *)
(* The job itself is reduced to what those statements see.  A finishing    *)
(* transaction stamps its row with now(), the time it BEGAN, and commits   *)
(* later: rows are sorted by the first and become visible by the second.   *)
(***************************************************************************)
EXTENDS Naturals, FiniteSets, Subsequences, SequencesExt, FiniteSetsExt

CONSTANTS
    Pages,     \* the pages the job can find
    Readers,   \* clients
    PageSize,  \* the largest page of results (100)
    NoAnswer   \* nothing was sent yet

ASSUME WatcherAssumption == PageSize \in Nat \ {0} /\ IsFiniteSet(Pages)

VARIABLES
    status,    \* crawl_jobs.status, or "deleted"
    row,       \* what crawl_tasks says of a page; "finishing": not committed
    order,     \* the pages that finished or are finishing, by finished_at
    role,      \* what a reader does: "watch", "poll" or "cancel"
    step,      \* the statement or wait the reader is at
    seen,      \* the status its current answer will carry
    counted,   \* completed + failed, as its last COUNT saw them
    offset,    \* the OFFSET of its next page
    data,      \* the rows of the answer it is assembling
    late,      \* the pollers whose deadline has passed
    catchup,   \* the documents of the catchup message of a socket
    documents, \* the documents it sent afterwards, in order
    ending     \* how the reader ended

jobVars == <<status, row, order>>
readVars == <<role, step, seen, counted, offset, data, late>>
sentVars == <<catchup, documents, ending>>
vars == <<jobVars, readVars, sentVars>>

-----------------------------------------------------------------------------
(* The job.                                                                *)

Live == status \in {"queued", "scraping"}
Unfinished(p) == row[p] \in {"queued", "active", "finishing"}

Claim(p) ==
    /\ Live /\ row[p] = "queued"
    /\ row' = [row EXCEPT ![p] = "active"]
    /\ status' = "scraping"
    /\ UNCHANGED <<order, readVars, sentVars>>

BeginFinish(p) ==
    /\ status # "deleted" /\ row[p] = "active"
    /\ row' = [row EXCEPT ![p] = "finishing"]
    /\ order' = Append(order, p)
    /\ UNCHANGED <<status, readVars, sentVars>>

BadCommitFinish(p, outcome, links) ==
    /\ row[p] = "finishing"
    /\ links # {} => outcome = "result" /\ status = "scraping"
    /\ row' = [q \in Pages |-> IF q = p THEN outcome
                               ELSE IF q \in links THEN "queued" ELSE row[q]]
    /\ status' = IF status = "scraping" /\ \A q \in Pages \ {p} : ~Unfinished(q)
                 THEN "completed" ELSE status
    /\ UNCHANGED <<order, readVars, sentVars>>

(* The outcome and the links become visible together with the status.      *)
CommitFinish(p, outcome, links) ==
    /\ row[p] = "finishing"
    /\ links # {} => outcome = "result" /\ status = "scraping"
    /\ row' = [q \in Pages |-> IF q = p THEN outcome
                               ELSE IF q \in links THEN "queued" ELSE row[q]]
    /\ status' = IF status = "scraping" /\ links = {}
                    /\ \A q \in Pages \ {p} : ~Unfinished(q)
                 THEN "completed" ELSE status
    /\ UNCHANGED <<order, readVars, sentVars>>

(* A retryable failure queues the page again, a crash leaves it leased.    *)
GiveUpFinish(p, state) ==
    /\ row[p] = "finishing"
    /\ state = "queued" => status = "scraping"
    /\ row' = [row EXCEPT ![p] = state]
    /\ order' = Only(order, Pages \ {p})
    /\ UNCHANGED <<status, readVars, sentVars>>

Cancelled == IF Live THEN "cancelled" ELSE status

(* Another client cancels.                                                 *)
CancelElsewhere ==
    /\ Live
    /\ status' = Cancelled
    /\ UNCHANGED <<row, order, readVars, sentVars>>

Retire ==
    /\ status \in {"completed", "cancelled"}
    /\ \A p \in Pages : row[p] # "finishing"
    /\ status' = "deleted"
    /\ row' = [p \in Pages |-> "absent"]
    /\ order' = << >>
    /\ UNCHANGED <<readVars, sentVars>>

JobStep ==
    \/ \E p \in Pages :
          \/ Claim(p) \/ BeginFinish(p)
          \/ \E outcome \in {"result", "error"},
                links \in SUBSET {q \in Pages : row[q] = "absent"} :
                CommitFinish(p, outcome, links)
          \/ \E state \in {"queued", "active"} : GiveUpFinish(p, state)
    \/ CancelElsewhere \/ Retire

-----------------------------------------------------------------------------
(* CrawlStore::get, one statement at a time.                               *)

Finished(p) == row[p] \in {"result", "error"}
Visible == Only(order, {p \in Pages : Finished(p)})

Total == Len(Visible)

IsEnded(s) == s \in {"completed", "cancelled"}

(* The offset of the next page, if the counts promise one.                 *)
NextOffset(from, total) == IF from + PageSize < total THEN {from + PageSize} ELSE {}

BadPageAt(from) ==
    SubSeq(Visible, IF from = 0 THEN 1 ELSE from, Min({from + PageSize, Len(Visible)}))

(* ORDER BY finished_at OFFSET from LIMIT PageSize.                        *)
PageAt(from) == SubSeq(Visible, from + 1, Min({from + PageSize, Len(Visible)}))

BadStatusOf(r) == status

(* firecrawl_complete_status keeps the status of its first page.           *)
StatusOf(r) == IF role[r] = "watch" /\ offset[r] > 0 THEN seen[r] ELSE status

End(r, how) ==
    /\ step' = [step EXCEPT ![r] = "ended"]
    /\ ending' = [ending EXCEPT ![r] = how]

(* The job row: a missing job ends the reader, unless it is a later page   *)
(* of a watcher, which goes on with the pages it has.                      *)
ReadStatus(r) ==
    /\ step[r] = "status"
    /\ IF status = "deleted"
       THEN IF offset[r] > 0 /\ role[r] = "watch"
            THEN step' = [step EXCEPT ![r] = "answer"] /\ UNCHANGED ending
            ELSE End(r, "error")
       ELSE step' = [step EXCEPT ![r] = "counts"] /\ UNCHANGED ending
    /\ seen' = [seen EXCEPT ![r] = IF status = "deleted" THEN @ ELSE StatusOf(r)]
    /\ UNCHANGED <<jobVars, role, counted, offset, data, late, catchup, documents>>

ReadCounts(r) ==
    /\ step[r] = "counts"
    /\ step' = [step EXCEPT ![r] = "rows"]
    /\ counted' = [counted EXCEPT ![r] = Total]
    /\ UNCHANGED <<jobVars, role, seen, offset, data, late, sentVars>>

(* Any of the statements can fail.                                         *)
DatabaseFails(r) ==
    /\ step[r] \in {"status", "counts", "rows"}
    /\ End(r, "error")
    /\ UNCHANGED <<jobVars, role, seen, counted, offset, data, late, catchup, documents>>

(* A watcher goes on to the next page, every other reader asked for one.   *)
ReadRows(r) ==
    /\ step[r] = "rows"
    /\ LET page == PageAt(offset[r]) IN
       data' = [data EXCEPT ![r] = @ \o [i \in DOMAIN page |->
                                           [page |-> page[i], outcome |-> row[page[i]]]]]
    /\ LET next == NextOffset(offset[r], counted[r])
           more == role[r] = "watch" /\ next # {} IN
       /\ offset' = [offset EXCEPT ![r] = IF more THEN CHOOSE n \in next : TRUE ELSE @]
       /\ step' = [step EXCEPT ![r] = IF more THEN "status" ELSE "answer"]
    /\ UNCHANGED <<jobVars, role, seen, counted, late, sentVars>>

-----------------------------------------------------------------------------
(* watch_firecrawl_job.                                                    *)

(* A result is a document; what else a page of rows holds are errors.      *)
ResultsAt(r) == {i \in DOMAIN data[r] : data[r][i].outcome = "result"}
RowsOf(r) == [i \in DOMAIN data[r] |-> data[r][i].page]
DocumentsOf(r) == Picked(RowsOf(r), ResultsAt(r))

BadUnsent(r) == DocumentsOf(r)

(* sent.insert(request_id): what neither the catchup nor an earlier        *)
(* document carried, and of a page read twice only the first copy.         *)
FirstCopies(list) == {i \in DOMAIN list : \A j \in 1 .. i - 1 : list[j] # list[i]}

Unsent(r) ==
    LET list == DocumentsOf(r)
        sent == ToSet(catchup[r]) \cup ToSet(documents[r])
    IN Picked(list, {i \in FirstCopies(list) : list[i] \notin sent})

Pause(r) ==
    /\ step' = [step EXCEPT ![r] = "sleep"]
    /\ UNCHANGED ending

BadStops(r) == seen[r] = "completed"
Stops(r) == IsEnded(seen[r])

(* The first answer is the catchup, later ones are cut into documents; an  *)
(* ended job is followed by done and the socket is closed.                 *)
Send(r) ==
    /\ step[r] = "answer" /\ role[r] = "watch"
    /\ IF catchup[r] = NoAnswer
       THEN /\ catchup' = [catchup EXCEPT ![r] = DocumentsOf(r)]
            /\ UNCHANGED documents
       ELSE /\ documents' = [documents EXCEPT ![r] = @ \o Unsent(r)]
            /\ UNCHANGED catchup
    /\ IF Stops(r) THEN End(r, "done") ELSE Pause(r)
    /\ UNCHANGED <<jobVars, role, seen, counted, offset, data, late>>

(* After 500 ms the next round starts from the first page.                 *)
Wake(r) ==
    /\ step[r] = "sleep"
    /\ step' = [step EXCEPT ![r] = "status"]
    /\ offset' = IF role[r] = "watch" THEN [offset EXCEPT ![r] = 0] ELSE offset
    /\ data' = [data EXCEPT ![r] = << >>]
    /\ UNCHANGED <<jobVars, role, seen, counted, late, sentVars>>

(* A send fails because the client is gone.                                *)
Disconnect(r) ==
    /\ role[r] = "watch" /\ step[r] = "answer"
    /\ End(r, "gone")
    /\ UNCHANGED <<jobVars, role, seen, counted, offset, data, late, catchup, documents>>

-----------------------------------------------------------------------------
(* BeeCrawlClient::poll asks for one page until its status is final or the *)
(* deadline has passed.  A cancel answers once.                            *)
Answer(r) ==
    /\ step[r] = "answer" /\ role[r] # "watch"
    /\ CASE IsEnded(seen[r]) \/ role[r] = "cancel" -> End(r, "answered")
         [] ~IsEnded(seen[r]) /\ role[r] = "poll" /\ r \in late -> End(r, "timeout")
         [] OTHER -> Pause(r)
    /\ UNCHANGED <<jobVars, role, seen, counted, offset, data, late, catchup, documents>>

DeadlinePasses(r) ==
    /\ role[r] = "poll" /\ r \notin late /\ step[r] # "ended"
    /\ late' = late \cup {r}
    /\ UNCHANGED <<jobVars, role, step, seen, counted, offset, data, sentVars>>

(* CrawlStore::cancel ends with the same get.                              *)
Cancel(r) ==
    /\ step[r] = "cancel"
    /\ status' = Cancelled
    /\ step' = [step EXCEPT ![r] = "status"]
    /\ UNCHANGED <<row, order, role, seen, counted, offset, data, late, sentVars>>

(* An upgrade, and a poll, begin with the job row of the first get.        *)
ReaderStep(r) ==
    \/ ReadStatus(r) \/ ReadCounts(r) \/ ReadRows(r)
    \/ Send(r) \/ Wake(r) \/ Answer(r) \/ Cancel(r)

Init ==
    /\ status = "queued"
    /\ row \in {[p \in Pages |-> IF p \in start THEN "queued" ELSE "absent"] :
                   start \in (SUBSET Pages) \ {{}}}
    /\ order = << >>
    /\ role \in [Readers -> {"watch", "poll", "cancel"}]
    /\ step = [r \in Readers |-> IF role[r] = "cancel" THEN "cancel" ELSE "status"]
    /\ seen = [r \in Readers |-> "unread"]
    /\ counted = [r \in Readers |-> 0]
    /\ offset \in [Readers -> {0, PageSize}]
    /\ \A r \in Readers : role[r] # "poll" => offset[r] = 0
    /\ data = [r \in Readers |-> << >>]
    /\ late = {}
    /\ catchup = [r \in Readers |-> NoAnswer]
    /\ documents = [r \in Readers |-> << >>]
    /\ ending = [r \in Readers |-> "none"]

Next ==
    \/ JobStep
    \/ \E r \in Readers :
          ReaderStep(r) \/ DatabaseFails(r) \/ Disconnect(r) \/ DeadlinePasses(r)

Spec == Init /\ [][Next]_vars

(* The server and the SDK run their loops on; the job owes nobody anything.*)
Fairness == \A r \in Readers : WF_vars(ReaderStep(r))
FairSpec == Spec /\ Fairness
=============================================================================
