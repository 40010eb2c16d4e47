-------------------------- MODULE JobWatcherProps ---------------------------
(***************************************************************************)
(* What a client may rely on when it watches or polls a job.               *)
(***************************************************************************)
EXTENDS JobWatcher

Results == {p \in Pages : row[p] = "result"}
Delivered(r) == ToSet(catchup[r]) \cup ToSet(documents[r])
AnswerFinal(r) == seen[r] = "completed" /\ status # "deleted"

(* A watcher that sends done for a completed job has sent every result of  *)
(* it, however the pages it paged through moved while workers committed:   *)
(* the status is read before the counts and the rows, and kept             *)
(* (watch_firecrawl_job, firecrawl_complete_status).                       *)
DoneIsComplete ==
    \A r \in Readers :
        ending[r] = "done" /\ AnswerFinal(r) => Results \subseteq Delivered(r)

(* No document is sent twice, nor after the catchup carried it, although   *)
(* every round reads all pages again and a round can read a row twice      *)
(* (the set `sent` of watch_firecrawl_job).                                *)
NoDocumentTwice ==
    \A r \in Readers :
        /\ IsInjective(documents[r])
        /\ catchup[r] # NoAnswer =>
              ToSet(documents[r]) \cap ToSet(catchup[r]) = {}

(* What is assembled under the status completed is exact: a watcher gets   *)
(* every row once, a poll the page it asked for and the true total.  No    *)
(* row can move or appear any more (CrawlStore::get).                      *)
FinalAnswersExact ==
    \A r \in Readers :
        step[r] = "answer" /\ AnswerFinal(r) =>
            /\ counted[r] = Len(Visible)
            /\ RowsOf(r) = IF role[r] = "watch" THEN Visible ELSE PageAt(offset[r])

(* The outcome of a page, as CrawlJob calls it. *)
OutcomeOf(state) ==
    CASE state = "absent" -> "none"
      [] state \in {"queued", "active", "finishing"} -> "pending"
      [] state = "result" -> "page"
      [] state = "error" -> "error"

Client == INSTANCE CrawlJob WITH
    Jobs <- {"job"}, JobOf <- [p \in Pages |-> "job"],
    PageLimit <- [j \in {"job"} |-> Cardinality(Pages)],
    phase <- [j \in {"job"} |-> status], outcome <- [p \in Pages |-> OutcomeOf(row[p])]

(* The job the readers read is the one the queue promises: from its        *)
(* acceptance on it takes the steps of CrawlJob, which CrawlQueue          *)
(* implements too, although outcomes are stamped before they are committed *)
(* (finish_success, finish_failure, complete_if_drained).                  *)
JobAsPromised == [][Client!Next]_(Client!jobView)

(* Once the job has ended or is deleted, every watcher, poll and cancel    *)
(* ends, with a message of its own (the loops of watch_firecrawl_job and   *)
(* BeeCrawlClient::poll).                                                  *)
ReadersEnd ==
    \A r \in Readers : (~Live) ~> (ending[r] # "none")
=============================================================================
