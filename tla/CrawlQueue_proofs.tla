------------------------- MODULE CrawlQueue_proofs --------------------------
(***************************************************************************)
(* Theorems about CrawlQueue, for any number of jobs, pages and workers,   *)
(* whose claim statements may overlap in any way: job status and leases,   *)
(* how many tasks run at once, who decides the outcome of a page, that the *)
(* queue implements the job a client sees, and that a webhook event is     *)
(* posted once.                                                            *)
(***************************************************************************)
EXTENDS CrawlQueueProps, FiniteSetTheorems, TLAPS

-----------------------------------------------------------------------------
(* The rows the actions write are rows.                                    *)

(* The row that is not there. *)
LEMMA BlankType == Blank \in RowType /\ Blank.status = "absent"
  BY DEF Blank, RowType

(* A new task is a row, and it is queued. *)
LEMMA QueuedType ==
  ASSUME NEW d \in Nat
  PROVE  QueuedRow(d) \in RowType /\ QueuedRow(d).status = "queued"
  BY DEF QueuedRow, Blank, RowType

(* Which columns an UPDATE of a row sets, and which it leaves. *)
LEMMA RowUpdates ==
  ASSUME NEW row \in RowType
  PROVE  /\ Succeeded(row) \in RowType /\ Succeeded(row).status = "completed"
         /\ Requeued(row) \in RowType /\ Requeued(row).status = "queued"
         /\ Failed(row) \in RowType /\ Failed(row).status = "failed"
         /\ Notified(row) \in RowType /\ Notified(row).status = row.status
         /\ LeaseLost(row) \in RowType /\ LeaseLost(row).status = row.status
         /\ RetryDue(row) \in RowType /\ RetryDue(row).status = row.status
         /\ \A new \in {Succeeded(row), Requeued(row), Failed(row), Notified(row),
                         LeaseLost(row), RetryDue(row)} :
               new.attempts = row.attempts /\ new.token = row.token
  BY DEF RowType, Succeeded, Requeued, Failed, Notified, LeaseLost, RetryDue

(* What the claim writes. *)
LEMMA ClaimUpdate ==
  ASSUME NEW row \in RowType, NEW w \in Workers, NEW n \in Nat
  PROVE  /\ Claimed(row, w, n) \in RowType
         /\ Claimed(row, w, n).status = "active"
         /\ Claimed(row, w, n).token = w
         /\ ~Claimed(row, w, n).lapsed
  BY DEF RowType, Claimed

(* The attempt number of a claim is a number. *)
LEMMA AttemptType ==
  ASSUME TypeOK, NEW p \in Pages
  PROVE  NextAttempt(p) \in Nat
  BY QueueAssumption DEF TypeOK, RowType, NextAttempt

(* A worker that processes a task holds a page, and its job is a job. *)
LEMMA HeldType ==
  ASSUME TypeOK, NEW w \in Workers, pc[w] \in Processing
  PROVE  held[w] \in Pages /\ JobOf[held[w]] \in Jobs
  BY QueueAssumption DEF TypeOK

-----------------------------------------------------------------------------
(* Type correctness. *)
THEOREM TypeCorrect == Spec => []TypeOK
<1>1. Init => TypeOK
  BY QueueAssumption, BlankType DEF Init, Untouched, TypeOK, Processing
<1>2. TypeOK /\ [Next]_vars => TypeOK'
  <2> SUFFICES ASSUME TypeOK, [Next]_vars PROVE TypeOK'
    OBVIOUS
  <2>1. ASSUME NEW j \in Jobs, NEW p \in Pages,
               EnqueueCrawl(j, p)
        PROVE  TypeOK'
    BY <2>1, QueuedType DEF TypeOK, EnqueueCrawl, claimVars
  <2>2. ASSUME NEW j \in Jobs, NEW urls \in SUBSET Pages, EnqueueBatch(j, urls)
        PROVE  TypeOK'
    BY <2>2, QueuedType DEF TypeOK, EnqueueBatch, claimVars
  <2>3. ASSUME NEW j \in Jobs, Cancel(j) PROVE TypeOK'
    BY <2>3 DEF TypeOK, Cancel
  <2>4. ASSUME NEW p \in Pages, LeaseLapses(p) \/ RetryFallsDue(p) PROVE TypeOK'
    BY <2>4, RowUpdates DEF TypeOK, LeaseLapses, RetryFallsDue, jobVars, claimVars
  <2>5. ASSUME NEW j \in Jobs, DelayElapses(j) \/ RetentionEnds(j) PROVE TypeOK'
    BY <2>5 DEF TypeOK, DelayElapses, RetentionEnds, claimVars
  <2>6. ASSUME NEW w \in Workers, Cleanup(w) PROVE TypeOK'
    BY <2>6, BlankType DEF TypeOK, Cleanup, claimVars
  <2>7. ASSUME NEW w \in Workers, BeginClaim(w) PROVE TypeOK'
    BY <2>7 DEF TypeOK, BeginClaim, Goto, jobVars, Processing
  <2>8. ASSUME NEW w \in Workers, NEW p \in Pages, ClaimTask(w, p) PROVE TypeOK'
    <3>1. tasks' \in [Pages -> RowType]
      BY <2>8, AttemptType, ClaimUpdate DEF TypeOK, ClaimTask
    <3>2. candidates' \in [Workers -> SUBSET Pages]
      BY <2>8 DEF TypeOK, ClaimTask, AfterClaim
    <3>3. status' \in [Jobs -> {"absent", "queued", "scraping", "completed",
                                "cancelled", "deleted"}] /\ cooling' \in SUBSET Jobs
      BY <2>8, QueueAssumption DEF TypeOK, ClaimTask
    <3>4. QED
      BY <2>8, <3>1, <3>2, <3>3, QueueAssumption
         DEF TypeOK, ClaimTask, EndClaim, Goto, Processing
  <2>9. ASSUME NEW w \in Workers, ClaimNothing(w) PROVE TypeOK'
    BY <2>9 DEF TypeOK, ClaimNothing, EndClaim, Goto, jobVars, Processing
  <2>10. ASSUME NEW w \in Workers, Exit(w) PROVE TypeOK'
    BY <2>10, QueueAssumption DEF TypeOK, Exit, EndClaim, Goto, jobVars, Processing
  <2>11. ASSUME NEW w \in Workers, ReadOptions(w) PROVE TypeOK'
    BY <2>11, QueueAssumption
       DEF TypeOK, ReadOptions, Done, Goto, jobVars, claimVars, Processing
  <2>12. ASSUME NEW w \in Workers, ClaimStarted(w) \/ PostStarted(w) PROVE TypeOK'
    <3>1. held[w] \in Pages /\ JobOf[held[w]] \in Jobs
      BY <2>12, HeldType DEF ClaimStarted, PostStarted, Processing
    <3>2. QED
      BY <2>12, <3>1
         DEF TypeOK, ClaimStarted, PostStarted, Post, Goto, jobVars, claimVars, Processing
  <2>13. ASSUME NEW w \in Workers, NEW fresh \in SUBSET Pages, FinishSuccess(w, fresh)
         PROVE  TypeOK'
    <3>1. held[w] \in Pages /\ JobOf[held[w]] \in Jobs
      BY <2>13, HeldType DEF FinishSuccess, Processing
    <3>2. tasks' \in [Pages -> RowType]
      <4>1. QueuedRow(tasks[held[w]].depth + 1) \in RowType
        BY <3>1, QueuedType DEF TypeOK, RowType
      <4>2. QED
        BY <2>13, <3>1, <4>1, RowUpdates DEF TypeOK, FinishSuccess
    <3>3. status' \in [Jobs -> {"absent", "queued", "scraping", "completed",
                                "cancelled", "deleted"}]
      BY <2>13, <3>1 DEF TypeOK, FinishSuccess, StatusAfter
    <3>4. candidates' \in [Workers -> SUBSET Pages]
      BY <2>13 DEF TypeOK, FinishSuccess
    <3>5. QED
      BY <2>13, <3>1, <3>2, <3>3, <3>4 DEF TypeOK, FinishSuccess, Goto, Processing
  <2>14. ASSUME NEW w \in Workers, NEW retryable \in BOOLEAN, FinishFailure(w, retryable)
         PROVE  TypeOK'
    <3>1. held[w] \in Pages /\ JobOf[held[w]] \in Jobs
      BY <2>14, HeldType DEF FinishFailure, Processing
    <3>2. tasks' \in [Pages -> RowType]
      BY <2>14, <3>1, RowUpdates DEF TypeOK, FinishFailure
    <3>3. status' \in [Jobs -> {"absent", "queued", "scraping", "completed",
                                "cancelled", "deleted"}]
      BY <2>14, <3>1 DEF TypeOK, FinishFailure, StatusAfter
    <3>4. candidates' \in [Workers -> SUBSET Pages]
      BY <2>14 DEF TypeOK, FinishFailure
    <3>5. QED
      BY <2>14, <3>1, <3>2, <3>3, <3>4 DEF TypeOK, FinishFailure, Goto, Processing
  <2>15. ASSUME NEW w \in Workers, ClaimPage(w) \/ PostPage(w) PROVE TypeOK'
    <3>1. held[w] \in Pages
      BY <2>15, HeldType DEF ClaimPage, PostPage, Processing
    <3>2. tasks' \in [Pages -> RowType]
      BY <2>15, <3>1, RowUpdates DEF TypeOK, ClaimPage, PostPage
    <3>3. QED
      BY <2>15, <3>1, <3>2
         DEF TypeOK, ClaimPage, PostPage, Post, Goto, jobVars, claimVars, Processing
  <2>16. ASSUME NEW w \in Workers, ClaimCompleted(w) \/ PostCompleted(w) PROVE TypeOK'
    <3>1. held[w] \in Pages /\ JobOf[held[w]] \in Jobs
      BY <2>16, HeldType DEF ClaimCompleted, PostCompleted, Processing
    <3>2. QED
      BY <2>16, <3>1, QueueAssumption
         DEF TypeOK, ClaimCompleted, PostCompleted, Post, Done, Goto, jobVars,
             claimVars, Processing
  <2>17. ASSUME NEW w \in Workers, Restart(w) PROVE TypeOK'
    BY <2>17 DEF TypeOK, Restart, Goto, jobVars, claimVars, Processing
  <2>18. CASE UNCHANGED vars
    BY <2>18 DEF TypeOK, vars, jobVars, claimVars
  <2>19. QED
    BY <2>1, <2>2, <2>3, <2>4, <2>5, <2>6, <2>7, <2>8, <2>9, <2>10, <2>11, <2>12,
       <2>13, <2>14, <2>15, <2>16, <2>17, <2>18
       DEF Next, Api, Time, WorkerStep, Scrape, JobGone, Crash, PagesOf
<1>3. QED
  BY <1>1, <1>2, PTL DEF Spec

-----------------------------------------------------------------------------
(* QueueInv speaks of nothing but statuses, cancellations and candidates. *)
LEMMA SameStatuses ==
  ASSUME TypeOK, QueueInv, UNCHANGED <<status, cancelled, candidates>>,
         \A p \in Pages : tasks'[p].status = tasks[p].status
  PROVE  QueueInv'
<1>1. candidates \in [Workers -> SUBSET Pages] /\ JobOf \in [Pages -> Jobs]
  BY QueueAssumption DEF TypeOK
<1>2. \A p \in Pages : Open(tasks'[p]) <=> Open(tasks[p])
  BY DEF Open
<1>3. CandidatesOpen'
  BY <1>1, <1>2 DEF QueueInv, CandidatesOpen
<1>4. CompletedIffDrained'
  BY <1>2 DEF QueueInv, CompletedIffDrained, PagesOf
<1>5. QED
  BY <1>3, <1>4 DEF QueueInv, CancelRecorded, TasksHaveJobs, LeasedJobsStarted

(* The job status and the open tasks agree. *)
THEOREM QueueInvariant == Spec => []QueueInv
<1>1. Init => QueueInv
  BY QueueAssumption, BlankType
     DEF Init, Untouched, QueueInv, CancelRecorded, TasksHaveJobs, LeasedJobsStarted,
         CandidatesOpen, CompletedIffDrained, PagesOf, Open
<1>2. TypeOK /\ QueueInv /\ [Next]_vars => QueueInv'
  <2> SUFFICES ASSUME TypeOK, QueueInv, [Next]_vars PROVE QueueInv'
    OBVIOUS
  <2>1. /\ tasks \in [Pages -> RowType]
        /\ status \in [Jobs -> {"absent", "queued", "scraping", "completed",
                                "cancelled", "deleted"}]
        /\ cancelled \in SUBSET Jobs /\ candidates \in [Workers -> SUBSET Pages]
        /\ JobOf \in [Pages -> Jobs]
    BY QueueAssumption DEF TypeOK
  <2> USE <2>1 DEF QueueInv, CancelRecorded, TasksHaveJobs, LeasedJobsStarted,
         CandidatesOpen, CompletedIffDrained, PagesOf, Open
  <2>2. ASSUME NEW j \in Jobs, NEW p \in Pages,
               EnqueueCrawl(j, p)
        PROVE  QueueInv'
    BY <2>2, QueuedType DEF EnqueueCrawl, claimVars
  <2>3. ASSUME NEW j \in Jobs, NEW urls \in SUBSET Pages, urls \subseteq PagesOf(j),
               EnqueueBatch(j, urls)
        PROVE  QueueInv'
    BY <2>3, QueuedType DEF EnqueueBatch, claimVars
  <2>4. ASSUME NEW j \in Jobs, Cancel(j) PROVE QueueInv'
    BY <2>4 DEF Cancel
  <2>5. ASSUME NEW p \in Pages, LeaseLapses(p) \/ RetryFallsDue(p) PROVE QueueInv'
    <3>1. \A q \in Pages : tasks'[q].status = tasks[q].status
      BY <2>5, RowUpdates DEF LeaseLapses, RetryFallsDue
    <3>2. QED
      BY <2>5, <3>1, SameStatuses DEF LeaseLapses, RetryFallsDue, jobVars, claimVars
  <2>6. ASSUME NEW j \in Jobs, DelayElapses(j) \/ RetentionEnds(j) PROVE QueueInv'
    BY <2>6 DEF DelayElapses, RetentionEnds, claimVars
  <2>7. ASSUME NEW w \in Workers, Cleanup(w) PROVE QueueInv'
    BY <2>7, BlankType DEF Cleanup, claimVars
  <2>8. ASSUME NEW w \in Workers, BeginClaim(w) PROVE QueueInv'
    BY <2>8 DEF BeginClaim, Claimable, jobVars
  <2>9. ASSUME NEW w \in Workers, NEW p \in Pages, ClaimTask(w, p) PROVE QueueInv'
    <3>1. /\ tasks'[p].status = "active"
          /\ \A q \in Pages : q # p => tasks'[q] = tasks[q]
      BY <2>9, AttemptType, ClaimUpdate DEF ClaimTask
    <3>2. /\ status[JobOf[p]] \in {"queued", "scraping"} /\ Open(tasks[p])
          /\ status' = [status EXCEPT ![JobOf[p]] = "scraping"]
          /\ cancelled' = cancelled
      BY <2>9 DEF ClaimTask
    <3>3. \A v \in Workers : candidates'[v] \subseteq candidates[v]
      BY <2>9 DEF ClaimTask, AfterClaim
    <3>4. CandidatesOpen'
      BY <3>1, <3>2, <3>3
    <3>5. CompletedIffDrained'
      BY <3>1, <3>2
    <3>6. QED
      BY <3>1, <3>2, <3>4, <3>5
  <2>10. ASSUME NEW w \in Workers, ClaimNothing(w) \/ Exit(w) PROVE QueueInv'
    BY <2>10 DEF ClaimNothing, Exit, jobVars
  <2>11. ASSUME NEW w \in Workers, NEW fresh \in SUBSET Pages,
                fresh \subseteq PagesOf(JobOf[held[w]]), FinishSuccess(w, fresh)
         PROVE  QueueInv'
    <3>1. held[w] \in Pages /\ JobOf[held[w]] \in Jobs
      BY <2>11, HeldType DEF FinishSuccess, Processing
    <3>2. CASE ~OwnsLease(w)
      BY <2>11, <3>2 DEF FinishSuccess
    <3>3. CASE OwnsLease(w)
      <4> DEFINE p == held[w]
                 j == JobOf[p]
      <4>1. /\ tasks[p].status = "active" /\ status[j] \in {"scraping", "cancelled"}
            /\ cancelled' = cancelled
            /\ \A q \in fresh : JobOf[q] = j /\ tasks[q].status = "absent"
        BY <2>11, <3>1, <3>3 DEF FinishSuccess, OwnsLease, CanInsert
      <4>2. /\ tasks'[p].status = "completed"
            /\ \A q \in fresh : tasks'[q].status = "queued"
            /\ \A q \in Pages : q # p /\ q \notin fresh => tasks'[q] = tasks[q]
        <5>1. tasks[p].depth + 1 \in Nat
          BY <3>1 DEF RowType
        <5>2. QED
          BY <2>11, <3>1, <3>3, <4>1, <5>1, QueuedType, RowUpdates DEF FinishSuccess
      <4>3. status' = StatusAfter(j, tasks')
        BY <2>11, <3>1, <3>3 DEF FinishSuccess
      <4>4. \A v \in Workers : candidates'[v] \subseteq candidates[v] \ {p}
        BY <2>11, <3>1, <3>3 DEF FinishSuccess
      <4>5. status' # status => status[j] = "scraping" /\ status' = [status EXCEPT ![j] = "completed"]
                                /\ \A q \in PagesOf(j) : ~Open(tasks'[q])
        BY <3>1, <4>1, <4>3 DEF StatusAfter, Drained
      <4>6. CandidatesOpen'
        <5> SUFFICES ASSUME NEW v \in Workers, NEW q \in candidates'[v]
                     PROVE  status'[JobOf[q]] \in {"queued", "scraping"} /\ Open(tasks'[q])
          OBVIOUS
        <5>1. q \in candidates[v] /\ q # p /\ q \notin fresh
          BY <4>1, <4>4
        <5>2. QED
          BY <5>1, <4>2, <4>5, <3>1
      <4>7. CompletedIffDrained'
        BY <3>1, <4>1, <4>2, <4>3, <4>5 DEF StatusAfter, Drained
      <4>8. QED
        BY <3>1, <4>1, <4>2, <4>5, <4>6, <4>7
    <3>4. QED
      BY <3>2, <3>3
  <2>12. ASSUME NEW w \in Workers, NEW retryable \in BOOLEAN, FinishFailure(w, retryable)
         PROVE  QueueInv'
    BY <2>12, RowUpdates, HeldType
       DEF FinishFailure, OwnsLease, StatusAfter, Drained, Processing
  <2>13. ASSUME NEW w \in Workers, ClaimPage(w) PROVE QueueInv'
    <3>1. held[w] \in Pages
      BY <2>13, HeldType DEF ClaimPage, Processing
    <3>2. \A q \in Pages : tasks'[q].status = tasks[q].status
      BY <2>13, <3>1, RowUpdates DEF ClaimPage
    <3>3. QED
      BY <2>13, <3>2, SameStatuses DEF ClaimPage, jobVars, claimVars
  <2>14. ASSUME NEW w \in Workers,
                \/ ReadOptions(w) \/ ClaimStarted(w) \/ PostStarted(w) \/ PostPage(w)
                \/ ClaimCompleted(w) \/ PostCompleted(w) \/ Restart(w)
         PROVE  QueueInv'
    BY <2>14 DEF ReadOptions, ClaimStarted, PostStarted, PostPage, ClaimCompleted,
                 PostCompleted, Restart, jobVars, claimVars
  <2>15. CASE UNCHANGED vars
    BY <2>15 DEF vars, jobVars, claimVars
  <2> HIDE DEF QueueInv, CancelRecorded, TasksHaveJobs, LeasedJobsStarted,
         CandidatesOpen, CompletedIffDrained, PagesOf, Open
  <2>16. QED
    BY <2>2, <2>3, <2>4, <2>5, <2>6, <2>7, <2>8, <2>9, <2>10, <2>11, <2>12, <2>13,
       <2>14, <2>15
       DEF Next, Api, Time, WorkerStep, Scrape, JobGone, Crash, PagesOf
<1>3. QED
  BY <1>1, <1>2, TypeCorrect, PTL DEF Spec

(* A job is completed exactly when its tasks are drained. *)
THEOREM DrainedTheorem == Spec => []CompletedIffDrained
<1>1. QueueInv => CompletedIffDrained
  BY DEF QueueInv
<1>2. QED
  BY <1>1, QueueInvariant, PTL

-----------------------------------------------------------------------------
(* What a step may do to one job and its tasks.  The three action          *)
(* properties below are read off these facts.                              *)
JobStep(j) ==
    /\ status[j] \in {"completed", "cancelled"} => status'[j] \in {status[j], "deleted"}
    /\ status[j] = "deleted" => status'[j] = "deleted"
    /\ j \in cancelled /\ status'[j] # "deleted" =>
          \A p \in PagesOf(j) :
             /\ tasks'[p].attempts = tasks[p].attempts
             /\ tasks'[p].token = tasks[p].token
             /\ tasks[p].status = "absent" => tasks'[p].status = "absent"

(* Every step does no more than that. *)
LEMMA JobSteps ==
  ASSUME TypeOK, QueueInv, [Next]_vars, NEW j \in Jobs
  PROVE  JobStep(j)
<1>1. /\ tasks \in [Pages -> RowType]
      /\ status \in [Jobs -> {"absent", "queued", "scraping", "completed",
                              "cancelled", "deleted"}]
      /\ JobOf \in [Pages -> Jobs]
      /\ j \in cancelled <=> status[j] = "cancelled"
  BY QueueAssumption DEF TypeOK, QueueInv, CancelRecorded
<1> USE <1>1 DEF JobStep, PagesOf
<1>2. ASSUME NEW i \in Jobs, NEW p \in Pages, EnqueueCrawl(i, p)
      PROVE  JobStep(j)
  BY <1>2 DEF EnqueueCrawl
<1>3. ASSUME NEW i \in Jobs, NEW urls \in SUBSET Pages, urls \subseteq PagesOf(i), EnqueueBatch(i, urls)
      PROVE  JobStep(j)
  BY <1>3 DEF EnqueueBatch
<1>4. ASSUME NEW i \in Jobs, Cancel(i) \/ DelayElapses(i) \/ RetentionEnds(i)
      PROVE  JobStep(j)
  BY <1>4 DEF Cancel, DelayElapses, RetentionEnds
<1>5. ASSUME NEW p \in Pages, LeaseLapses(p) \/ RetryFallsDue(p) PROVE JobStep(j)
  BY <1>5, RowUpdates DEF LeaseLapses, RetryFallsDue, jobVars
<1>6. ASSUME NEW w \in Workers, Cleanup(w) PROVE JobStep(j)
  BY <1>6 DEF Cleanup
<1>7. ASSUME NEW w \in Workers, NEW p \in Pages, ClaimTask(w, p) PROVE JobStep(j)
  <2>1. status[JobOf[p]] \in {"queued", "scraping"}
    BY <1>7 DEF ClaimTask, QueueInv, CandidatesOpen
  <2>2. QED
    BY <1>7, <2>1 DEF ClaimTask
<1>8. ASSUME NEW w \in Workers, NEW fresh \in SUBSET Pages,
             fresh \subseteq PagesOf(JobOf[held[w]]), FinishSuccess(w, fresh)
      PROVE  JobStep(j)
  <2>1. held[w] \in Pages
    BY <1>8, HeldType DEF FinishSuccess, Processing
  <2>2. CASE ~OwnsLease(w)
    BY <1>8, <2>2 DEF FinishSuccess
  <2>3. CASE OwnsLease(w)
    <3>1. JobOf[held[w]] = j /\ j \in cancelled => fresh = {}
      BY <1>8, <2>3 DEF FinishSuccess, MayDiscover
    <3>2. status[JobOf[held[w]]] \in {"scraping", "cancelled"}
      BY <2>1, <2>3 DEF OwnsLease, QueueInv, LeasedJobsStarted
    <3>3. QED
      BY <1>8, <2>1, <2>3, <3>1, <3>2, RowUpdates
         DEF FinishSuccess, StatusAfter, Drained, OwnsLease, QueueInv, CancelRecorded
  <2>4. QED
    BY <2>2, <2>3
<1>9. ASSUME NEW w \in Workers, NEW retryable \in BOOLEAN, FinishFailure(w, retryable)
      PROVE  JobStep(j)
  <2>1. held[w] \in Pages
    BY <1>9, HeldType DEF FinishFailure, Processing
  <2>2. CASE ~OwnsLease(w)
    BY <1>9, <2>2 DEF FinishFailure
  <2>3. CASE OwnsLease(w)
    <3>1. status[JobOf[held[w]]] \in {"scraping", "cancelled"}
      BY <2>1, <2>3 DEF OwnsLease, QueueInv, LeasedJobsStarted
    <3>2. QED
      BY <1>9, <2>1, <2>3, <3>1, RowUpdates
         DEF FinishFailure, StatusAfter, Drained, OwnsLease, QueueInv, CancelRecorded
  <2>4. QED
    BY <2>2, <2>3
<1>10. ASSUME NEW w \in Workers, ClaimPage(w) PROVE JobStep(j)
  <2>1. held[w] \in Pages
    BY <1>10, HeldType DEF ClaimPage, Processing
  <2>2. QED
    BY <1>10, <2>1, RowUpdates DEF ClaimPage, jobVars
<1>11. ASSUME NEW w \in Workers,
              \/ BeginClaim(w) \/ ClaimNothing(w) \/ Exit(w) \/ ReadOptions(w)
              \/ ClaimStarted(w) \/ PostStarted(w) \/ PostPage(w)
              \/ ClaimCompleted(w) \/ PostCompleted(w) \/ Restart(w)
       PROVE  JobStep(j)
  BY <1>11 DEF BeginClaim, ClaimNothing, Exit, ReadOptions, ClaimStarted, PostStarted,
               PostPage, ClaimCompleted, PostCompleted, Restart, jobVars
<1>12. CASE UNCHANGED vars
  BY <1>12 DEF vars, jobVars
<1> HIDE DEF JobStep, PagesOf
<1>13. QED
  BY <1>2, <1>3, <1>4, <1>5, <1>6, <1>7, <1>8, <1>9, <1>10, <1>11, <1>12
     DEF Next, Api, Time, WorkerStep, Scrape, JobGone, Crash, PagesOf

(* Only deletion takes a job out of completed or cancelled. *)
THEOREM JobsEndOnceTheorem == Spec => JobsEndOnce
<1>1. TypeOK /\ QueueInv /\ [Next]_vars =>
        [\A j \in Jobs :
           /\ status[j] \in {"completed", "cancelled"} => status'[j] \in {status[j], "deleted"}
           /\ status[j] = "deleted" => status'[j] = "deleted"]_vars
  BY JobSteps DEF JobStep
<1>2. QED
  BY <1>1, TypeCorrect, QueueInvariant, PTL DEF Spec, JobsEndOnce

(* After a cancellation nothing of the job is claimed and no page is added. *)
THEOREM CancelStopsWorkTheorem == Spec => CancelStopsWork
<1>1. TypeOK /\ QueueInv /\ [Next]_vars =>
        [\A p \in Pages :
           JobOf[p] \in cancelled /\ status'[JobOf[p]] # "deleted" =>
              /\ tasks'[p].attempts = tasks[p].attempts
              /\ tasks'[p].token = tasks[p].token
              /\ tasks[p].status = "absent" => tasks'[p].status = "absent"]_vars
  BY JobSteps, QueueAssumption DEF JobStep, PagesOf
<1>2. QED
  BY <1>1, TypeCorrect, QueueInvariant, PTL DEF Spec, CancelStopsWork

-----------------------------------------------------------------------------
(* Claims: how many tasks of a job run at once.                            *)

(* The workers whose running claim may still take a task of the job.       *)
Contenders(j) == {w \in Workers : candidates[w] \cap PagesOf(j) # {}}

(* A step loses leases and contenders of a job, or adds one contender      *)
(* while the job is below its cap, or turns one contender into one lease;  *)
(* a lease of a delayed job sends all other contenders away.               *)
Shrinks(j) ==
    /\ LiveLeases(j)' \subseteq LiveLeases(j)
    /\ Contenders(j)' \subseteq Contenders(j)

Contends(j) ==
    /\ LiveLeases(j)' = LiveLeases(j)
    /\ Cardinality(LiveLeases(j)) < MaxConcurrency[j]

Takes(j) ==
    /\ \E p \in Pages : LiveLeases(j)' \subseteq LiveLeases(j) \cup {p}
    /\ \E w \in Contenders(j) : Contenders(j)' \subseteq Contenders(j) \ {w}
    /\ j \in Delayed => Contenders(j)' = {}

-----------------------------------------------------------------------------
(* The UPDATEs that keep a task active keep or end its lease. *)
LEMMA LeaseUpdates ==
  ASSUME NEW row \in RowType
  PROVE  /\ LeaseLost(row).lapsed
         /\ RetryDue(row).lapsed = row.lapsed
         /\ Notified(row).lapsed = row.lapsed
  BY DEF RowType, LeaseLost, RetryDue, Notified

(* Both sets are finite, in this state ... *)
LEMMA FiniteClaims ==
  ASSUME NEW j \in Jobs
  PROVE  /\ IsFiniteSet(LiveLeases(j)) /\ IsFiniteSet(Contenders(j))
         /\ Cardinality(LiveLeases(j)) \in Nat /\ Cardinality(Contenders(j)) \in Nat
         /\ Cardinality(Contenders(j)) <= Cardinality(Workers)
         /\ Cardinality(Workers) \in Nat
<1>1. LiveLeases(j) \subseteq Pages /\ Contenders(j) \subseteq Workers
  BY DEF LiveLeases, PagesOf, Contenders
<1>2. QED
  BY <1>1, QueueAssumption, FS_Subset, FS_CardinalityType

(* ... and in the next one. *)
LEMMA FiniteNext ==
  ASSUME NEW j \in Jobs
  PROVE  /\ IsFiniteSet(LiveLeases(j)') /\ IsFiniteSet(Contenders(j)')
         /\ Cardinality(LiveLeases(j)') \in Nat /\ Cardinality(Contenders(j)') \in Nat
         /\ Cardinality(Contenders(j)') <= Cardinality(Workers)
<1>1. LiveLeases(j)' \subseteq Pages /\ Contenders(j)' \subseteq Workers
  BY DEF LiveLeases, PagesOf, Contenders
<1>2. QED
  BY <1>1, QueueAssumption, FS_Subset, FS_CardinalityType

(* The shape every step keeps when it claims nothing. *)
LEMMA ShrinkStep ==
  ASSUME TypeOK, NEW j \in Jobs,
         \A v \in Workers : candidates'[v] \subseteq candidates[v],
         \A p \in Pages : tasks'[p].status = "active" /\ ~tasks'[p].lapsed =>
                             tasks[p].status = "active" /\ ~tasks[p].lapsed
  PROVE  Shrinks(j)
  BY DEF Shrinks, LiveLeases, Contenders, PagesOf

(* Every step has one of the three shapes. *)
LEMMA ClaimSteps ==
  ASSUME TypeOK, [Next]_vars, NEW j \in Jobs
  PROVE  Shrinks(j) \/ Contends(j) \/ Takes(j)
<1>1. /\ tasks \in [Pages -> RowType] /\ JobOf \in [Pages -> Jobs]
      /\ candidates \in [Workers -> SUBSET Pages]
  BY QueueAssumption DEF TypeOK
<1> USE <1>1
<1>2. ASSUME NEW i \in Jobs, NEW p \in Pages, EnqueueCrawl(i, p)
      PROVE  Shrinks(j)
  BY <1>2, ShrinkStep, QueuedType DEF EnqueueCrawl, claimVars
<1>3. ASSUME NEW i \in Jobs, NEW urls \in SUBSET Pages, EnqueueBatch(i, urls)
      PROVE  Shrinks(j)
  BY <1>3, ShrinkStep, QueuedType DEF EnqueueBatch, claimVars
<1>4. ASSUME NEW i \in Jobs, Cancel(i) \/ DelayElapses(i) \/ RetentionEnds(i)
      PROVE  Shrinks(j)
  BY <1>4, ShrinkStep DEF Cancel, DelayElapses, RetentionEnds, claimVars
<1>5. ASSUME NEW p \in Pages, LeaseLapses(p) \/ RetryFallsDue(p) PROVE Shrinks(j)
  <2>1. /\ LeaseLost(tasks[p]).lapsed
        /\ RetryDue(tasks[p]).status = tasks[p].status
        /\ RetryDue(tasks[p]).lapsed = tasks[p].lapsed
    BY RowUpdates, LeaseUpdates
  <2>2. QED
    BY <1>5, <2>1, ShrinkStep DEF LeaseLapses, RetryFallsDue, claimVars
<1>6. ASSUME NEW w \in Workers, Cleanup(w) PROVE Shrinks(j)
  BY <1>6, ShrinkStep, BlankType DEF Cleanup, claimVars
<1>7. ASSUME NEW w \in Workers, BeginClaim(w) PROVE Shrinks(j) \/ Contends(j)
  <2>1. /\ tasks' = tasks
        /\ candidates' = [candidates EXCEPT ![w] = {p \in Pages : Claimable(p)}]
    BY <1>7 DEF BeginClaim
  <2>2. CASE \E p \in PagesOf(j) : Claimable(p)
    BY <2>1, <2>2 DEF Contends, Claimable, LiveLeases, PagesOf
  <2>3. CASE ~ \E p \in PagesOf(j) : Claimable(p)
    BY <2>1, <2>3 DEF Shrinks, LiveLeases, Contenders, PagesOf
  <2>4. QED
    BY <2>2, <2>3
<1>8. ASSUME NEW w \in Workers, NEW p \in Pages, ClaimTask(w, p)
      PROVE  Shrinks(j) \/ Takes(j)
  <2>1. /\ p \in candidates[w] /\ candidates'[w] = {}
        /\ \A v \in Workers : candidates'[v] \subseteq candidates[v]
        /\ \A q \in Pages : q # p => tasks'[q] = tasks[q]
    BY <1>8 DEF ClaimTask, AfterClaim
  <2>2. CASE JobOf[p] # j
    BY <2>1, <2>2 DEF Shrinks, LiveLeases, Contenders, PagesOf
  <2>3. CASE JobOf[p] = j
    <3>1. LiveLeases(j)' \subseteq LiveLeases(j) \cup {p}
      BY <2>1 DEF LiveLeases, PagesOf
    <3>2. w \in Contenders(j) /\ Contenders(j)' \subseteq Contenders(j) \ {w}
      BY <2>1, <2>3 DEF Contenders, PagesOf
    <3>3. j \in Delayed => Contenders(j)' = {}
      BY <1>8, <2>1, <2>3 DEF ClaimTask, AfterClaim, Contenders
    <3>4. QED
      BY <3>1, <3>2, <3>3 DEF Takes
  <2>4. QED
    BY <2>2, <2>3
<1>9. ASSUME NEW w \in Workers, NEW fresh \in SUBSET Pages, FinishSuccess(w, fresh)
      PROVE  Shrinks(j)
  <2>1. held[w] \in Pages
    BY <1>9, HeldType DEF FinishSuccess, Processing
  <2>2. CASE ~OwnsLease(w)
    BY <1>9, <2>2, ShrinkStep DEF FinishSuccess
  <2>3. CASE OwnsLease(w)
    <3>1. tasks[held[w]].depth + 1 \in Nat
      BY <2>1 DEF RowType
    <3>2. QED
      BY <1>9, <2>1, <2>3, <3>1, ShrinkStep, RowUpdates, QueuedType DEF FinishSuccess
  <2>4. QED
    BY <2>2, <2>3
<1>10. ASSUME NEW w \in Workers, NEW retryable \in BOOLEAN, FinishFailure(w, retryable)
      PROVE  Shrinks(j)
  BY <1>10, ShrinkStep, RowUpdates, HeldType DEF FinishFailure, Processing
<1>11. ASSUME NEW w \in Workers, ClaimPage(w) PROVE Shrinks(j)
  <2>1. held[w] \in Pages
    BY <1>11, HeldType DEF ClaimPage, Processing
  <2>2. /\ Notified(tasks[held[w]]).status = tasks[held[w]].status
        /\ Notified(tasks[held[w]]).lapsed = tasks[held[w]].lapsed
    BY <2>1, RowUpdates, LeaseUpdates
  <2>3. QED
    BY <1>11, <2>1, <2>2, ShrinkStep DEF ClaimPage, claimVars
<1>12. ASSUME NEW w \in Workers, ClaimNothing(w) \/ Exit(w) PROVE Shrinks(j)
  BY <1>12, ShrinkStep DEF ClaimNothing, Exit
<1>13. ASSUME NEW w \in Workers,
              \/ ReadOptions(w) \/ ClaimStarted(w) \/ PostStarted(w) \/ PostPage(w)
              \/ ClaimCompleted(w) \/ PostCompleted(w) \/ Restart(w)
       PROVE  Shrinks(j)
  BY <1>13, ShrinkStep DEF ReadOptions, ClaimStarted, PostStarted, PostPage,
              ClaimCompleted, PostCompleted, Restart, claimVars
<1>14. CASE UNCHANGED vars
  BY <1>14, ShrinkStep DEF vars, claimVars
<1>15. QED
  BY <1>2, <1>3, <1>4, <1>5, <1>6, <1>7, <1>8, <1>9, <1>10, <1>11, <1>12, <1>13, <1>14
     DEF Next, Api, Time, WorkerStep, Scrape, JobGone, Crash, PagesOf

(* What the three shapes mean for the counts. *)
LEMMA ShrinkCounts ==
  ASSUME NEW j \in Jobs, Shrinks(j)
  PROVE  /\ Cardinality(LiveLeases(j))' <= Cardinality(LiveLeases(j))
         /\ Cardinality(Contenders(j))' <= Cardinality(Contenders(j))
  BY FiniteClaims, FS_Subset DEF Shrinks

(* A claim turns a contender into a lease. *)
LEMMA TakeCounts ==
  ASSUME NEW j \in Jobs, Takes(j)
  PROVE  /\ Cardinality(LiveLeases(j))' <= Cardinality(LiveLeases(j)) + 1
         /\ Cardinality(Contenders(j))' + 1 <= Cardinality(Contenders(j))
<1>1. PICK p \in Pages : LiveLeases(j)' \subseteq LiveLeases(j) \cup {p}
  BY DEF Takes
<1>2. PICK w \in Contenders(j) : Contenders(j)' \subseteq Contenders(j) \ {w}
  BY DEF Takes
<1>3. /\ IsFiniteSet(LiveLeases(j) \cup {p})
      /\ Cardinality(LiveLeases(j) \cup {p}) <= Cardinality(LiveLeases(j)) + 1
  <2>1. /\ IsFiniteSet(LiveLeases(j)) /\ Cardinality(LiveLeases(j)) \in Nat
        /\ IsFiniteSet(LiveLeases(j) \cup {p})
        /\ \/ Cardinality(LiveLeases(j) \cup {p}) = Cardinality(LiveLeases(j))
           \/ Cardinality(LiveLeases(j) \cup {p}) = Cardinality(LiveLeases(j)) + 1
    BY FiniteClaims, FS_AddElement
  <2>2. QED
    BY <2>1
<1>4. /\ IsFiniteSet(Contenders(j) \ {w})
      /\ Cardinality(Contenders(j) \ {w}) = Cardinality(Contenders(j)) - 1
  BY FiniteClaims, FS_RemoveElement
<1>5. /\ IsFiniteSet(LiveLeases(j)')
      /\ Cardinality(LiveLeases(j)') <= Cardinality(LiveLeases(j) \cup {p})
  BY <1>1, <1>3, FS_Subset
<1>6. /\ IsFiniteSet(Contenders(j)')
      /\ Cardinality(Contenders(j)') <= Cardinality(Contenders(j) \ {w})
  BY <1>2, <1>4, FS_Subset
<1>7. QED
  BY <1>3, <1>4, <1>5, <1>6, FiniteClaims, FS_CardinalityType

-----------------------------------------------------------------------------
(* The cap of a job is exceeded by overlapping claims only, and by less    *)
(* than the number of workers: each lease above the cap used up a          *)
(* contender that had seen the job below it.                               *)
ClaimsAccounted ==
    \A j \in Jobs :
        Cardinality(LiveLeases(j)) + Cardinality(Contenders(j)) + 1
            <= MaxConcurrency[j] + Cardinality(Workers)

(* A delayed job has no lease above its cap: while a contender is left it  *)
(* is below the cap, and the first lease leaves none.                      *)
DelayedAccounted ==
    \A j \in Delayed :
        /\ Cardinality(LiveLeases(j)) <= MaxConcurrency[j]
        /\ Contenders(j) # {} => Cardinality(LiveLeases(j)) < MaxConcurrency[j]

(* Nothing is leased and nobody claims at first. *)
LEMMA NoClaimsAtFirst ==
  ASSUME Init, NEW j \in Jobs
  PROVE  LiveLeases(j) = {} /\ Contenders(j) = {}
  BY BlankType, QueueAssumption DEF Init, Untouched, LiveLeases, Contenders, PagesOf

(* The overshoot is bounded for any number of workers. *)
THEOREM OvershootTheorem == Spec => []OvershootBounded
<1>1. Init => ClaimsAccounted
  BY NoClaimsAtFirst, FS_EmptySet, FiniteClaims, QueueAssumption DEF ClaimsAccounted
<1>2. TypeOK /\ ClaimsAccounted /\ [Next]_vars => ClaimsAccounted'
  <2> SUFFICES ASSUME TypeOK, ClaimsAccounted, [Next]_vars, NEW j \in Jobs
               PROVE  Cardinality(LiveLeases(j)') + Cardinality(Contenders(j)') + 1
                        <= MaxConcurrency[j] + Cardinality(Workers)
    BY DEF ClaimsAccounted
  <2>1. /\ Cardinality(LiveLeases(j)) + Cardinality(Contenders(j)) + 1
             <= MaxConcurrency[j] + Cardinality(Workers)
        /\ MaxConcurrency[j] \in Nat
    BY QueueAssumption DEF ClaimsAccounted
  <2>2. /\ Cardinality(LiveLeases(j)) \in Nat /\ Cardinality(Contenders(j)) \in Nat
        /\ Cardinality(Workers) \in Nat
    BY FiniteClaims
  <2>3. /\ Cardinality(LiveLeases(j)') \in Nat /\ Cardinality(Contenders(j)') \in Nat
        /\ Cardinality(Contenders(j)') <= Cardinality(Workers)
    BY FiniteNext
  <2>4. CASE Shrinks(j)
    BY <2>1, <2>2, <2>3, <2>4, ShrinkCounts
  <2>5. CASE Contends(j)
    BY <2>1, <2>2, <2>3, <2>5 DEF Contends
  <2>6. CASE Takes(j)
    BY <2>1, <2>2, <2>3, <2>6, TakeCounts
  <2>7. QED
    BY <2>4, <2>5, <2>6, ClaimSteps
<1>3. ClaimsAccounted => OvershootBounded
  <2> SUFFICES ASSUME ClaimsAccounted, NEW j \in Jobs
               PROVE  Cardinality(LiveLeases(j)) + 1 <= MaxConcurrency[j] + Cardinality(Workers)
    BY DEF OvershootBounded
  <2>1. /\ Cardinality(LiveLeases(j)) \in Nat /\ Cardinality(Contenders(j)) \in Nat
        /\ Cardinality(Workers) \in Nat /\ MaxConcurrency[j] \in Nat
    BY FiniteClaims, QueueAssumption
  <2>2. QED
    BY <2>1 DEF ClaimsAccounted
<1>4. QED
  BY <1>1, <1>2, <1>3, TypeCorrect, PTL DEF Spec

(* The concurrency cap holds for jobs with a delay. *)
THEOREM DelayedCapTheorem == Spec => []DelayedJobsKeepCap
<1>1. Init => DelayedAccounted
  BY NoClaimsAtFirst, FS_EmptySet, QueueAssumption DEF DelayedAccounted
<1>2. TypeOK /\ DelayedAccounted /\ [Next]_vars => DelayedAccounted'
  <2> SUFFICES ASSUME TypeOK, DelayedAccounted, [Next]_vars, NEW j \in Delayed
               PROVE  /\ Cardinality(LiveLeases(j)') <= MaxConcurrency[j]
                      /\ Contenders(j)' # {} => Cardinality(LiveLeases(j)') < MaxConcurrency[j]
    BY DEF DelayedAccounted
  <2>1. /\ j \in Jobs /\ MaxConcurrency[j] \in Nat
        /\ Cardinality(LiveLeases(j)) <= MaxConcurrency[j]
        /\ Contenders(j) # {} => Cardinality(LiveLeases(j)) < MaxConcurrency[j]
    BY QueueAssumption DEF DelayedAccounted
  <2>2. Cardinality(LiveLeases(j)) \in Nat /\ Cardinality(LiveLeases(j)') \in Nat
    BY <2>1, FiniteClaims, FiniteNext
  <2>3. CASE Shrinks(j)
    <3>1. Cardinality(LiveLeases(j)') <= Cardinality(LiveLeases(j))
      BY <2>1, <2>3, ShrinkCounts
    <3>2. QED
      BY <2>1, <2>2, <2>3, <3>1 DEF Shrinks
  <2>4. CASE Contends(j)
    BY <2>1, <2>2, <2>4 DEF Contends
  <2>5. CASE Takes(j)
    <3>1. Contenders(j) # {} /\ Contenders(j)' = {}
      BY <2>5 DEF Takes
    <3>2. QED
      BY <2>1, <2>2, <2>5, <3>1, TakeCounts
  <2>6. QED
    BY <2>1, <2>3, <2>4, <2>5, ClaimSteps
<1>3. DelayedAccounted => DelayedJobsKeepCap
  BY DEF DelayedAccounted, DelayedJobsKeepCap
<1>4. QED
  BY <1>1, <1>2, <1>3, TypeCorrect, PTL DEF Spec

-----------------------------------------------------------------------------
(* No running claim has a candidate of a job that is cooling down. *)
CandidatesWarm ==
    \A w \in Workers : \A p \in candidates[w] : JobOf[p] \notin cooling

(* Claims keep out of cooling jobs, so the task they start is not in one. *)
LEMMA WarmSteps ==
  ASSUME TypeOK, CandidatesWarm, [Next]_vars
  PROVE  /\ CandidatesWarm'
         /\ \A w \in Workers :
               pc[w] = "claiming" /\ pc'[w] = "claimed" => JobOf[held'[w]] \notin cooling
<1>1. /\ JobOf \in [Pages -> Jobs] /\ candidates \in [Workers -> SUBSET Pages]
      /\ pc \in [Workers -> {"idle", "claiming", "down"} \cup Processing]
      /\ held \in [Workers -> Pages \cup {NoPage}]
  BY QueueAssumption DEF TypeOK
<1> DEFINE Spaced == \A w \in Workers :
       pc[w] = "claiming" /\ pc'[w] = "claimed" => JobOf[held'[w]] \notin cooling
<1> USE <1>1 DEF CandidatesWarm
<1>2. ASSUME Api \/ Time PROVE CandidatesWarm' /\ Spaced
  BY <1>2 DEF Api, Time, EnqueueCrawl, EnqueueBatch, Cancel, LeaseLapses, RetryFallsDue,
              DelayElapses, RetentionEnds, jobVars, claimVars
<1>3. ASSUME NEW w \in Workers, BeginClaim(w) PROVE CandidatesWarm' /\ Spaced
  BY <1>3 DEF BeginClaim, Claimable, Goto, jobVars
<1>4. ASSUME NEW w \in Workers, NEW p \in Pages, ClaimTask(w, p)
      PROVE  CandidatesWarm' /\ Spaced
  <2>1. Spaced
    BY <1>4 DEF ClaimTask, Goto
  <2>2. CandidatesWarm'
    BY <1>4 DEF ClaimTask, AfterClaim, PagesOf
  <2>3. QED
    BY <2>1, <2>2
<1>5. ASSUME NEW w \in Workers, ClaimNothing(w) \/ Exit(w) \/ Cleanup(w) \/ Restart(w)
      PROVE  CandidatesWarm' /\ Spaced
  BY <1>5 DEF ClaimNothing, Exit, Cleanup, Restart, Goto, jobVars, claimVars
<1>6. ASSUME NEW w \in Workers, pc[w] = "scraping", Scrape(w)
      PROVE  CandidatesWarm' /\ Spaced
  <2>1. /\ cooling' = cooling /\ pc' = [pc EXCEPT ![w] = "pageEvent"]
        /\ \A v \in Workers : candidates'[v] \subseteq candidates[v]
    <3>1. ASSUME NEW fresh \in SUBSET Pages, FinishSuccess(w, fresh) PROVE
              /\ cooling' = cooling /\ pc' = [pc EXCEPT ![w] = "pageEvent"]
              /\ \A v \in Workers : candidates'[v] \subseteq candidates[v]
      BY <3>1 DEF FinishSuccess, Goto
    <3>2. ASSUME NEW retryable \in BOOLEAN, FinishFailure(w, retryable) PROVE
              /\ cooling' = cooling /\ pc' = [pc EXCEPT ![w] = "pageEvent"]
              /\ \A v \in Workers : candidates'[v] \subseteq candidates[v]
      BY <3>2 DEF FinishFailure, Goto
    <3>3. QED
      BY <1>6, <3>1, <3>2 DEF Scrape, PagesOf
  <2>2. Spaced
    BY <2>1
  <2>3. CandidatesWarm'
    BY <2>1
  <2>4. QED
    BY <2>2, <2>3
<1>7. ASSUME NEW w \in Workers,
             \/ ReadOptions(w) \/ ClaimStarted(w) \/ PostStarted(w) \/ ClaimPage(w)
             \/ PostPage(w) \/ ClaimCompleted(w) \/ PostCompleted(w)
      PROVE  CandidatesWarm' /\ Spaced
  BY <1>7 DEF ReadOptions, ClaimStarted, PostStarted, ClaimPage, PostPage, ClaimCompleted,
              PostCompleted, Done, Goto, jobVars, claimVars
<1>8. CASE UNCHANGED vars
  BY <1>8 DEF vars, jobVars, claimVars
<1> HIDE DEF CandidatesWarm
<1>9. QED
  BY <1>2, <1>3, <1>4, <1>5, <1>6, <1>7, <1>8 DEF Next, WorkerStep, JobGone, Crash

(* A delayed job never starts two tasks within one delay. *)
THEOREM DelaySpacesTheorem == Spec => DelaySpacesStarts
<1>1. Init => CandidatesWarm
  BY DEF Init, Untouched, CandidatesWarm
<1>2. TypeOK /\ CandidatesWarm /\ [Next]_vars => CandidatesWarm'
  BY WarmSteps
<1>3. TypeOK /\ CandidatesWarm /\ [Next]_vars =>
        [\A w \in Workers :
           pc[w] = "claiming" /\ pc'[w] = "claimed" => JobOf[held'[w]] \notin cooling]_vars
  BY WarmSteps
<1>4. QED
  BY <1>1, <1>2, <1>3, TypeCorrect, PTL DEF Spec, DelaySpacesStarts

-----------------------------------------------------------------------------
(* What becomes of pages: who decides their outcome, how many there are,   *)
(* and that the queue implements the job a client sees.                    *)

(* A step leaves the statuses of a page alone, or                          *)
(*  - a request or a discovery inserts it,                                 *)
(*  - a worker claims it, while its job has not ended,                     *)
(*  - the worker that holds its lease decides it,                          *)
(*  - its job is deleted.                                                  *)
Unchanged(p) == tasks'[p].status = tasks[p].status
Inserted(p) == tasks[p].status = "absent" /\ tasks'[p].status = "queued"
Taken(p) == Open(tasks[p]) /\ tasks'[p].status = "active"
DecidedBy(p, w) ==
    /\ pc[w] = "scraping" /\ pc'[w] = "pageEvent"
    /\ held[w] = p /\ tasks[p].token = w /\ tasks[p].status = "active"
Deleted(p) == status'[JobOf[p]] = "deleted"

PageStep(p) ==
    \/ Unchanged(p) \/ Inserted(p) \/ Taken(p) \/ Deleted(p)
    \/ \E w \in Workers : DecidedBy(p, w)

(* Every step does one of these to a page. *)
LEMMA PageSteps ==
  ASSUME TypeOK, QueueInv, [Next]_vars, NEW p \in Pages
  PROVE  PageStep(p)
<1>1. /\ tasks \in [Pages -> RowType]
      /\ status \in [Jobs -> {"absent", "queued", "scraping", "completed",
                              "cancelled", "deleted"}]
      /\ JobOf \in [Pages -> Jobs]
      /\ pc \in [Workers -> {"idle", "claiming", "down"} \cup Processing]
  BY QueueAssumption DEF TypeOK
<1> USE <1>1 DEF PageStep, Unchanged, Inserted, Taken, DecidedBy, Deleted
<1>2. ASSUME NEW i \in Jobs, NEW q \in Pages, EnqueueCrawl(i, q)
      PROVE  PageStep(p)
  BY <1>2, QueuedType DEF EnqueueCrawl, QueueInv, TasksHaveJobs
<1>3. ASSUME NEW i \in Jobs, NEW urls \in SUBSET Pages, urls \subseteq PagesOf(i), EnqueueBatch(i, urls)
      PROVE  PageStep(p)
  BY <1>3, QueuedType DEF EnqueueBatch, QueueInv, TasksHaveJobs, PagesOf
<1>4. ASSUME NEW i \in Jobs, Cancel(i) \/ DelayElapses(i) \/ RetentionEnds(i)
      PROVE  PageStep(p)
  BY <1>4 DEF Cancel, DelayElapses, RetentionEnds
<1>5. ASSUME NEW q \in Pages, LeaseLapses(q) \/ RetryFallsDue(q) PROVE PageStep(p)
  BY <1>5, RowUpdates DEF LeaseLapses, RetryFallsDue
<1>6. ASSUME NEW w \in Workers, Cleanup(w) PROVE PageStep(p)
  BY <1>6 DEF Cleanup
<1>7. ASSUME NEW w \in Workers, NEW q \in Pages, ClaimTask(w, q) PROVE PageStep(p)
  <2>1. Open(tasks[q])
    BY <1>7 DEF ClaimTask, QueueInv, CandidatesOpen
  <2>2. QED
    BY <1>7, <2>1, AttemptType, ClaimUpdate DEF ClaimTask
<1>8. ASSUME NEW w \in Workers, NEW fresh \in SUBSET Pages, FinishSuccess(w, fresh)
      PROVE  PageStep(p)
  <2>1. held[w] \in Pages /\ pc'[w] = "pageEvent"
    BY <1>8, HeldType DEF FinishSuccess, Processing, Goto
  <2>2. CASE ~OwnsLease(w)
    BY <1>8, <2>2 DEF FinishSuccess
  <2>3. CASE OwnsLease(w)
    <3>1. tasks[held[w]].depth + 1 \in Nat
      BY <2>1 DEF RowType
    <3>2. QED
      BY <1>8, <2>1, <2>3, <3>1, QueuedType DEF FinishSuccess, OwnsLease, CanInsert
  <2>4. QED
    BY <2>2, <2>3
<1>9. ASSUME NEW w \in Workers, NEW retryable \in BOOLEAN, FinishFailure(w, retryable)
      PROVE  PageStep(p)
  <2>1. held[w] \in Pages /\ pc'[w] = "pageEvent"
    BY <1>9, HeldType DEF FinishFailure, Processing, Goto
  <2>2. CASE ~OwnsLease(w)
    BY <1>9, <2>2 DEF FinishFailure
  <2>3. CASE OwnsLease(w)
    BY <1>9, <2>1, <2>3 DEF FinishFailure, OwnsLease
  <2>4. QED
    BY <2>2, <2>3
<1>10. ASSUME NEW w \in Workers, ClaimPage(w) PROVE PageStep(p)
  <2>1. held[w] \in Pages
    BY <1>10, HeldType DEF ClaimPage, Processing
  <2>2. QED
    BY <1>10, <2>1, RowUpdates DEF ClaimPage
<1>11. ASSUME NEW w \in Workers,
              \/ BeginClaim(w) \/ ClaimNothing(w) \/ Exit(w) \/ ReadOptions(w)
              \/ ClaimStarted(w) \/ PostStarted(w) \/ PostPage(w)
              \/ ClaimCompleted(w) \/ PostCompleted(w) \/ Restart(w)
       PROVE  PageStep(p)
  BY <1>11 DEF BeginClaim, ClaimNothing, Exit, ReadOptions, ClaimStarted, PostStarted,
               PostPage, ClaimCompleted, PostCompleted, Restart
<1>12. CASE UNCHANGED vars
  BY <1>12 DEF vars
<1> HIDE DEF PageStep, Unchanged, Inserted, Taken, DecidedBy, Deleted
<1>13. QED
  BY <1>2, <1>3, <1>4, <1>5, <1>6, <1>7, <1>8, <1>9, <1>10, <1>11, <1>12
     DEF Next, Api, Time, WorkerStep, Scrape, JobGone, Crash, PagesOf

(* An outcome is written once, by the process that holds the lease. *)
THEOREM LeaseHolderTheorem == Spec => LeaseHolderDecides
<1>1. TypeOK /\ QueueInv /\ [Next]_vars =>
        [\A p \in Pages :
           status'[JobOf[p]] # "deleted" =>
              /\ tasks[p].status \in {"completed", "failed"} =>
                    tasks'[p].status = tasks[p].status
              /\ tasks[p].status = "active" /\ tasks'[p].status # "active" =>
                    \E w \in Workers : /\ pc[w] = "scraping" /\ pc'[w] = "pageEvent"
                                       /\ held[w] = p /\ tasks[p].token = w]_vars
  BY PageSteps DEF PageStep, Unchanged, Inserted, Taken, DecidedBy, Deleted, Open
<1>2. QED
  BY <1>1, TypeCorrect, QueueInvariant, PTL DEF Spec, LeaseHolderDecides

-----------------------------------------------------------------------------
(* Only the three inserting transactions find pages, and each counts what  *)
(* it inserts.                                                             *)
LEMMA FiniteFound ==
  ASSUME NEW j \in Jobs
  PROVE  /\ IsFiniteSet(Found(j)) /\ Cardinality(Found(j)) \in Nat
         /\ IsFiniteSet(PagesOf(j))
<1>1. Found(j) \subseteq Pages /\ PagesOf(j) \subseteq Pages
  BY DEF Found, PagesOf
<1>2. QED
  BY <1>1, QueueAssumption, FS_Subset, FS_CardinalityType

(* Found pages shrink, or were counted against the limit. *)
LEMMA FoundSteps ==
  ASSUME TypeOK, QueueInv, [Next]_vars, NEW j \in Jobs
  PROVE  \/ Found(j)' \subseteq Found(j)
         \/ Cardinality(Found(j))' <= PageLimit[j]
<1>1. /\ tasks \in [Pages -> RowType] /\ JobOf \in [Pages -> Jobs]
      /\ PageLimit \in [Jobs -> Nat \ {0}]
  BY QueueAssumption DEF TypeOK
<1> USE <1>1
<1>2. ASSUME NEW i \in Jobs, NEW p \in Pages, EnqueueCrawl(i, p)
      PROVE  \/ Found(j)' \subseteq Found(j)
             \/ Cardinality(Found(j)') <= PageLimit[j]
  <2>1. CASE i # j
    BY <1>2, <2>1 DEF EnqueueCrawl, Found, PagesOf
  <2>2. CASE i = j
    <3>1. Found(j)' \subseteq {p}
      BY <1>2, <2>2 DEF EnqueueCrawl, Found, PagesOf, QueueInv, TasksHaveJobs
    <3>2. Cardinality(Found(j)') <= 1 /\ Cardinality(Found(j)') \in Nat
      <4>1. IsFiniteSet({p}) /\ Cardinality({p}) = 1
        BY FS_Singleton
      <4>2. IsFiniteSet(Found(j)') /\ Cardinality(Found(j)') <= 1
        BY <3>1, <4>1, FS_Subset
      <4>3. QED
        BY <4>2, FS_CardinalityType
    <3>3. QED
      BY <3>2
  <2>3. QED
    BY <2>1, <2>2
<1>3. ASSUME NEW i \in Jobs, NEW urls \in SUBSET Pages, urls \subseteq PagesOf(i), EnqueueBatch(i, urls)
      PROVE  \/ Found(j)' \subseteq Found(j)
             \/ Cardinality(Found(j)') <= PageLimit[j]
  <2>1. CASE i # j
    BY <1>3, <2>1 DEF EnqueueBatch, Found, PagesOf
  <2>2. CASE i = j
    <3>1. Found(j)' \subseteq urls
      BY <1>3, <2>2 DEF EnqueueBatch, Found, PagesOf, QueueInv, TasksHaveJobs
    <3>2. IsFiniteSet(urls) /\ Cardinality(urls) <= PageLimit[j]
      BY <1>3, <2>2, FiniteFound, FS_Subset DEF EnqueueBatch
    <3>3. /\ Cardinality(Found(j)') <= Cardinality(urls)
          /\ Cardinality(Found(j)') \in Nat /\ Cardinality(urls) \in Nat
      BY <3>1, <3>2, FS_Subset, FS_CardinalityType
    <3>4. QED
      BY <3>2, <3>3
  <2>3. QED
    BY <2>1, <2>2
<1>4. ASSUME NEW w \in Workers, NEW fresh \in SUBSET Pages,
             fresh \subseteq PagesOf(JobOf[held[w]]), FinishSuccess(w, fresh)
      PROVE  \/ Found(j)' \subseteq Found(j)
             \/ Cardinality(Found(j)') <= PageLimit[j]
  <2>1. held[w] \in Pages
    BY <1>4, HeldType DEF FinishSuccess, Processing
  <2>2. CASE ~OwnsLease(w)
    BY <1>4, <2>2 DEF FinishSuccess, Found
  <2>3. CASE OwnsLease(w)
    <3>1. tasks[held[w]].status = "active"
      BY <2>3 DEF OwnsLease
    <3>2. \A q \in Pages : q # held[w] /\ q \notin fresh => tasks'[q] = tasks[q]
      BY <1>4, <2>1, <2>3 DEF FinishSuccess
    <3>3. CASE JobOf[held[w]] # j
      <4>1. \A q \in PagesOf(j) : tasks'[q] = tasks[q]
        BY <1>4, <3>2, <3>3 DEF PagesOf
      <4>2. QED
        BY <4>1 DEF Found
    <3>4. CASE JobOf[held[w]] = j
      <4>1. Found(j)' \subseteq Found(j) \cup fresh
        BY <1>4, <2>1, <3>1, <3>2, <3>4 DEF Found, PagesOf
      <4>2. Cardinality(Found(j)) + Cardinality(fresh) <= PageLimit[j]
        BY <1>4, <2>3, <3>4 DEF FinishSuccess, CanInsert
      <4>3. IsFiniteSet(fresh) /\ IsFiniteSet(Found(j))
        BY <1>4, <3>4, FiniteFound, FS_Subset
      <4>4. /\ IsFiniteSet(Found(j) \cup fresh)
            /\ Cardinality(Found(j) \cup fresh) =
                  Cardinality(Found(j)) + Cardinality(fresh) - Cardinality(Found(j) \cap fresh)
        BY <4>3, FS_Union
      <4>5. IsFiniteSet(Found(j) \cap fresh)
        BY <4>3, FS_Subset
      <4>6. /\ IsFiniteSet(Found(j)')
            /\ Cardinality(Found(j)') <= Cardinality(Found(j) \cup fresh)
        BY <4>1, <4>4, FS_Subset
      <4>7. /\ Cardinality(Found(j)) \in Nat /\ Cardinality(fresh) \in Nat
            /\ Cardinality(Found(j) \cap fresh) \in Nat /\ Cardinality(Found(j)') \in Nat
        BY <4>3, <4>5, <4>6, FS_CardinalityType
      <4>8. QED
        BY <4>2, <4>4, <4>6, <4>7
    <3>5. QED
      BY <3>3, <3>4
  <2>4. QED
    BY <2>2, <2>3
<1>5. ASSUME NEW w \in Workers, NEW retryable \in BOOLEAN, FinishFailure(w, retryable)
      PROVE  Found(j)' \subseteq Found(j)
  <2>1. held[w] \in Pages
    BY <1>5, HeldType DEF FinishFailure, Processing
  <2>2. CASE ~OwnsLease(w)
    BY <1>5, <2>2 DEF FinishFailure, Found
  <2>3. CASE OwnsLease(w)
    <3>1. tasks[held[w]].status = "active"
      BY <2>3 DEF OwnsLease
    <3>2. \A q \in Pages : q # held[w] => tasks'[q] = tasks[q]
      BY <1>5, <2>1, <2>3 DEF FinishFailure
    <3>3. QED
      BY <3>1, <3>2 DEF Found, PagesOf
  <2>4. QED
    BY <2>2, <2>3
<1>6. ASSUME NEW w \in Workers, Cleanup(w) PROVE Found(j)' \subseteq Found(j)
  BY <1>6, BlankType DEF Cleanup, Found, PagesOf
<1>7. ASSUME NEW w \in Workers, NEW p \in Pages, ClaimTask(w, p)
      PROVE  Found(j)' \subseteq Found(j)
  <2>1. Open(tasks[p]) /\ \A q \in Pages : q # p => tasks'[q] = tasks[q]
    BY <1>7 DEF ClaimTask, QueueInv, CandidatesOpen
  <2>2. QED
    BY <2>1 DEF Found, PagesOf, Open
<1>8. ASSUME NEW p \in Pages, LeaseLapses(p) \/ RetryFallsDue(p)
      PROVE  Found(j)' \subseteq Found(j)
  BY <1>8, RowUpdates DEF LeaseLapses, RetryFallsDue, Found, PagesOf
<1>9. ASSUME NEW w \in Workers, ClaimPage(w) PROVE Found(j)' \subseteq Found(j)
  <2>1. held[w] \in Pages
    BY <1>9, HeldType DEF ClaimPage, Processing
  <2>2. QED
    BY <1>9, <2>1, RowUpdates DEF ClaimPage, Found, PagesOf
<1>10. ASSUME NEW i \in Jobs, Cancel(i) \/ DelayElapses(i) \/ RetentionEnds(i)
      PROVE  Found(j)' \subseteq Found(j)
  BY <1>10 DEF Cancel, DelayElapses, RetentionEnds, Found
<1>11. ASSUME NEW w \in Workers,
              \/ BeginClaim(w) \/ ClaimNothing(w) \/ Exit(w) \/ ReadOptions(w)
              \/ ClaimStarted(w) \/ PostStarted(w) \/ PostPage(w)
              \/ ClaimCompleted(w) \/ PostCompleted(w) \/ Restart(w)
       PROVE  Found(j)' \subseteq Found(j)
  BY <1>11 DEF BeginClaim, ClaimNothing, Exit, ReadOptions, ClaimStarted, PostStarted,
               PostPage, ClaimCompleted, PostCompleted, Restart, Found
<1>12. CASE UNCHANGED vars
  BY <1>12 DEF vars, Found
<1>13. QED
  BY <1>2, <1>3, <1>4, <1>5, <1>6, <1>7, <1>8, <1>9, <1>10, <1>11, <1>12
     DEF Next, Api, Time, WorkerStep, Scrape, JobGone, Crash, PagesOf

(* A step of CrawlJob asks for it: no job has more pages than page_limit.  *)
PageLimitHeld == \A j \in Jobs : Cardinality(Found(j)) <= PageLimit[j]

LEMMA PageLimitKept == Spec => []PageLimitHeld
<1>1. Init => PageLimitHeld
  <2> SUFFICES ASSUME Init, NEW j \in Jobs PROVE Cardinality(Found(j)) <= PageLimit[j]
    BY DEF PageLimitHeld
  <2>1. Found(j) = {}
    BY BlankType DEF Init, Untouched, Found, PagesOf
  <2>2. QED
    BY <2>1, FS_EmptySet, QueueAssumption
<1>2. TypeOK /\ QueueInv /\ PageLimitHeld /\ [Next]_vars => PageLimitHeld'
  <2> SUFFICES ASSUME TypeOK, QueueInv, PageLimitHeld, [Next]_vars, NEW j \in Jobs
               PROVE  Cardinality(Found(j)') <= PageLimit[j]
    BY DEF PageLimitHeld
  <2>1. CASE Found(j)' \subseteq Found(j)
    <3>1. IsFiniteSet(Found(j)) /\ Cardinality(Found(j)) <= PageLimit[j]
      BY FiniteFound DEF PageLimitHeld
    <3>2. /\ Cardinality(Found(j)') <= Cardinality(Found(j))
          /\ Cardinality(Found(j)') \in Nat /\ Cardinality(Found(j)) \in Nat
      BY <2>1, <3>1, FS_Subset, FS_CardinalityType
    <3>3. QED
      BY <3>1, <3>2, QueueAssumption
  <2>2. QED
    BY <2>1, FoundSteps
<1>3. QED
  BY <1>1, <1>2, TypeCorrect, QueueInvariant, PTL DEF Spec

-----------------------------------------------------------------------------
(* The refinement: every step of CrawlQueue is a step of CrawlJob or       *)
(* changes nothing a client sees.                                          *)
Seen == [p \in Pages |-> OutcomeOf(tasks[p])]

(* The outcome a client sees, by the status of the row. *)
LEMMA OutcomeValues ==
  ASSUME NEW row \in RowType
  PROVE  /\ row.status = "absent" <=> OutcomeOf(row) = "none"
         /\ Open(row) <=> OutcomeOf(row) = "pending"
         /\ row.status = "completed" <=> OutcomeOf(row) = "page"
         /\ row.status = "failed" <=> OutcomeOf(row) = "error"
  BY DEF RowType, OutcomeOf, Open

(* Rows that differ in nothing a client sees. *)
LEMMA OutcomeByStatus ==
  ASSUME NEW row \in RowType, NEW new \in RowType,
         \/ new.status = row.status
         \/ Open(new) /\ Open(row)
  PROVE  OutcomeOf(new) = OutcomeOf(row)
  BY DEF RowType, OutcomeOf, Open

(* What CrawlJob counts is what the queue counts, in this state ... *)
LEMMA SeenCounts ==
  ASSUME tasks \in [Pages -> RowType], NEW j \in Jobs
  PROVE  /\ Client!Total(Seen, j) = Cardinality(Found(j))
         /\ Client!Pending(Seen, j) <=> \E p \in PagesOf(j) : Open(tasks[p])
<1>1. {p \in Pages : JobOf[p] = j /\ Seen[p] # "none"} = Found(j)
  BY OutcomeValues DEF Seen, Found, PagesOf
<1>2. Client!Total(Seen, j) = Cardinality(Found(j))
  BY <1>1 DEF Client!Total, Client!Cardinality, Cardinality
<1>3. \A p \in Pages : Seen[p] = "pending" <=> Open(tasks[p])
  BY OutcomeValues DEF Seen
<1>4. QED
  BY <1>2, <1>3 DEF Client!Pending, PagesOf

(* ... and in the next one. *)
LEMMA SeenCountsNext ==
  ASSUME tasks' \in [Pages -> RowType], NEW j \in Jobs
  PROVE  /\ Client!Total(Seen', j) = Cardinality(Found(j)')
         /\ Client!Pending(Seen', j) <=> \E p \in PagesOf(j) : Open(tasks'[p])
<1>1. {p \in Pages : JobOf[p] = j /\ Seen'[p] # "none"} = Found(j)'
  BY OutcomeValues DEF Seen, Found, PagesOf
<1>2. Client!Total(Seen', j) = Cardinality(Found(j)')
  BY <1>1 DEF Client!Total, Client!Cardinality, Cardinality
<1>3. \A p \in Pages : Seen'[p] = "pending" <=> Open(tasks'[p])
  BY OutcomeValues DEF Seen
<1>4. QED
  BY <1>2, <1>3 DEF Client!Pending, PagesOf

(* Nothing a client sees changes. *)
LEMMA Unseen ==
  ASSUME tasks \in [Pages -> RowType], tasks' \in [Pages -> RowType],
         status' = status,
         \A p \in Pages : \/ tasks'[p].status = tasks[p].status
                          \/ Open(tasks'[p]) /\ Open(tasks[p])
  PROVE  UNCHANGED Client!jobView
<1>1. Seen' = Seen
  BY OutcomeByStatus DEF Seen
<1>2. QED
  BY <1>1 DEF Client!jobView, Seen

-----------------------------------------------------------------------------
(* Initial states map to initial states. *)
LEMMA ClientInit == ASSUME Init PROVE Client!Init
  BY BlankType DEF Init, Untouched, Client!Init, OutcomeOf

(* Steps map to steps or stutter. *)
LEMMA ClientStep ==
  ASSUME TypeOK, TypeOK', QueueInv, QueueInv', PageLimitHeld', [Next]_vars
  PROVE  [Client!Next]_(Client!jobView)
<1>1. /\ tasks \in [Pages -> RowType] /\ tasks' \in [Pages -> RowType]
      /\ status \in [Jobs -> {"absent", "queued", "scraping", "completed",
                              "cancelled", "deleted"}]
      /\ JobOf \in [Pages -> Jobs]
      /\ \A j \in Jobs : Cardinality(Found(j)') <= PageLimit[j]
  BY QueueAssumption DEF TypeOK, PageLimitHeld
<1> USE <1>1
<1>2. ASSUME NEW j \in Jobs, NEW p \in Pages, EnqueueCrawl(j, p)
      PROVE  Client!Accept(j, {p})
  <2>1. Seen' = [q \in Pages |-> IF q \in {p} THEN "pending" ELSE Seen[q]]
    BY <1>2, QueuedType, OutcomeValues DEF EnqueueCrawl, Seen, Open
  <2>2. Client!Total(Seen', j) <= PageLimit[j]
    BY SeenCountsNext
  <2>3. QED
    BY <1>2, <2>1, <2>2 DEF EnqueueCrawl, Client!Accept, Client!PagesOf, Seen
<1>3. ASSUME NEW j \in Jobs, NEW urls \in SUBSET Pages, urls \subseteq PagesOf(j), EnqueueBatch(j, urls)
      PROVE  Client!Accept(j, urls)
  <2>1. Seen' = [q \in Pages |-> IF q \in urls THEN "pending" ELSE Seen[q]]
    BY <1>3, QueuedType, OutcomeValues DEF EnqueueBatch, Seen, Open
  <2>2. Client!Total(Seen', j) <= PageLimit[j]
    BY SeenCountsNext
  <2>3. QED
    BY <1>3, <2>1, <2>2 DEF EnqueueBatch, Client!Accept, Client!PagesOf, Seen, PagesOf
<1>4. ASSUME NEW j \in Jobs, Cancel(j) PROVE Client!Cancel(j)
  BY <1>4 DEF Cancel, Client!Cancel
<1>5. ASSUME NEW w \in Workers, Cleanup(w)
      PROVE  Client!Forget({j \in expired : status[j] \in {"completed", "cancelled"}})
  <2> DEFINE gone == {j \in expired : status[j] \in {"completed", "cancelled"}}
  <2>1. Seen' = [p \in Pages |-> IF JobOf[p] \in gone THEN "none" ELSE Seen[p]]
    BY <1>5, BlankType, OutcomeValues DEF Cleanup, Seen
  <2>2. QED
    BY <1>5, <2>1 DEF Cleanup, Client!Forget, Seen
<1>6. ASSUME NEW w \in Workers, NEW p \in Pages, ClaimTask(w, p)
      PROVE  Client!Start(JobOf[p]) \/ UNCHANGED Client!jobView
  <2>1. /\ Open(tasks[p]) /\ status[JobOf[p]] \in {"queued", "scraping"}
        /\ status' = [status EXCEPT ![JobOf[p]] = "scraping"]
    BY <1>6 DEF ClaimTask, QueueInv, CandidatesOpen
  <2>2. Open(tasks'[p]) /\ \A q \in Pages : q # p => tasks'[q] = tasks[q]
    BY <1>6, AttemptType, ClaimUpdate DEF ClaimTask, Open
  <2>3. Seen' = Seen
    BY <2>1, <2>2, OutcomeByStatus DEF Seen
  <2>4. QED
    BY <2>1, <2>3 DEF Client!Start, Client!jobView, Seen
<1>7. ASSUME NEW w \in Workers, NEW fresh \in SUBSET Pages,
             fresh \subseteq PagesOf(JobOf[held[w]]), FinishSuccess(w, fresh)
      PROVE  Client!Record(held[w], "page", fresh) \/ UNCHANGED Client!jobView
  <2>1. held[w] \in Pages /\ JobOf[held[w]] \in Jobs
    BY <1>7, HeldType DEF FinishSuccess, Processing
  <2>2. CASE ~OwnsLease(w)
    BY <1>7, <2>2, Unseen DEF FinishSuccess
  <2>3. CASE OwnsLease(w)
    <3> DEFINE p == held[w]
               j == JobOf[p]
    <3>1. /\ tasks[p].status = "active" /\ status[j] \in {"scraping", "cancelled"}
          /\ \A q \in fresh : JobOf[q] = j /\ tasks[q].status = "absent"
          /\ fresh # {} => status[j] = "scraping"
      BY <1>7, <2>1, <2>3
         DEF FinishSuccess, OwnsLease, CanInsert, MayDiscover, PagesOf, QueueInv,
             LeasedJobsStarted, CancelRecorded
    <3>2. /\ tasks'[p].status = "completed"
          /\ \A q \in fresh : tasks'[q].status = "queued"
          /\ \A q \in Pages : q # p /\ q \notin fresh => tasks'[q] = tasks[q]
      <4>1. tasks[p].depth + 1 \in Nat
        BY <2>1 DEF RowType
      <4>2. QED
        BY <1>7, <2>1, <2>3, <3>1, <4>1, QueuedType, RowUpdates DEF FinishSuccess
    <3>3. Seen' = [q \in Pages |-> IF q = p THEN "page"
                                   ELSE IF q \in fresh THEN "pending" ELSE Seen[q]]
      BY <2>1, <3>1, <3>2, OutcomeValues DEF Seen, Open
    <3>4. status' = IF j \notin cancelled /\ \A q \in PagesOf(j) : ~Open(tasks'[q])
                    THEN [status EXCEPT ![j] = "completed"] ELSE status
      BY <1>7, <2>1, <2>3 DEF FinishSuccess, StatusAfter, Drained
    <3>5. status' = IF status[j] = "scraping" /\ ~Client!Pending(Seen', j)
                    THEN [status EXCEPT ![j] = "completed"] ELSE status
      BY <2>1, <3>1, <3>4, SeenCountsNext DEF QueueInv, CancelRecorded
    <3>6. Client!Total(Seen', j) <= PageLimit[j]
      BY <2>1, SeenCountsNext
    <3>7. Seen[p] = "pending" /\ \A q \in fresh : Seen[q] = "none"
      BY <2>1, <3>1, OutcomeValues DEF Seen, Open
    <3>8. Client!Record(p, "page", fresh)
      BY <2>1, <3>1, <3>3, <3>5, <3>6, <3>7 DEF Client!Record, Client!PagesOf, Client!Unfound, Seen
    <3>9. QED
      BY <3>8
  <2>4. QED
    BY <2>2, <2>3
<1>8. ASSUME NEW w \in Workers, NEW retryable \in BOOLEAN, FinishFailure(w, retryable)
      PROVE  Client!Record(held[w], "error", {}) \/ UNCHANGED Client!jobView
  <2>1. held[w] \in Pages /\ JobOf[held[w]] \in Jobs
    BY <1>8, HeldType DEF FinishFailure, Processing
  <2>2. CASE ~OwnsLease(w)
    BY <1>8, <2>2, Unseen DEF FinishFailure
  <2>3. CASE OwnsLease(w)
    <3> DEFINE p == held[w]
               j == JobOf[p]
    <3>1. /\ tasks[p].status = "active" /\ status[j] \in {"scraping", "cancelled"}
      BY <2>1, <2>3 DEF OwnsLease, QueueInv, LeasedJobsStarted
    <3>2. /\ tasks'[p].status \in {"queued", "failed"}
          /\ \A q \in Pages : q # p => tasks'[q] = tasks[q]
      BY <1>8, <2>1, <2>3, RowUpdates DEF FinishFailure
    <3>3. status' = IF j \notin cancelled /\ \A q \in PagesOf(j) : ~Open(tasks'[q])
                    THEN [status EXCEPT ![j] = "completed"] ELSE status
      BY <1>8, <2>1, <2>3 DEF FinishFailure, StatusAfter, Drained
    <3>4. CASE tasks'[p].status = "queued"
      <4>1. status' = status
        BY <2>1, <3>3, <3>4 DEF PagesOf, Open
      <4>2. \A q \in Pages : \/ tasks'[q].status = tasks[q].status
                             \/ Open(tasks'[q]) /\ Open(tasks[q])
        BY <3>1, <3>2, <3>4 DEF Open
      <4>3. QED
        BY <4>1, <4>2, Unseen
    <3>5. CASE tasks'[p].status = "failed"
      <4>1. Seen' = [q \in Pages |-> IF q = p THEN "error"
                                     ELSE IF q \in {} THEN "pending" ELSE Seen[q]]
        BY <2>1, <3>2, <3>5, OutcomeValues DEF Seen
      <4>2. status' = IF status[j] = "scraping" /\ ~Client!Pending(Seen', j)
                      THEN [status EXCEPT ![j] = "completed"] ELSE status
        BY <2>1, <3>1, <3>3, SeenCountsNext DEF QueueInv, CancelRecorded
      <4>3. Client!Total(Seen', j) <= PageLimit[j]
        BY <2>1, SeenCountsNext
      <4>4. Seen[p] = "pending"
        BY <2>1, <3>1, OutcomeValues DEF Seen, Open
      <4>5. Client!Record(p, "error", {})
        BY <2>1, <3>1, <4>1, <4>2, <4>3, <4>4 DEF Client!Record, Client!PagesOf, Client!Unfound, Seen
      <4>6. QED
        BY <4>5
    <3>6. QED
      BY <3>2, <3>4, <3>5
  <2>4. QED
    BY <2>2, <2>3
<1>9. ASSUME NEW p \in Pages, LeaseLapses(p) \/ RetryFallsDue(p)
      PROVE  UNCHANGED Client!jobView
  BY <1>9, Unseen, RowUpdates DEF LeaseLapses, RetryFallsDue, jobVars
<1>10. ASSUME NEW w \in Workers, ClaimPage(w) PROVE UNCHANGED Client!jobView
  <2>1. held[w] \in Pages
    BY <1>10, HeldType DEF ClaimPage, Processing
  <2>2. QED
    BY <1>10, <2>1, Unseen, RowUpdates DEF ClaimPage, jobVars
<1>11. ASSUME NEW j \in Jobs, DelayElapses(j) \/ RetentionEnds(j)
       PROVE  UNCHANGED Client!jobView
  BY <1>11 DEF DelayElapses, RetentionEnds, Client!jobView
<1>12. ASSUME NEW w \in Workers,
              \/ BeginClaim(w) \/ ClaimNothing(w) \/ Exit(w) \/ ReadOptions(w)
              \/ ClaimStarted(w) \/ PostStarted(w) \/ PostPage(w)
              \/ ClaimCompleted(w) \/ PostCompleted(w) \/ Restart(w)
       PROVE  UNCHANGED Client!jobView
  BY <1>12 DEF BeginClaim, ClaimNothing, Exit, ReadOptions, ClaimStarted, PostStarted,
               PostPage, ClaimCompleted, PostCompleted, Restart, jobVars, Client!jobView
<1>13. CASE UNCHANGED vars
  BY <1>13 DEF vars, jobVars, Client!jobView
<1>14. ASSUME NEW w \in Workers, pc[w] = "scraping", Scrape(w)
       PROVE  [Client!Next]_(Client!jobView)
  <2>1. held[w] \in Pages
    BY <1>14, HeldType DEF Processing
  <2>2. ASSUME NEW result \in {"page", "error"}, NEW fresh, Client!Record(held[w], result, fresh)
        PROVE  Client!Next
    <3>1. /\ held[w] \in {q \in Pages : Seen[q] = "pending"}
          /\ fresh \in SUBSET Client!Unfound(JobOf[held[w]])
      BY <2>1, <2>2 DEF Client!Record, Seen
    <3>2. QED
      BY <2>2, <3>1 DEF Client!Next, Seen
  <2>3. QED
    BY <1>7, <1>8, <1>14, <2>1, <2>2 DEF Scrape, PagesOf
<1>15. ASSUME NEW w \in Workers, Cleanup(w) PROVE Client!Next
  <2>1. {j \in expired : status[j] \in {"completed", "cancelled"}} \in SUBSET Jobs
    BY DEF TypeOK
  <2>2. QED
    BY <1>5, <1>15, <2>1 DEF Client!Next
<1>16. ASSUME Api PROVE Client!Next
  <2>1. \A j \in Jobs : PagesOf(j) = Client!PagesOf(j)
    BY DEF PagesOf, Client!PagesOf
  <2>2. ASSUME NEW j \in Jobs, NEW p \in Pages, EnqueueCrawl(j, p)
        PROVE  Client!Next
    <3>1. Client!Accept(j, {p}) /\ {p} \in SUBSET Client!PagesOf(j)
      BY <1>2, <2>2 DEF EnqueueCrawl, Client!PagesOf
    <3>2. QED
      BY <3>1 DEF Client!Next
  <2>3. ASSUME NEW j \in Jobs, NEW urls \in SUBSET PagesOf(j), EnqueueBatch(j, urls)
        PROVE  Client!Next
    <3>1. Client!Accept(j, urls) /\ urls \in SUBSET Client!PagesOf(j)
      BY <1>3, <2>1, <2>3 DEF PagesOf
    <3>2. QED
      BY <3>1 DEF Client!Next
  <2>4. ASSUME NEW j \in Jobs, Cancel(j) PROVE Client!Next
    BY <1>4, <2>4 DEF Client!Next
  <2>5. QED
    BY <1>16, <2>2, <2>3, <2>4 DEF Api
<1>17. ASSUME NEW w \in Workers, NEW p \in Pages, ClaimTask(w, p)
       PROVE  [Client!Next]_(Client!jobView)
  BY <1>6, <1>17 DEF Client!Next
<1>18. QED
  BY <1>9, <1>10, <1>11, <1>12, <1>13, <1>14, <1>15, <1>16, <1>17
     DEF Next, Time, WorkerStep, JobGone, Crash

(* The queue implements CrawlJob. *)
THEOREM ImplementsJobTheorem == Spec => ImplementsJob
<1>1. TypeOK /\ TypeOK' /\ QueueInv /\ QueueInv' /\ PageLimitHeld' /\ [Next]_vars
        => [Client!Next]_(Client!jobView)
  BY ClientStep
<1>2. Init => Client!Init
  BY ClientInit
<1>3. QED
  BY <1>1, <1>2, TypeCorrect, QueueInvariant, PageLimitKept, PTL
     DEF Spec, ImplementsJob, Client!Spec

-----------------------------------------------------------------------------
(* Webhook events: claimed in the database, then posted.  An event is      *)
(* sealed once a worker has claimed it, or once its job is deleted; only   *)
(* an unsealed event is claimed, so one worker posts it, once.             *)

Kinds == {"started", "page", "completed"}
Subjects(kind) == IF kind = "page" THEN Pages ELSE Jobs

Sealed(kind, x) ==
    CASE kind = "started" -> x \in started \/ status[x] = "deleted"
      [] kind = "completed" -> x \in completed \/ status[x] = "deleted"
      [] kind = "page" -> tasks[x].notified \/ status[JobOf[x]] = "deleted"

Sending(w, kind, x) ==
    \/ kind = "started" /\ pc[w] = "postStarted" /\ x = JobOf[held[w]]
    \/ kind = "completed" /\ pc[w] = "postCompleted" /\ x = JobOf[held[w]]
    \/ kind = "page" /\ pc[w] = "postPage" /\ x = held[w]

EventOnce(kind, x) ==
    /\ <<kind, x>> \in received => Sealed(kind, x)
    /\ \A w \in Workers : Sending(w, kind, x) =>
          /\ Sealed(kind, x) /\ <<kind, x>> \notin received
          /\ \A v \in Workers : Sending(v, kind, x) => v = w

(* The three ways a step can bear on an event. *)
Ignores(kind, x) ==
    /\ Sealed(kind, x) => Sealed(kind, x)'
    /\ <<kind, x>> \in received' <=> <<kind, x>> \in received
    /\ \A w \in Workers : Sending(w, kind, x)' => Sending(w, kind, x)

Seals(kind, x) ==
    /\ ~Sealed(kind, x) /\ Sealed(kind, x)'
    /\ <<kind, x>> \in received' <=> <<kind, x>> \in received
    /\ \E w \in Workers : \A v \in Workers \ {w} :
          Sending(v, kind, x)' => Sending(v, kind, x)

Delivers(kind, x) ==
    /\ Sealed(kind, x) => Sealed(kind, x)'
    /\ \E w \in Workers :
          /\ Sending(w, kind, x) /\ ~Sending(w, kind, x)'
          /\ \A v \in Workers : Sending(v, kind, x)' => Sending(v, kind, x)

(* Each of the three keeps EventOnce. *)
LEMMA EventOnceKept ==
  ASSUME NEW kind, NEW x, EventOnce(kind, x),
         Ignores(kind, x) \/ Seals(kind, x) \/ Delivers(kind, x)
  PROVE  EventOnce(kind, x)'
<1>1. CASE Ignores(kind, x)
  BY <1>1 DEF EventOnce, Ignores
<1>2. CASE Seals(kind, x)
  BY <1>2 DEF EventOnce, Seals
<1>3. CASE Delivers(kind, x)
  BY <1>3 DEF EventOnce, Delivers
<1>4. QED
  BY <1>1, <1>2, <1>3

-----------------------------------------------------------------------------
(* A page is marked as notified after its outcome, a job after it completed. *)
NotifiedDone ==
    /\ \A p \in Pages : tasks[p].notified => tasks[p].status \in {"completed", "failed"}
    /\ \A j \in completed : status[j] = "completed"

(* Which UPDATEs touch webhook_delivered_at. *)
LEMMA NotifiedUpdates ==
  ASSUME NEW row \in RowType
  PROVE  /\ \A new \in {Succeeded(row), Requeued(row), Failed(row), LeaseLost(row), RetryDue(row)} :
               new.notified = row.notified
         /\ \A w \in Workers, n \in Nat : Claimed(row, w, n).notified = row.notified
         /\ Notified(row).notified
  BY DEF RowType, Succeeded, Requeued, Failed, LeaseLost, RetryDue, Claimed, Notified

(* A new task was not notified. *)
LEMMA NewRowsUnnotified ==
  /\ ~Blank.notified
  /\ \A d \in Nat : ~QueuedRow(d).notified
  BY DEF Blank, QueuedRow

(* A mark is never taken back, short of deleting the job. *)
MarksKept ==
    /\ \A j \in Jobs : status[j] = "deleted" => status'[j] = "deleted"
    /\ \A j \in started : j \in started' \/ status'[j] = "deleted"
    /\ \A j \in completed : j \in completed' \/ status'[j] = "deleted"
    /\ \A p \in Pages : tasks[p].notified =>
          tasks'[p].notified \/ status'[JobOf[p]] = "deleted"

(* No action takes a mark back. *)
LEMMA MarkSteps ==
  ASSUME TypeOK, QueueInv, NotifiedDone, [Next]_vars
  PROVE  MarksKept /\ NotifiedDone'
<1>1. /\ tasks \in [Pages -> RowType] /\ JobOf \in [Pages -> Jobs]
      /\ started \in SUBSET Jobs /\ completed \in SUBSET Jobs
      /\ status \in [Jobs -> {"absent", "queued", "scraping", "completed",
                              "cancelled", "deleted"}]
  BY QueueAssumption DEF TypeOK
<1>2. \A j \in Jobs :
        /\ status[j] = "completed" => status'[j] \in {"completed", "deleted"}
        /\ status[j] = "deleted" => status'[j] = "deleted"
  BY JobSteps DEF JobStep
<1> DEFINE RowsKept ==
       \A p \in Pages :
          /\ tasks[p].notified => tasks'[p].notified \/ status'[JobOf[p]] = "deleted"
          /\ tasks'[p].notified => tasks'[p].status \in {"completed", "failed"}
           JobsKept ==
       /\ \A j \in started : j \in started' \/ status'[j] = "deleted"
       /\ \A j \in completed : j \in completed' \/ status'[j] = "deleted"
       /\ \A j \in completed' : status'[j] = "completed"
<1> USE <1>1
<1>3. ASSUME NEW i \in Jobs, NEW q \in Pages, EnqueueCrawl(i, q)
      PROVE  RowsKept
  BY <1>3, QueuedType, NewRowsUnnotified DEF EnqueueCrawl, NotifiedDone, QueueInv, TasksHaveJobs
<1>4. ASSUME NEW i \in Jobs, NEW urls \in SUBSET Pages, urls \subseteq PagesOf(i), EnqueueBatch(i, urls)
      PROVE  RowsKept
  BY <1>4, QueuedType, NewRowsUnnotified
     DEF EnqueueBatch, NotifiedDone, QueueInv, TasksHaveJobs, PagesOf
<1>5. ASSUME NEW q \in Pages, LeaseLapses(q) \/ RetryFallsDue(q) PROVE RowsKept
  <2>1. /\ LeaseLost(tasks[q]).notified = tasks[q].notified
        /\ RetryDue(tasks[q]).notified = tasks[q].notified
    BY NotifiedUpdates
  <2>2. QED
    BY <1>5, <2>1 DEF LeaseLapses, RetryFallsDue, NotifiedDone
<1>6. ASSUME NEW w \in Workers, Cleanup(w) PROVE RowsKept
  BY <1>6, NewRowsUnnotified DEF Cleanup, NotifiedDone
<1>7. ASSUME NEW w \in Workers, NEW q \in Pages, ClaimTask(w, q) PROVE RowsKept
  <2>1. Open(tasks[q]) /\ ~tasks[q].notified
    BY <1>7 DEF ClaimTask, QueueInv, CandidatesOpen, NotifiedDone, Open
  <2>2. ~Claimed(tasks[q], w, NextAttempt(q)).notified
    BY <2>1, NotifiedUpdates, AttemptType
  <2>3. QED
    BY <1>7, <2>1, <2>2 DEF ClaimTask, NotifiedDone
<1>8. ASSUME NEW w \in Workers, NEW fresh \in SUBSET Pages, FinishSuccess(w, fresh)
      PROVE  RowsKept
  <2>1. held[w] \in Pages
    BY <1>8, HeldType DEF FinishSuccess, Processing
  <2>2. CASE ~OwnsLease(w)
    BY <1>8, <2>2 DEF FinishSuccess, NotifiedDone
  <2>3. CASE OwnsLease(w)
    <3>1. /\ tasks[held[w]].depth + 1 \in Nat
          /\ ~tasks[held[w]].notified
          /\ \A q \in fresh : ~tasks[q].notified
      BY <1>8, <2>1, <2>3 DEF FinishSuccess, OwnsLease, CanInsert, NotifiedDone, RowType
    <3>2. /\ ~QueuedRow(tasks[held[w]].depth + 1).notified
          /\ ~Succeeded(tasks[held[w]]).notified
      BY <2>1, <3>1, NotifiedUpdates, NewRowsUnnotified
    <3>3. QED
      BY <1>8, <2>1, <2>3, <3>1, <3>2 DEF FinishSuccess, NotifiedDone
  <2>4. QED
    BY <2>2, <2>3
<1>9. ASSUME NEW w \in Workers, NEW retryable \in BOOLEAN, FinishFailure(w, retryable)
      PROVE  RowsKept
  <2>1. held[w] \in Pages
    BY <1>9, HeldType DEF FinishFailure, Processing
  <2>2. CASE ~OwnsLease(w)
    BY <1>9, <2>2 DEF FinishFailure, NotifiedDone
  <2>3. CASE OwnsLease(w)
    <3>1. ~tasks[held[w]].notified
      BY <2>1, <2>3 DEF OwnsLease, NotifiedDone
    <3>2. ~Requeued(tasks[held[w]]).notified /\ ~Failed(tasks[held[w]]).notified
      BY <2>1, <3>1, NotifiedUpdates
    <3>3. QED
      BY <1>9, <2>1, <2>3, <3>1, <3>2 DEF FinishFailure, NotifiedDone
  <2>4. QED
    BY <2>2, <2>3
<1>10. ASSUME NEW w \in Workers, ClaimPage(w) PROVE RowsKept
  <2>1. held[w] \in Pages
    BY <1>10, HeldType DEF ClaimPage, Processing
  <2>2. /\ Notified(tasks[held[w]]).status = tasks[held[w]].status
        /\ Notified(tasks[held[w]]).notified
    BY <2>1, RowUpdates, NotifiedUpdates
  <2>3. QED
    BY <1>10, <2>1, <2>2 DEF ClaimPage, PageUnclaimed, NotifiedDone
<1>11. ASSUME UNCHANGED tasks PROVE RowsKept
  BY <1>11 DEF NotifiedDone
<1>12. RowsKept
  <2> HIDE DEF RowsKept
  <2>1. ASSUME NEW w \in Workers,
               \/ BeginClaim(w) \/ ClaimNothing(w) \/ Exit(w) \/ ReadOptions(w)
               \/ ClaimStarted(w) \/ PostStarted(w) \/ PostPage(w)
               \/ ClaimCompleted(w) \/ PostCompleted(w) \/ Restart(w)
        PROVE  UNCHANGED tasks
    BY <2>1 DEF BeginClaim, ClaimNothing, Exit, ReadOptions, ClaimStarted, PostStarted,
                PostPage, ClaimCompleted, PostCompleted, Restart
  <2>2. ASSUME NEW i \in Jobs, Cancel(i) \/ DelayElapses(i) \/ RetentionEnds(i)
        PROVE  UNCHANGED tasks
    BY <2>2 DEF Cancel, DelayElapses, RetentionEnds
  <2>3. CASE UNCHANGED vars
    BY <1>11, <2>3 DEF vars
  <2>4. QED
    BY <1>3, <1>4, <1>5, <1>6, <1>7, <1>8, <1>9, <1>10, <1>11, <2>1, <2>2, <2>3
       DEF Next, Api, Time, WorkerStep, Scrape, JobGone, Crash, PagesOf
<1> DEFINE Survives ==
       /\ UNCHANGED <<started, completed>>
       /\ \A j \in Jobs : status'[j] = "deleted" => status[j] = "deleted"
<1>13. ASSUME Survives PROVE JobsKept
  BY <1>13, <1>2 DEF NotifiedDone
<1>14. JobsKept
  <2>1. ASSUME Api \/ Time PROVE Survives
    BY <2>1 DEF Api, Time, EnqueueCrawl, EnqueueBatch, Cancel, LeaseLapses, RetryFallsDue,
                DelayElapses, RetentionEnds, jobVars
  <2>2. ASSUME NEW w \in Workers, Cleanup(w) PROVE JobsKept
    BY <2>2 DEF Cleanup, NotifiedDone
  <2>3. ASSUME NEW w \in Workers, ClaimStarted(w) \/ ClaimCompleted(w) PROVE JobsKept
    BY <2>3 DEF ClaimStarted, ClaimCompleted, CompletedUnclaimed, NotifiedDone
  <2>4. ASSUME NEW w \in Workers,
               \/ BeginClaim(w) \/ ClaimNothing(w) \/ Exit(w) \/ ReadOptions(w)
               \/ PostStarted(w) \/ ClaimPage(w) \/ PostPage(w) \/ PostCompleted(w)
               \/ Restart(w)
        PROVE  Survives
    BY <2>4 DEF BeginClaim, ClaimNothing, Exit, ReadOptions, PostStarted,
                ClaimPage, PostPage, PostCompleted, Restart, jobVars
  <2>5. ASSUME NEW w \in Workers, NEW p \in Pages, ClaimTask(w, p) PROVE Survives
    BY <2>5 DEF ClaimTask
  <2>6. ASSUME NEW w \in Workers, pc[w] = "scraping", Scrape(w) PROVE Survives
    BY <2>6 DEF Scrape, FinishSuccess, FinishFailure, StatusAfter
  <2>7. ASSUME UNCHANGED vars PROVE Survives
    BY <2>7 DEF vars, jobVars
  <2> HIDE DEF JobsKept, Survives
  <2>8. QED
    BY <1>13, <2>1, <2>2, <2>3, <2>4, <2>5, <2>6, <2>7 DEF Next, WorkerStep, JobGone, Crash
<1>15. QED
  BY <1>2, <1>12, <1>14 DEF MarksKept, NotifiedDone

-----------------------------------------------------------------------------
(* A step that sends nothing new. *)
Sends == {"postStarted", "postPage", "postCompleted"}

SendsNothing ==
    /\ received' = received
    /\ \A w \in Workers : pc'[w] \in Sends => pc'[w] = pc[w] /\ held'[w] = held[w]

(* Sealed events stay sealed. *)
LEMMA StaysSealed ==
  ASSUME MarksKept, NEW kind \in Kinds, NEW x \in Subjects(kind), JobOf \in [Pages -> Jobs]
  PROVE  Sealed(kind, x) => Sealed(kind, x)'
<1>1. CASE kind = "started"
  BY <1>1 DEF MarksKept, Sealed, Subjects
<1>2. CASE kind = "completed"
  BY <1>2 DEF MarksKept, Sealed, Subjects
<1>3. CASE kind = "page"
  BY <1>3 DEF MarksKept, Sealed, Subjects
<1>4. QED
  BY <1>1, <1>2, <1>3 DEF Kinds

(* A step that sends nothing new ignores the event. *)
LEMMA QuietStep ==
  ASSUME MarksKept, NEW kind \in Kinds, NEW x \in Subjects(kind), SendsNothing
  PROVE  Ignores(kind, x)
<1>1. Sealed(kind, x) => Sealed(kind, x)'
  BY StaysSealed, QueueAssumption
<1>2. \A w \in Workers : Sending(w, kind, x)' => Sending(w, kind, x)
  BY DEF SendsNothing, Sending, Sends
<1>3. QED
  BY <1>1, <1>2 DEF Ignores, SendsNothing

(* Every step bears on an event in one of the three ways. *)
LEMMA EventSteps ==
  ASSUME TypeOK, QueueInv, NotifiedDone, [Next]_vars,
         NEW kind \in Kinds, NEW x \in Subjects(kind)
  PROVE  Ignores(kind, x) \/ Seals(kind, x) \/ Delivers(kind, x)
<1>1. /\ tasks \in [Pages -> RowType] /\ JobOf \in [Pages -> Jobs]
      /\ pc \in [Workers -> {"idle", "claiming", "down"} \cup Processing]
      /\ held \in [Workers -> Pages \cup {NoPage}]
      /\ MarksKept
  BY MarkSteps, QueueAssumption DEF TypeOK
<1> USE <1>1
<1>2. ASSUME Api \/ Time PROVE SendsNothing
  BY <1>2 DEF Api, Time, EnqueueCrawl, EnqueueBatch, Cancel, LeaseLapses, RetryFallsDue,
              DelayElapses, RetentionEnds, SendsNothing
<1>3. ASSUME NEW w \in Workers,
             \/ Cleanup(w) \/ BeginClaim(w) \/ (\E p \in Pages : ClaimTask(w, p))
             \/ ClaimNothing(w) \/ Exit(w) \/ ReadOptions(w) \/ Restart(w)
      PROVE  SendsNothing
  BY <1>3 DEF Cleanup, BeginClaim, ClaimTask, ClaimNothing, Exit, ReadOptions, Restart,
              Done, Goto, SendsNothing, Sends
<1>4. ASSUME NEW w \in Workers, Scrape(w) PROVE SendsNothing
  BY <1>4 DEF Scrape, FinishSuccess, FinishFailure, Goto, SendsNothing, Sends
<1>5. ASSUME UNCHANGED vars PROVE SendsNothing
  BY <1>5 DEF vars, SendsNothing
<1>6. ASSUME NEW w \in Workers, ClaimStarted(w)
      PROVE  Ignores(kind, x) \/ Seals(kind, x)
  <2> DEFINE j == JobOf[held[w]]
  <2>1. held[w] \in Pages /\ j \in Jobs
    BY <1>6, HeldType DEF ClaimStarted, Processing
  <2>2. CASE ~StartedUnclaimed(j)
    <3>1. SendsNothing
      BY <1>6, <2>2 DEF ClaimStarted, Goto, SendsNothing, Sends
    <3>2. QED
      BY <3>1, QuietStep
  <2>3. CASE StartedUnclaimed(j)
    <3>1. /\ received' = received /\ held' = held /\ status' = status
          /\ pc' = [pc EXCEPT ![w] = "postStarted"] /\ started' = started \cup {j}
          /\ j \notin started /\ status[j] # "deleted"
      BY <1>6, <2>3 DEF ClaimStarted, StartedUnclaimed, Goto
    <3>2. CASE kind = "started" /\ x = j
      BY <2>1, <3>1, <3>2 DEF Seals, Sealed, Sending
    <3>3. CASE ~(kind = "started" /\ x = j)
      <4>1. \A v \in Workers : Sending(v, kind, x)' => Sending(v, kind, x)
        BY <3>1, <3>3 DEF Sending
      <4>2. Sealed(kind, x) => Sealed(kind, x)'
        BY StaysSealed
      <4>3. QED
        BY <3>1, <4>1, <4>2 DEF Ignores
    <3>4. QED
      BY <3>2, <3>3
  <2>4. QED
    BY <2>2, <2>3
<1>7. ASSUME NEW w \in Workers, ClaimCompleted(w)
      PROVE  Ignores(kind, x) \/ Seals(kind, x)
  <2> DEFINE j == JobOf[held[w]]
  <2>1. held[w] \in Pages /\ j \in Jobs
    BY <1>7, HeldType DEF ClaimCompleted, Processing
  <2>2. CASE ~CompletedUnclaimed(j)
    <3>1. SendsNothing
      BY <1>7, <2>2 DEF ClaimCompleted, Done, Goto, SendsNothing, Sends
    <3>2. QED
      BY <3>1, QuietStep
  <2>3. CASE CompletedUnclaimed(j)
    <3>1. /\ received' = received /\ held' = held /\ status' = status
          /\ pc' = [pc EXCEPT ![w] = "postCompleted"] /\ completed' = completed \cup {j}
          /\ j \notin completed /\ status[j] # "deleted"
      BY <1>7, <2>3 DEF ClaimCompleted, CompletedUnclaimed, Goto
    <3>2. CASE kind = "completed" /\ x = j
      BY <2>1, <3>1, <3>2 DEF Seals, Sealed, Sending
    <3>3. CASE ~(kind = "completed" /\ x = j)
      <4>1. \A v \in Workers : Sending(v, kind, x)' => Sending(v, kind, x)
        BY <3>1, <3>3 DEF Sending
      <4>2. Sealed(kind, x) => Sealed(kind, x)'
        BY StaysSealed
      <4>3. QED
        BY <3>1, <4>1, <4>2 DEF Ignores
    <3>4. QED
      BY <3>2, <3>3
  <2>4. QED
    BY <2>2, <2>3
<1>8. ASSUME NEW w \in Workers, ClaimPage(w)
      PROVE  Ignores(kind, x) \/ Seals(kind, x)
  <2> DEFINE p == held[w]
  <2>1. p \in Pages
    BY <1>8, HeldType DEF ClaimPage, Processing
  <2>2. CASE ~PageUnclaimed(p)
    <3>1. SendsNothing
      BY <1>8, <2>2 DEF ClaimPage, Goto, SendsNothing, Sends
    <3>2. QED
      BY <3>1, QuietStep
  <2>3. CASE PageUnclaimed(p)
    <3>1. /\ received' = received /\ held' = held /\ status' = status
          /\ pc' = [pc EXCEPT ![w] = "postPage"]
          /\ tasks' = [tasks EXCEPT ![p] = Notified(tasks[p])]
          /\ ~tasks[p].notified /\ status[JobOf[p]] # "deleted"
      BY <1>8, <2>1, <2>3 DEF ClaimPage, PageUnclaimed, Goto, jobVars, QueueInv, TasksHaveJobs
    <3>2. CASE kind = "page" /\ x = p
      <4>1. tasks'[p].notified
        BY <2>1, <3>1, NotifiedUpdates
      <4>2. QED
        BY <2>1, <3>1, <3>2, <4>1 DEF Seals, Sealed, Sending
    <3>3. CASE ~(kind = "page" /\ x = p)
      <4>1. \A v \in Workers : Sending(v, kind, x)' => Sending(v, kind, x)
        BY <3>1, <3>3 DEF Sending
      <4>2. Sealed(kind, x) => Sealed(kind, x)'
        BY StaysSealed
      <4>3. QED
        BY <3>1, <4>1, <4>2 DEF Ignores
    <3>4. QED
      BY <3>2, <3>3
  <2>4. QED
    BY <2>2, <2>3
<1>9. ASSUME NEW w \in Workers, PostStarted(w) \/ PostPage(w) \/ PostCompleted(w)
      PROVE  Ignores(kind, x) \/ Delivers(kind, x)
  <2>1. /\ pc'[w] \notin Sends
        /\ \A v \in Workers : v # w => pc'[v] = pc[v] /\ held'[v] = held[v]
    BY <1>9 DEF PostStarted, PostPage, PostCompleted, Done, Goto, Sends
  <2>2. /\ ~Sending(w, kind, x)'
        /\ \A v \in Workers : Sending(v, kind, x)' => Sending(v, kind, x)
    BY <2>1 DEF Sending, Sends
  <2>3. Sealed(kind, x) => Sealed(kind, x)'
    BY StaysSealed
  <2>4. CASE Sending(w, kind, x)
    BY <2>2, <2>3, <2>4 DEF Delivers
  <2>5. CASE ~Sending(w, kind, x)
    <3>1. <<kind, x>> \in received' <=> <<kind, x>> \in received
      BY <1>9, <2>5 DEF PostStarted, PostPage, PostCompleted, Post, Sending
    <3>2. QED
      BY <2>2, <2>3, <3>1 DEF Ignores
  <2>6. QED
    BY <2>4, <2>5
<1>10. QED
  BY <1>2, <1>3, <1>4, <1>5, <1>6, <1>7, <1>8, <1>9, QuietStep
     DEF Next, WorkerStep, JobGone, Crash

-----------------------------------------------------------------------------
EventsOnce == \A kind \in Kinds : \A x \in Subjects(kind) : EventOnce(kind, x)

(* Both invariants hold together. *)
LEMMA EventInvariant == Spec => [](NotifiedDone /\ EventsOnce)
<1>1. Init => NotifiedDone /\ EventsOnce
  <2>1. Init => NotifiedDone
    BY NewRowsUnnotified DEF Init, Untouched, NotifiedDone
  <2>2. Init => EventsOnce
    BY DEF Init, Untouched, EventsOnce, EventOnce, Sending
  <2>3. QED
    BY <2>1, <2>2
<1>2. TypeOK /\ QueueInv /\ NotifiedDone /\ EventsOnce /\ [Next]_vars
        => NotifiedDone' /\ EventsOnce'
  BY MarkSteps, EventSteps, EventOnceKept DEF EventsOnce
<1>3. QED
  BY <1>1, <1>2, TypeCorrect, QueueInvariant, PTL DEF Spec

(* No event is delivered twice, by one worker or by two. *)
THEOREM NoDuplicateTheorem == Spec => []NoDuplicateEvent
<1>1. TypeOK /\ EventsOnce => NoDuplicateEvent
  <2> SUFFICES ASSUME TypeOK, EventsOnce, NEW w \in Workers, Posting(w)
               PROVE  /\ EventOf(w) \notin received
                      /\ \A v \in Workers : Posting(v) /\ EventOf(v) = EventOf(w) => v = w
    BY DEF NoDuplicateEvent
  <2>1. \A v \in Workers : Posting(v) =>
           \E kind \in Kinds : \E x \in Subjects(kind) :
              EventOf(v) = <<kind, x>> /\ Sending(v, kind, x)
    <3> SUFFICES ASSUME NEW v \in Workers, Posting(v)
                 PROVE  \E kind \in Kinds : \E x \in Subjects(kind) :
                           EventOf(v) = <<kind, x>> /\ Sending(v, kind, x)
      OBVIOUS
    <3>1. held[v] \in Pages /\ JobOf[held[v]] \in Jobs
      BY HeldType DEF Posting, Processing
    <3>2. QED
      BY <3>1 DEF Posting, EventOf, Kinds, Subjects, Sending
  <2>2. PICK kind \in Kinds : \E x \in Subjects(kind) :
              EventOf(w) = <<kind, x>> /\ Sending(w, kind, x)
    BY <2>1
  <2>3. PICK x \in Subjects(kind) : EventOf(w) = <<kind, x>> /\ Sending(w, kind, x)
    BY <2>2
  <2>4. EventOnce(kind, x)
    BY DEF EventsOnce
  <2>5. \A v \in Workers : Posting(v) /\ EventOf(v) = EventOf(w) => Sending(v, kind, x)
    BY <2>1, <2>3
  <2>6. QED
    BY <2>3, <2>4, <2>5 DEF EventOnce
<1>2. QED
  BY <1>1, EventInvariant, TypeCorrect, PTL

(* A completed event is about a job that completed. *)
THEOREM CompletedEventTheorem == Spec => []CompletedEventSound
<1>1. NotifiedDone /\ EventsOnce => CompletedEventSound
  BY DEF NotifiedDone, EventsOnce, EventOnce, Sealed, Kinds, Subjects, CompletedEventSound
<1>2. QED
  BY <1>1, EventInvariant, PTL
=============================================================================
