-------------------------- MODULE JobWatcher_proofs -------------------------
(***************************************************************************)
(* What a client that watches or polls a job is told, for any number of    *)
(* pages and clients and any page size: what is read under the status      *)
(* completed is exact, done follows every result, and no document is sent  *)
(* twice.                                                                  *)
(***************************************************************************)
EXTENDS JobWatcherProps, Subsequences_proofs, SequenceTheorems, FiniteSetTheorems

Statuses == {"queued", "scraping", "completed", "cancelled", "deleted"}
RowEntry == [page : Pages, outcome : {"result", "error"}]

-----------------------------------------------------------------------------
(* The job.                                                                *)

(* What has an outcome, or is about to, has its place in the order; a      *)
(* queued job has begun nothing, a completed one has nothing left to do,   *)
(* and a deleted one has nothing.                                          *)
JobInv ==
    /\ status \in Statuses
    /\ row \in [Pages -> {"absent", "queued", "active", "finishing", "result", "error"}]
    /\ order \in Seq(Pages)
    /\ \A p \in Pages : row[p] \in {"finishing", "result", "error"} => p \in ToSet(order)
    /\ status = "queued" => \A p \in Pages : row[p] \in {"absent", "queued"}
    /\ status = "completed" => \A p \in Pages : ~Unfinished(p)
    /\ status = "deleted" => \A p \in Pages : row[p] = "absent"

(* A job that was just accepted. *)
LEMMA InitialJob == Init => JobInv
  BY DEF Init, JobInv, Statuses, Unfinished

(* Every step of the job keeps this. *)
LEMMA JobKept ==
  ASSUME JobInv, [Next]_vars
  PROVE  JobInv'
<1>1. ASSUME NEW p \in Pages, Claim(p) PROVE JobInv'
  BY <1>1 DEF JobInv, Claim, Unfinished, Live, Statuses
<1>2. ASSUME NEW p \in Pages, BeginFinish(p) PROVE JobInv'
  <2>1. order' = Append(order, p) /\ order \in Seq(Pages)
    BY <1>2 DEF BeginFinish, JobInv
  <2>2. order' \in Seq(Pages)
    BY <2>1
  <2>3. ToSet(order') = ToSet(order) \cup {p}
    <3>1. /\ DOMAIN order' = DOMAIN order \cup {Len(order) + 1} /\ order'[Len(order) + 1] = p
          /\ \A i \in DOMAIN order : order'[i] = order[i]
      BY <2>1
    <3>2. QED
      BY <3>1 DEF ToSet
  <2>4. row' = [row EXCEPT ![p] = "finishing"] /\ status' = status /\ row[p] = "active"
    BY <1>2 DEF BeginFinish
  <2>5. QED
    BY <2>1, <2>3, <2>4 DEF JobInv, Unfinished
<1>3. ASSUME NEW p \in Pages, NEW outcome \in {"result", "error"},
             NEW links \in SUBSET {q \in Pages : row[q] = "absent"},
             CommitFinish(p, outcome, links)
      PROVE  JobInv'
  <2>1. /\ row[p] = "finishing" /\ order' = order
        /\ row' = [q \in Pages |-> IF q = p THEN outcome
                                   ELSE IF q \in links THEN "queued" ELSE row[q]]
    BY <1>3 DEF CommitFinish
  <2>2. status' \in Statuses
    BY <1>3 DEF CommitFinish, JobInv, Statuses
  <2>3. ASSUME status' = "completed", NEW q \in Pages PROVE ~Unfinished(q)'
    <3>1. CASE q = p
      BY <2>1, <3>1 DEF Unfinished
    <3>2. CASE q # p
      <4>1. status # "completed"
        BY <2>1 DEF JobInv, Unfinished
      <4>2. links = {} /\ ~Unfinished(q)
        BY <1>3, <2>3, <3>2, <4>1 DEF CommitFinish
      <4>3. QED
        BY <2>1, <3>2, <4>2 DEF Unfinished
    <3>3. QED
      BY <3>1, <3>2
  <2>4. \A q \in Pages : row'[q] \in {"finishing", "result", "error"} => q \in ToSet(order)
    BY <2>1 DEF JobInv
  <2>5. status' \in {"scraping", "completed", "cancelled"}
    BY <1>3, <2>1 DEF CommitFinish, JobInv, Statuses, Unfinished
  <2>6. row' \in [Pages -> {"absent", "queued", "active", "finishing", "result", "error"}]
    BY <2>1 DEF JobInv
  <2>7. QED
    BY <2>1, <2>2, <2>3, <2>4, <2>5, <2>6 DEF JobInv
<1>4. ASSUME NEW p \in Pages, NEW state \in {"queued", "active"}, GiveUpFinish(p, state)
      PROVE  JobInv'
  <2>1. /\ row[p] = "finishing" /\ status' = status
        /\ row' = [row EXCEPT ![p] = state]
        /\ order' = Only(order, Pages \ {p})
    BY <1>4 DEF GiveUpFinish
  <2>2. order' \in Seq(Pages)
        /\ ToSet(order') = {order[i] : i \in {k \in DOMAIN order : order[k] \in Pages \ {p}}
                                                 \cap 1 .. Len(order)}
    BY <2>1, PickedElements DEF Only, JobInv
  <2>3. \A q \in Pages \ {p} : q \in ToSet(order) => q \in ToSet(order')
    <3> SUFFICES ASSUME NEW q \in Pages \ {p}, NEW i \in DOMAIN order, order[i] = q
                 PROVE  q \in ToSet(order')
      BY DEF ToSet
    <3>1. i \in {k \in DOMAIN order : order[k] \in Pages \ {p}} \cap 1 .. Len(order)
      BY DEF JobInv
    <3>2. QED
      BY <2>2, <3>1
  <2>4. status # "completed"
    BY <2>1 DEF JobInv, Unfinished
  <2>5. QED
    BY <2>1, <2>2, <2>3, <2>4 DEF JobInv
<1>5. ASSUME CancelElsewhere PROVE JobInv'
  BY <1>5 DEF JobInv, CancelElsewhere, Cancelled, Live, Statuses, Unfinished
<1>6. ASSUME Retire PROVE JobInv'
  BY <1>6 DEF JobInv, Retire, Statuses, Unfinished
<1>7. ASSUME NEW r \in Readers, Cancel(r) PROVE JobInv'
  BY <1>7 DEF JobInv, Cancel, Cancelled, Live, Statuses, Unfinished
<1>8. ASSUME UNCHANGED jobVars PROVE JobInv'
  BY <1>8 DEF JobInv, jobVars, Unfinished
<1>9. QED
  BY <1>1, <1>2, <1>3, <1>4, <1>5, <1>6, <1>7, <1>8
  DEF Next, JobStep, ReaderStep, vars, ReadStatus, ReadCounts, ReadRows, Send, Wake, Answer,
      DatabaseFails, Disconnect, DeadlinePasses

-----------------------------------------------------------------------------
(* The refinement: the job of JobWatcher takes the steps of CrawlJob.      *)
Outcomes == [p \in Pages |-> OutcomeOf(row[p])]
Phases == [j \in {"job"} |-> status]

(* What CrawlJob counts of outcomes. *)
LEMMA OutcomesCounted ==
  ASSUME NEW out
  PROVE  /\ Client!Pending(out, "job") <=> \E p \in Pages : out[p] = "pending"
         /\ Client!Total(out, "job") <= Cardinality(Pages)
<1> DEFINE found == {p \in Pages : out[p] # "none"}
<1>1. {p \in Pages : [q \in Pages |-> "job"][p] = "job" /\ out[p] # "none"} = found
  OBVIOUS
<1>2. Client!Total(out, "job") = Cardinality(found)
  BY <1>1, Zenon DEF Client!Total, Client!Cardinality, Cardinality
<1>3. Cardinality(found) <= Cardinality(Pages)
  BY WatcherAssumption, FS_Subset
<1>4. Client!Pending(out, "job") <=> \E p \in Pages : out[p] = "pending"
  BY DEF Client!Pending
<1>5. QED
  BY <1>2, <1>3, <1>4

(* The last outcome of a job in progress completes it. *)
LEMMA CommitRecords ==
  ASSUME JobInv, JobInv', NEW p \in Pages, NEW outcome \in {"result", "error"},
         NEW links \in SUBSET {q \in Pages : row[q] = "absent"}, CommitFinish(p, outcome, links)
  PROVE  Client!Record(p, IF outcome = "result" THEN "page" ELSE "error", links)
<1> DEFINE result == IF outcome = "result" THEN "page" ELSE "error"
<1>1. /\ row[p] = "finishing" /\ status \in {"scraping", "cancelled"}
      /\ links # {} => outcome = "result" /\ status = "scraping"
      /\ row' = [q \in Pages |-> IF q = p THEN outcome
                                 ELSE IF q \in links THEN "queued" ELSE row[q]]
  BY DEF CommitFinish, JobInv, Statuses, Unfinished
<1>2. Outcomes' = [q \in Pages |-> IF q = p THEN result
                                  ELSE IF q \in links THEN "pending" ELSE Outcomes[q]]
  <2>1. OutcomeOf(outcome) = result /\ OutcomeOf("queued") = "pending"
    BY DEF OutcomeOf
  <2>2. Outcomes' = [q \in Pages |-> OutcomeOf(row'[q])]
    BY DEF Outcomes
  <2> HIDE DEF result
  <2>3. QED
    BY <1>1, <2>1, <2>2 DEF Outcomes
<1>3. /\ Outcomes[p] = "pending" /\ \A q \in links : Outcomes[q] = "none"
      /\ Client!Total(Outcomes', "job") <= Cardinality(Pages)
  BY <1>1, OutcomesCounted DEF Outcomes, OutcomeOf
<1>4. status' = IF status = "scraping" /\ ~Client!Pending(Outcomes', "job")
                THEN "completed" ELSE status
  <2>1. \A q \in Pages : Outcomes[q] = "pending" <=> Unfinished(q)
    BY DEF Outcomes, OutcomeOf, Unfinished, JobInv
  <2>2. (\E q \in Pages : Outcomes'[q] = "pending")
            <=> links # {} \/ \E q \in Pages \ {p} : Unfinished(q)
    BY <1>1, <1>2, <2>1
  <2>3. Client!Pending(Outcomes', "job") <=> \E q \in Pages : Outcomes'[q] = "pending"
    BY OutcomesCounted
  <2>4. QED
    BY <2>2, <2>3 DEF CommitFinish
<1>5. Phases' = IF Phases["job"] = "scraping" /\ ~Client!Pending(Outcomes', "job")
                THEN [Phases EXCEPT !["job"] = "completed"] ELSE Phases
  BY <1>4 DEF Phases
<1>6. QED
  BY <1>1, <1>2, <1>3, <1>5 DEF Client!Record, Client!PagesOf, Client!Unfound, Outcomes, Phases

(* Every step of a job or of its readers is a step of CrawlJob, or a       *)
(* client sees nothing of it.                                              *)
LEMMA JobRefines ==
  ASSUME JobInv, JobInv', [Next]_vars
  PROVE  [Client!Next]_(Client!jobView)
<1>1. ASSUME UNCHANGED <<Outcomes, Phases>> PROVE UNCHANGED Client!jobView
  BY <1>1 DEF Client!jobView, Outcomes, Phases
<1>2. ASSUME NEW p \in Pages, Claim(p) PROVE Client!Start("job") \/ UNCHANGED Client!jobView
  <2>1. /\ Outcomes' = Outcomes /\ status \in {"queued", "scraping"}
        /\ Phases' = [Phases EXCEPT !["job"] = "scraping"]
    BY <1>2 DEF Claim, Outcomes, OutcomeOf, Phases, JobInv, Live
  <2>2. CASE status = "queued"
    BY <2>1, <2>2 DEF Client!Start, Outcomes, Phases
  <2>3. CASE status = "scraping"
    BY <1>1, <2>1, <2>3 DEF Phases
  <2>4. QED
    BY <2>1, <2>2, <2>3
<1>3. ASSUME NEW p \in Pages,
             BeginFinish(p) \/ \E state \in {"queued", "active"} : GiveUpFinish(p, state)
      PROVE  UNCHANGED Client!jobView
  <2>1. Outcomes' = Outcomes
    BY <1>3 DEF BeginFinish, GiveUpFinish, Outcomes, OutcomeOf, JobInv
  <2>2. QED
    BY <1>1, <1>3, <2>1 DEF BeginFinish, GiveUpFinish, Phases
<1>4. ASSUME CancelElsewhere \/ \E r \in Readers : Cancel(r)
      PROVE  Client!Cancel("job") \/ UNCHANGED Client!jobView
  <2>1. Outcomes' = Outcomes /\ status' = Cancelled
    BY <1>4 DEF CancelElsewhere, Cancel, Outcomes
  <2>2. CASE Live
    BY <2>1, <2>2 DEF Client!Cancel, Outcomes, Live, Cancelled
  <2>3. CASE ~Live
    BY <1>1, <2>1, <2>3 DEF Phases, Cancelled
  <2>4. QED
    BY <2>2, <2>3
<1>5. ASSUME Retire PROVE Client!Forget({"job"})
  BY <1>5 DEF Retire, Client!Forget, OutcomeOf
<1>6. ASSUME UNCHANGED jobVars PROVE UNCHANGED Client!jobView
  BY <1>6 DEF jobVars, Client!jobView
<1>7. ASSUME NEW p \in Pages, NEW outcome \in {"result", "error"},
             NEW links \in SUBSET {q \in Pages : row[q] = "absent"},
             CommitFinish(p, outcome, links)
      PROVE  Client!Next
  <2>1. (IF outcome = "result" THEN "page" ELSE "error") \in {"page", "error"}
        /\ Client!Record(p, IF outcome = "result" THEN "page" ELSE "error", links)
    BY <1>7, CommitRecords
  <2>2. /\ p \in {q \in Pages : Outcomes[q] = "pending"}
        /\ links \in SUBSET Client!Unfound([q \in Pages |-> "job"][p])
    BY <2>1 DEF Client!Record, Outcomes
  <2>3. PICK result \in {"page", "error"} : Client!Record(p, result, links)
    BY <2>1
  <2>4. QED
    BY <2>2, <2>3 DEF Client!Next, Outcomes
<1>8. CASE JobStep
  BY <1>2, <1>3, <1>4, <1>5, <1>7, <1>8 DEF JobStep, Client!Next
<1>9. CASE \E r \in Readers : Cancel(r)
  BY <1>4, <1>9 DEF Client!Next
<1>10. QED
  BY <1>6, <1>8, <1>9
  DEF Next, ReaderStep, vars, jobVars, ReadStatus, ReadCounts, ReadRows, Send, Wake, Answer,
      DatabaseFails, Disconnect, DeadlinePasses

(* The job that clients read keeps what CrawlJob promises.                 *)
THEOREM JobTheorem == Spec => JobAsPromised
<1>1. Init => JobInv
  BY InitialJob
<1>2. JobInv /\ [Next]_vars => JobInv'
  BY JobKept
<1>3. JobInv /\ JobInv' /\ [Next]_vars => [Client!Next]_(Client!jobView)
  BY JobRefines
<1>4. QED
  BY <1>1, <1>2, <1>3, PTL DEF Spec, JobAsPromised

-----------------------------------------------------------------------------
(* What is read of the job.                                                *)

(* A completed job stands still until it is deleted, and a deleted one     *)
(* does not come back.                                                     *)
LEMMA JobSettled ==
  ASSUME JobInv, [Next]_vars
  PROVE  /\ status = "deleted" => status' = "deleted"
         /\ status = "completed" /\ status' # "deleted" =>
               status' = "completed" /\ row' = row /\ order' = order
<1>1. ASSUME NEW p \in Pages,
             \/ Claim(p) \/ BeginFinish(p)
             \/ \E outcome \in {"result", "error"},
                   links \in SUBSET {q \in Pages : row[q] = "absent"} :
                   CommitFinish(p, outcome, links)
             \/ \E state \in {"queued", "active"} : GiveUpFinish(p, state)
      PROVE  status # "completed" /\ (status = "deleted" => status' = "deleted")
  BY <1>1 DEF JobInv, Claim, BeginFinish, CommitFinish, GiveUpFinish, Unfinished, Live
<1>2. ASSUME CancelElsewhere \/ Retire \/ \E r \in Readers : Cancel(r)
      PROVE  /\ status = "deleted" => status' = "deleted"
             /\ status = "completed" /\ status' # "deleted" =>
                   status' = "completed" /\ row' = row /\ order' = order
  BY <1>2 DEF CancelElsewhere, Retire, Cancel, Cancelled, Live
<1>3. QED
  BY <1>1, <1>2
  DEF Next, JobStep, ReaderStep, vars, jobVars, ReadStatus, ReadCounts, ReadRows, Send, Wake,
      Answer, DatabaseFails, Disconnect, DeadlinePasses

(* The rows a statement sees: all that have an outcome. *)
LEMMA VisibleRows ==
  ASSUME JobInv
  PROVE  /\ Visible \in Seq(Pages)
         /\ ToSet(Visible) = {p \in Pages : Finished(p)}
<1> DEFINE I == {i \in DOMAIN order : order[i] \in {p \in Pages : Finished(p)}}
<1>1. order \in Seq(Pages) /\ \A p \in Pages : Finished(p) => \E i \in DOMAIN order : order[i] = p
  BY DEF JobInv, Finished, ToSet
<1>2. Visible \in Seq(Pages) /\ ToSet(Visible) = {order[i] : i \in I \cap 1 .. Len(order)}
  BY <1>1, PickedElements DEF Visible, Only
<1>3. {order[i] : i \in I \cap 1 .. Len(order)} = {p \in Pages : Finished(p)}
  BY <1>1
<1>4. QED
  BY <1>2, <1>3

-----------------------------------------------------------------------------
(* The readers.                                                            *)

ReaderTypes ==
    /\ role \in [Readers -> {"watch", "poll", "cancel"}]
    /\ step \in [Readers -> {"cancel", "status", "counts", "rows", "answer", "sleep", "ended"}]
    /\ seen \in [Readers -> Statuses \cup {"unread"}]
    /\ counted \in [Readers -> Nat] /\ offset \in [Readers -> Nat]
    /\ data \in [Readers -> Seq(RowEntry)]
    /\ catchup \in [Readers -> Seq(Pages) \cup {NoAnswer}]
    /\ documents \in [Readers -> Seq(Pages)]
    /\ ending \in [Readers -> {"none", "error", "done", "gone", "answered", "timeout"}]

(* What r has of its own. *)
Own(r) == <<role[r], step[r], seen[r], counted[r], offset[r], data[r], catchup[r],
            documents[r], ending[r]>>

Acts(r) == ReaderStep(r) \/ DatabaseFails(r) \/ Disconnect(r)

LEMMA OwnKept ==
  ASSUME ReaderTypes, [Next]_vars, NEW r \in Readers
  PROVE  Acts(r) \/ Own(r)' = Own(r)
<1>1. ASSUME NEW q \in Readers \ {r}, Acts(q) PROVE Own(r)' = Own(r)
  BY <1>1 DEF Acts, ReaderStep, ReaderTypes, Own, sentVars, jobVars, End, Pause,
      ReadStatus, ReadCounts, ReadRows, Send, Wake, Answer, Cancel, DatabaseFails, Disconnect
<1>2. ASSUME NEW q \in Readers, DeadlinePasses(q) PROVE Own(r)' = Own(r)
  BY <1>2 DEF DeadlinePasses, Own, sentVars
<1>3. ASSUME JobStep PROVE Own(r)' = Own(r)
  BY <1>3 DEF JobStep, Claim, BeginFinish, CommitFinish, GiveUpFinish, CancelElsewhere, Retire,
      Own, readVars, sentVars
<1>4. ASSUME UNCHANGED vars PROVE Own(r)' = Own(r)
  BY <1>4 DEF vars, readVars, sentVars, Own
<1>5. QED
  BY <1>1, <1>2, <1>3, <1>4 DEF Next, Acts

(* The rows a page holds, and what they say. *)
LEMMA PageRows ==
  ASSUME JobInv, NEW from \in Nat
  PROVE  LET page == PageAt(from)
             end == IF from + PageSize <= Len(Visible) THEN from + PageSize ELSE Len(Visible)
         IN /\ page \in Seq(Pages) /\ page = SubSeq(Visible, from + 1, end)
            /\ \A i \in DOMAIN page : Finished(page[i])
            /\ [i \in DOMAIN page |-> [page |-> page[i], outcome |-> row[page[i]]]] \in Seq(RowEntry)
<1> DEFINE n == Len(Visible)
           end == IF from + PageSize <= n THEN from + PageSize ELSE n
           page == PageAt(from)
<1>1. Visible \in Seq(Pages) /\ n \in Nat /\ PageSize \in Nat
      /\ \A i \in 1 .. n : Visible[i] \in Pages /\ Finished(Visible[i])
  BY VisibleRows, WatcherAssumption DEF ToSet
<1>2. Min({from + PageSize, n}) = end
  BY <1>1 DEF Min
<1>3. page = SubSeq(Visible, from + 1, end)
  BY <1>2 DEF PageAt
<1>4. end \in Int /\ end <= n /\ from + 1 \in Int
  BY <1>1
<1> HIDE DEF page, end, n
<1>5. \A i \in from + 1 .. end : i \in 1 .. n
  BY <1>1, <1>4
<1>6. /\ page \in Seq(Pages)
      /\ Len(page) = IF from + 1 <= end THEN end - (from + 1) + 1 ELSE 0
      /\ \A i \in 1 .. end - (from + 1) + 1 : page[i] = Visible[from + 1 + i - 1]
  BY <1>1, <1>3, <1>4, <1>5, SubSeqProperties
<1>7. \A i \in DOMAIN page : page[i] \in Pages /\ Finished(page[i])
  <2> SUFFICES ASSUME NEW i \in DOMAIN page PROVE page[i] \in Pages /\ Finished(page[i])
    OBVIOUS
  <2>1. i \in 1 .. Len(page)
    BY <1>6
  <2>2. i \in 1 .. end - (from + 1) + 1 /\ from + 1 + i - 1 \in from + 1 .. end
    BY <1>4, <1>6, <2>1
  <2>3. QED
    BY <1>1, <1>5, <1>6, <2>2
<1>8. DOMAIN page = 1 .. Len(page) /\ Len(page) \in Nat
  BY <1>6
<1>9. [i \in DOMAIN page |-> [page |-> page[i], outcome |-> row[page[i]]]] \in Seq(RowEntry)
  BY <1>7, <1>8 DEF RowEntry, Finished
<1>10. QED
  BY <1>3, <1>6, <1>7, <1>9 DEF page, end, n

(* The documents of what was read, and those of them that are new. *)
LEMMA DocumentsRead ==
  ASSUME ReaderTypes, NEW r \in Readers
  PROVE  /\ RowsOf(r) \in Seq(Pages)
         /\ DocumentsOf(r) \in Seq(Pages)
         /\ ToSet(DocumentsOf(r)) = {data[r][i].page : i \in ResultsAt(r)}
<1>1. data[r] \in Seq(RowEntry)
  BY DEF ReaderTypes
<1>2. RowsOf(r) \in Seq(Pages) /\ DOMAIN data[r] = 1 .. Len(data[r]) /\ Len(RowsOf(r)) = Len(data[r])
  <2>1. /\ Len(data[r]) \in Nat /\ DOMAIN data[r] = 1 .. Len(data[r])
        /\ \A i \in 1 .. Len(data[r]) : data[r][i] \in RowEntry
    BY <1>1
  <2>2. \A i \in 1 .. Len(data[r]) : data[r][i].page \in Pages
    BY <2>1 DEF RowEntry
  <2>3. RowsOf(r) = [i \in 1 .. Len(data[r]) |-> data[r][i].page]
    BY <2>1 DEF RowsOf
  <2>4. QED
    BY <2>1, <2>2, <2>3
<1>3. /\ DocumentsOf(r) \in Seq(Pages)
      /\ ToSet(DocumentsOf(r)) = {RowsOf(r)[i] : i \in ResultsAt(r) \cap 1 .. Len(RowsOf(r))}
  BY <1>2, PickedElements DEF DocumentsOf
<1>4. ResultsAt(r) \cap 1 .. Len(RowsOf(r)) = ResultsAt(r)
  BY <1>2 DEF ResultsAt
<1>5. \A i \in ResultsAt(r) : RowsOf(r)[i] = data[r][i].page
  BY DEF RowsOf, ResultsAt
<1>6. QED
  BY <1>2, <1>3, <1>4, <1>5

LEMMA UnsentDocuments ==
  ASSUME ReaderTypes, NEW r \in Readers
  PROVE  LET sent == ToSet(catchup[r]) \cup ToSet(documents[r])
         IN /\ Unsent(r) \in Seq(Pages) /\ IsInjective(Unsent(r))
            /\ ToSet(Unsent(r)) = ToSet(DocumentsOf(r)) \ sent
<1> DEFINE list == DocumentsOf(r)
           sent == ToSet(catchup[r]) \cup ToSet(documents[r])
           I == {i \in FirstCopies(list) : list[i] \notin sent}
<1>1. list \in Seq(Pages)
  BY DocumentsRead
<1>2. Unsent(r) = Picked(list, I)
  BY DEF Unsent
<1> HIDE DEF list, sent
<1>3. DOMAIN list = 1 .. Len(list) /\ Len(list) \in Nat
  BY <1>1
<1>4. Picked(list, I) \in Seq(Pages) /\ ToSet(Picked(list, I)) = {list[i] : i \in I \cap 1 .. Len(list)}
  BY <1>1, PickedElements
<1>5. \A i, j \in I \cap 1 .. Len(list) : list[i] = list[j] => i = j
  <2> SUFFICES ASSUME NEW i \in I \cap 1 .. Len(list), NEW j \in I \cap 1 .. Len(list),
                      list[i] = list[j], i < j
               PROVE  FALSE
    BY <1>3
  <2>1. i \in 1 .. j - 1 /\ j \in FirstCopies(list)
    OBVIOUS
  <2>2. QED
    BY <2>1 DEF FirstCopies
<1>6. IsInjective(Picked(list, I))
  BY <1>1, <1>5, PickedInjective
<1>7. \A p \in ToSet(list) \ sent : \E i \in I \cap 1 .. Len(list) : list[i] = p
  <2> SUFFICES ASSUME NEW p \in ToSet(list) \ sent
               PROVE  \E i \in I \cap 1 .. Len(list) : list[i] = p
    OBVIOUS
  <2> DEFINE Q == {i \in 1 .. Len(list) : list[i] = p}
  <2>1. Q # {} /\ Q \subseteq Nat
    BY <1>3 DEF ToSet
  <2>2. PICK i \in Q : \A j \in Q : i <= j
    BY <2>1, LeastElement
  <2>3. \A j \in 1 .. i - 1 : list[j] # list[i]
    BY <1>3, <2>2
  <2>4. i \in I
    BY <1>3, <2>2, <2>3 DEF FirstCopies
  <2>5. QED
    BY <2>2, <2>4
<1>8. ToSet(Picked(list, I)) = ToSet(list) \ sent
  <2>1. \A i \in I \cap 1 .. Len(list) : list[i] \in ToSet(list) \ sent
    BY <1>3 DEF ToSet
  <2>2. QED
    BY <1>4, <1>7, <2>1
<1>9. QED
  BY <1>2, <1>4, <1>6, <1>8 DEF list, sent

(* What a reader sends, and has at each of its steps. *)
SentInv(r) ==
    /\ catchup[r] = NoAnswer => documents[r] = << >>
    /\ IsInjective(documents[r])
    /\ catchup[r] # NoAnswer => ToSet(documents[r]) \cap ToSet(catchup[r]) = {}
    /\ ending[r] = "done" => step[r] = "ended"
    /\ step[r] \in {"sleep", "cancel"} => ~IsEnded(seen[r])
    /\ step[r] \in {"cancel", "status", "counts", "rows"} /\ (role[r] # "watch" \/ offset[r] = 0)
          => data[r] = << >>

(* What is known under the status completed. *)
Exact(r) ==
    /\ status = "completed"
    /\ \A i \in DOMAIN data[r] : data[r][i].outcome = row[data[r][i].page]
    /\ step[r] \in {"status", "counts", "rows"} /\ role[r] = "watch" =>
          RowsOf(r) = SubSeq(Visible, 1, offset[r]) /\ offset[r] <= Len(Visible)
    /\ step[r] = "status" => role[r] = "watch" /\ offset[r] > 0
    /\ step[r] \in {"rows", "answer"} => counted[r] = Len(Visible)
    /\ step[r] = "answer" =>
          RowsOf(r) = IF role[r] = "watch" THEN Visible ELSE PageAt(offset[r])
    /\ ending[r] = "done" => Results \subseteq Delivered(r)

WatcherInv ==
    /\ JobInv /\ ReaderTypes
    /\ \A r \in Readers : SentInv(r) /\ (AnswerFinal(r) => Exact(r))

LEMMA TypesKept ==
  ASSUME JobInv, ReaderTypes, [Next]_vars
  PROVE  ReaderTypes'
<1>1. ASSUME NEW r \in Readers, ReadStatus(r) PROVE ReaderTypes'
  BY <1>1 DEF ReaderTypes, JobInv, ReadStatus, StatusOf, End
<1>2. ASSUME NEW r \in Readers, ReadCounts(r) PROVE ReaderTypes'
  <2>1. Total \in Nat
    BY VisibleRows DEF Total
  <2>2. QED
    BY <1>2, <2>1 DEF ReaderTypes, ReadCounts, sentVars
<1>3. ASSUME NEW r \in Readers, ReadRows(r) PROVE ReaderTypes'
  <2> DEFINE page == PageAt(offset[r])
             read == [i \in DOMAIN page |-> [page |-> page[i], outcome |-> row[page[i]]]]
             next == NextOffset(offset[r], counted[r])
  <2>1. read \in Seq(RowEntry)
    BY PageRows DEF ReaderTypes
  <2>2. data[r] \o read \in Seq(RowEntry)
    BY <2>1 DEF ReaderTypes
  <2>3. data' = [data EXCEPT ![r] = data[r] \o read]
    BY <1>3 DEF ReadRows, ReaderTypes
  <2>4. data' \in [Readers -> Seq(RowEntry)]
    BY <2>2, <2>3 DEF ReaderTypes
  <2>5. \A n \in next : n \in Nat
    BY WatcherAssumption DEF NextOffset, ReaderTypes
  <2>6. next # {} => (CHOOSE n \in next : TRUE) \in Nat
    BY <2>5
  <2>7. offset' \in [Readers -> Nat]
    BY <1>3, <2>6 DEF ReadRows, ReaderTypes
  <2>8. step' \in [Readers -> {"cancel", "status", "counts", "rows", "answer", "sleep", "ended"}]
    BY <1>3 DEF ReadRows, ReaderTypes
  <2>9. QED
    BY <1>3, <2>4, <2>7, <2>8 DEF ReadRows, ReaderTypes, sentVars
<1>4. ASSUME NEW r \in Readers, Send(r) PROVE ReaderTypes'
  <2>1. DocumentsOf(r) \in Seq(Pages) /\ Unsent(r) \in Seq(Pages)
    BY DocumentsRead, UnsentDocuments
  <2>2. catchup' \in [Readers -> Seq(Pages) \cup {NoAnswer}]
    BY <1>4, <2>1 DEF Send, ReaderTypes
  <2>3. documents[r] \o Unsent(r) \in Seq(Pages)
    BY <2>1 DEF ReaderTypes
  <2>4. documents' \in [Readers -> Seq(Pages)]
    BY <1>4, <2>3 DEF Send, ReaderTypes
  <2>5. QED
    BY <1>4, <2>2, <2>4 DEF Send, ReaderTypes, End, Pause
<1>5. ASSUME NEW r \in Readers, Wake(r) PROVE ReaderTypes'
  BY <1>5 DEF ReaderTypes, Wake, sentVars
<1>6. ASSUME NEW r \in Readers, Answer(r) PROVE ReaderTypes'
  BY <1>6 DEF ReaderTypes, Answer, End, Pause
<1>7. ASSUME NEW r \in Readers, Cancel(r) \/ DatabaseFails(r) \/ Disconnect(r) \/ DeadlinePasses(r)
      PROVE  ReaderTypes'
  BY <1>7 DEF ReaderTypes, Cancel, DatabaseFails, Disconnect, DeadlinePasses, End, sentVars
<1>8. ASSUME JobStep \/ UNCHANGED vars PROVE ReaderTypes'
  BY <1>8 DEF ReaderTypes, JobStep, Claim, BeginFinish, CommitFinish, GiveUpFinish,
      CancelElsewhere, Retire, vars, readVars, sentVars
<1>9. QED
  BY <1>1, <1>2, <1>3, <1>4, <1>5, <1>6, <1>7, <1>8 DEF Next, ReaderStep

LEMMA SentKept ==
  ASSUME ReaderTypes, NEW r \in Readers, SentInv(r), Acts(r) \/ Own(r)' = Own(r)
  PROVE  SentInv(r)'
<1>1. ASSUME ReadStatus(r) PROVE SentInv(r)'
  BY <1>1 DEF ReaderTypes, SentInv, ReadStatus, End
<1>2. ASSUME ReadCounts(r) PROVE SentInv(r)'
  BY <1>2 DEF ReaderTypes, SentInv, ReadCounts, sentVars
<1>3. ASSUME ReadRows(r) PROVE SentInv(r)'
  <2> DEFINE next == NextOffset(offset[r], counted[r])
  <2>1. step'[r] = "answer" \/ (step'[r] = "status" /\ role[r] = "watch" /\ offset'[r] \in next)
    BY <1>3 DEF ReaderTypes, ReadRows
  <2>2. \A n \in next : n > 0
    BY WatcherAssumption DEF NextOffset, ReaderTypes
  <2>3. /\ step[r] = "rows" /\ UNCHANGED <<role, seen, sentVars>>
    BY <1>3 DEF ReadRows
  <2>4. QED
    BY <2>1, <2>2, <2>3 DEF SentInv, sentVars
<1>4. ASSUME Send(r) PROVE SentInv(r)'
  <2>1. /\ step[r] = "answer" /\ seen' = seen
        /\ IF Stops(r) THEN End(r, "done") ELSE Pause(r)
    BY <1>4 DEF Send
  <2>2. /\ ending'[r] = "done" => step'[r] = "ended"
        /\ step'[r] \in {"sleep", "cancel"} => ~IsEnded(seen'[r])
        /\ step'[r] \in {"ended", "sleep"}
    BY <2>1 DEF Stops, End, Pause, ReaderTypes, SentInv
  <2>3. /\ catchup'[r] = NoAnswer => documents'[r] = << >>
        /\ IsInjective(documents'[r])
        /\ catchup'[r] # NoAnswer => ToSet(documents'[r]) \cap ToSet(catchup'[r]) = {}
    <3>1. CASE catchup[r] = NoAnswer
      <4>1. documents'[r] = << >>
        BY <1>4, <3>1 DEF Send, SentInv
      <4>2. ToSet(documents'[r]) = {} /\ IsInjective(documents'[r])
        BY <4>1 DEF ToSet, IsInjective
      <4>3. QED
        BY <4>1, <4>2
    <3>2. CASE catchup[r] # NoAnswer
      <4>1. documents'[r] = documents[r] \o Unsent(r) /\ catchup'[r] = catchup[r]
        BY <1>4, <3>2 DEF Send, ReaderTypes
      <4>2. /\ Unsent(r) \in Seq(Pages) /\ IsInjective(Unsent(r))
            /\ ToSet(Unsent(r)) \cap (ToSet(catchup[r]) \cup ToSet(documents[r])) = {}
        BY UnsentDocuments
      <4>3. documents[r] \in Seq(Pages) /\ IsInjective(documents[r])
            /\ ToSet(documents[r]) \cap ToSet(catchup[r]) = {}
        BY <3>2 DEF ReaderTypes, SentInv
      <4>4. /\ ToSet(documents[r] \o Unsent(r)) = ToSet(documents[r]) \cup ToSet(Unsent(r))
            /\ IsInjective(documents[r] \o Unsent(r))
        BY <4>2, <4>3, JoinedInjective
      <4>5. QED
        BY <3>2, <4>1, <4>2, <4>3, <4>4
    <3>3. QED
      BY <3>1, <3>2
  <2>4. QED
    BY <2>2, <2>3 DEF SentInv
<1>5. ASSUME Wake(r) PROVE SentInv(r)'
  BY <1>5 DEF ReaderTypes, SentInv, Wake, sentVars
<1>6. ASSUME Answer(r) PROVE SentInv(r)'
  BY <1>6 DEF ReaderTypes, SentInv, Answer, End, Pause
<1>7. ASSUME Cancel(r) PROVE SentInv(r)'
  <2>1. data[r] = data'[r] /\ step'[r] = "status" /\ step[r] = "cancel"
    BY <1>7 DEF ReaderTypes, Cancel
  <2>2. QED
    BY <1>7, <2>1 DEF ReaderTypes, SentInv, Cancel, sentVars
<1>8. ASSUME DatabaseFails(r) \/ Disconnect(r) PROVE SentInv(r)'
  BY <1>8 DEF ReaderTypes, SentInv, DatabaseFails, Disconnect, End
<1>9. ASSUME Own(r)' = Own(r) PROVE SentInv(r)'
  BY <1>9 DEF Own, SentInv
<1>10. QED
  BY <1>1, <1>2, <1>3, <1>4, <1>5, <1>6, <1>7, <1>8, <1>9 DEF Acts, ReaderStep

(* Everything that is read under the status completed is of a job that     *)
(* stands still.                                                           *)
LEMMA ExactKept ==
  ASSUME WatcherInv, [Next]_vars, NEW r \in Readers, AnswerFinal(r)'
  PROVE  Exact(r)'
<1>1. JobInv /\ ReaderTypes /\ SentInv(r) /\ (AnswerFinal(r) => Exact(r))
  BY DEF WatcherInv
<1>2. /\ status = "deleted" => status' = "deleted"
      /\ status = "completed" /\ status' # "deleted" =>
            status' = "completed" /\ row' = row /\ order' = order
  BY <1>1, JobSettled
<1>3. seen'[r] = "completed" /\ status' # "deleted" /\ status # "deleted"
  BY <1>2 DEF AnswerFinal
<1>4. ASSUME status = "completed"
      PROVE  /\ status' = "completed" /\ row' = row /\ Visible' = Visible /\ Results' = Results
             /\ \A from : PageAt(from)' = PageAt(from)
  <2>1. status' = "completed" /\ row' = row /\ order' = order
    BY <1>2, <1>3, <1>4
  <2>2. QED
    BY <2>1 DEF Visible, Finished, Results, PageAt
<1>5. CASE Own(r)' = Own(r)
  <2>1. /\ AnswerFinal(r) /\ RowsOf(r)' = RowsOf(r) /\ Delivered(r)' = Delivered(r)
        /\ role'[r] = role[r] /\ step'[r] = step[r] /\ counted'[r] = counted[r]
        /\ offset'[r] = offset[r] /\ data'[r] = data[r] /\ ending'[r] = ending[r]
    BY <1>3, <1>5 DEF Own, AnswerFinal, RowsOf, Delivered
  <2>2. Exact(r) /\ status = "completed"
    BY <1>1, <2>1 DEF Exact
  <2>3. QED
    BY <1>4, <2>1, <2>2 DEF Exact
<1>6. CASE ReadStatus(r)
  <2>1. /\ step[r] = "status" /\ step'[r] = "counts" /\ row' = row /\ order' = order
        /\ status' = status /\ UNCHANGED <<role, counted, offset, data, catchup, documents, ending>>
        /\ seen'[r] = IF role[r] = "watch" /\ offset[r] > 0 THEN seen[r] ELSE status
    BY <1>1, <1>3, <1>6 DEF ReadStatus, ReaderTypes, StatusOf, jobVars
  <2>2. CASE role[r] = "watch" /\ offset[r] > 0
    <3>1. Exact(r)
      BY <1>1, <1>3, <2>1, <2>2 DEF AnswerFinal
    <3>2. QED
      BY <1>1, <2>1, <3>1 DEF Exact, RowsOf, SentInv, Visible, Finished
  <2>3. CASE ~(role[r] = "watch" /\ offset[r] > 0)
    <3>1. status = "completed" /\ data[r] = << >> /\ ending[r] # "done"
      BY <1>1, <1>3, <2>1, <2>3 DEF SentInv, ReaderTypes
    <3>2. role[r] = "watch" => offset[r] = 0
      BY <1>1, <2>3 DEF ReaderTypes
    <3>3. Len(Visible) \in Nat /\ Visible \in Seq(Pages) /\ SubSeq(Visible, 1, 0) = << >>
      BY <1>1, VisibleRows
    <3>4. RowsOf(r)' = << >> /\ DOMAIN data'[r] = {}
      BY <2>1, <3>1 DEF RowsOf
    <3>5. role'[r] = "watch" => RowsOf(r)' = SubSeq(Visible', 1, offset'[r]) /\ offset'[r] <= Len(Visible')
      BY <1>4, <2>1, <3>1, <3>2, <3>3, <3>4
    <3>6. QED
      BY <2>1, <3>1, <3>4, <3>5 DEF Exact
  <2>4. QED
    BY <2>2, <2>3
<1>7. CASE ReadCounts(r)
  <2>1. /\ step[r] = "counts" /\ step'[r] = "rows" /\ counted'[r] = Len(Visible)
        /\ UNCHANGED <<status, row, order, role, seen, offset, data, catchup, documents, ending>>
    BY <1>1, <1>7 DEF ReadCounts, ReaderTypes, Total, jobVars, sentVars
  <2>2. Exact(r) /\ Visible' = Visible /\ RowsOf(r)' = RowsOf(r) /\ ending[r] # "done"
    BY <1>1, <1>3, <2>1 DEF AnswerFinal, Visible, Finished, RowsOf, SentInv
  <2>3. QED
    BY <2>1, <2>2 DEF Exact
<1>8. CASE ReadRows(r)
  <2> DEFINE from == offset[r]
             page == PageAt(from)
             read == [i \in DOMAIN page |-> [page |-> page[i], outcome |-> row[page[i]]]]
             n == Len(Visible)
             more == role[r] = "watch" /\ NextOffset(from, counted[r]) # {}
  <2>1. /\ step[r] = "rows" /\ data'[r] = data[r] \o read
        /\ UNCHANGED <<status, row, order, role, seen, counted, catchup, documents, ending>>
        /\ step'[r] = IF more THEN "status" ELSE "answer"
        /\ offset'[r] = IF more THEN CHOOSE k \in NextOffset(from, counted[r]) : TRUE ELSE from
    BY <1>1, <1>8 DEF ReadRows, ReaderTypes, jobVars, sentVars
  <2>2. Exact(r) /\ status = "completed" /\ ending[r] # "done" /\ counted[r] = n
    BY <1>1, <1>3, <2>1 DEF AnswerFinal, Exact, SentInv
  <2>3. /\ from \in Nat /\ n \in Nat /\ Visible \in Seq(Pages) /\ PageSize \in Nat /\ PageSize > 0
        /\ role[r] # "watch" => data[r] = << >>
        /\ role[r] = "watch" => RowsOf(r) = SubSeq(Visible, 1, from) /\ from <= n
    BY <1>1, <2>1, <2>2, VisibleRows, WatcherAssumption DEF ReaderTypes, SentInv, Exact
  <2> DEFINE end == IF from + PageSize <= n THEN from + PageSize ELSE n
  <2>4. page \in Seq(Pages) /\ page = SubSeq(Visible, from + 1, end) /\ read \in Seq(RowEntry)
    BY <1>1, <2>3, PageRows
  <2>5. RowsOf(r)' = RowsOf(r) \o page
    <3>1. data[r] \in Seq(RowEntry) /\ DOMAIN read = DOMAIN page
      BY <1>1 DEF ReaderTypes
    <3>2. /\ Len(read) = Len(page) /\ DOMAIN page = 1 .. Len(page) /\ Len(page) \in Nat
          /\ \A i \in 1 .. Len(page) : read[i].page = page[i]
      <4>1. DOMAIN page = 1 .. Len(page) /\ Len(page) \in Nat
        BY <2>4
      <4>2. \A i \in DOMAIN page : read[i].page = page[i]
        OBVIOUS
      <4> HIDE DEF read, page
      <4>3. Len(read) = Len(page)
        BY <2>4, <3>1, <4>1
      <4>4. QED
        BY <4>1, <4>2, <4>3
    <3> HIDE DEF read, page
    <3>3. /\ RowsOf(r)' = [i \in 1 .. Len(data[r]) + Len(page) |-> data'[r][i].page]
          /\ \A i \in 1 .. Len(data[r]) + Len(page) :
                data'[r][i] = IF i <= Len(data[r]) THEN data[r][i] ELSE read[i - Len(data[r])]
      BY <2>1, <2>4, <3>1, <3>2 DEF RowsOf
    <3>4. /\ RowsOf(r) \in Seq(Pages) /\ Len(RowsOf(r)) = Len(data[r]) /\ Len(data[r]) \in Nat
          /\ \A i \in 1 .. Len(data[r]) : RowsOf(r)[i] = data[r][i].page
      <4>1. DOMAIN data[r] = 1 .. Len(data[r]) /\ Len(data[r]) \in Nat
        BY <3>1
      <4>2. RowsOf(r) = [i \in 1 .. Len(data[r]) |-> data[r][i].page]
        BY <4>1 DEF RowsOf
      <4>3. RowsOf(r) \in Seq(Pages)
        BY <1>1, DocumentsRead
      <4>4. QED
        BY <4>1, <4>2, <4>3
    <3>5. /\ Len(RowsOf(r) \o page) = Len(data[r]) + Len(page)
          /\ RowsOf(r) \o page \in Seq(Pages)
          /\ \A i \in 1 .. Len(data[r]) + Len(page) :
                (RowsOf(r) \o page)[i] =
                   IF i <= Len(data[r]) THEN RowsOf(r)[i] ELSE page[i - Len(data[r])]
      <4> DEFINE rows == RowsOf(r)
      <4>1. rows \in Seq(Pages) /\ page \in Seq(Pages) /\ Len(rows) = Len(data[r])
        BY <2>4, <3>4
      <4> HIDE DEF rows
      <4>2. /\ rows \o page \in Seq(Pages) /\ Len(rows \o page) = Len(rows) + Len(page)
            /\ \A i \in 1 .. Len(rows) + Len(page) :
                  (rows \o page)[i] = IF i <= Len(rows) THEN rows[i] ELSE page[i - Len(rows)]
        BY <4>1, ConcatProperties
      <4>3. QED
        BY <4>1, <4>2 DEF rows
    <3>6. \A i \in 1 .. Len(data[r]) + Len(page) : data'[r][i].page = (RowsOf(r) \o page)[i]
      <4> SUFFICES ASSUME NEW i \in 1 .. Len(data[r]) + Len(page)
                   PROVE  data'[r][i].page = (RowsOf(r) \o page)[i]
        OBVIOUS
      <4>1. CASE i <= Len(data[r])
        <5>1. i \in 1 .. Len(data[r]) /\ (RowsOf(r) \o page)[i] = RowsOf(r)[i]
          BY <3>3, <3>4, <3>5, <4>1
        <5>2. data'[r][i] = data[r][i] /\ RowsOf(r)[i] = data[r][i].page
          BY <3>3, <3>4, <5>1
        <5>3. QED
          BY <5>1, <5>2
      <4>2. CASE ~(i <= Len(data[r]))
        <5>1. i - Len(data[r]) \in 1 .. Len(page)
          BY <3>2, <3>4, <4>2
        <5>2. (RowsOf(r) \o page)[i] = page[i - Len(data[r])]
          BY <3>5, <4>2
        <5>3. QED
          BY <3>2, <3>3, <4>2, <5>1, <5>2
      <4>3. QED
        BY <4>1, <4>2
    <3> DEFINE joined == RowsOf(r) \o page
    <3>7. DOMAIN joined = 1 .. Len(data[r]) + Len(page) /\ joined = [i \in DOMAIN joined |-> joined[i]]
      <4> HIDE DEF joined
      <4>1. joined \in Seq(Pages) /\ Len(joined) = Len(data[r]) + Len(page)
        BY <3>5 DEF joined
      <4>2. QED
        BY <4>1
    <3> HIDE DEF joined
    <3>8. RowsOf(r)' = joined
      BY <3>3, <3>6, <3>7 DEF joined
    <3>9. QED
      BY <3>8 DEF joined
  <2>6. \A i \in DOMAIN data'[r] : data'[r][i].outcome = row'[data'[r][i].page]
    <3>1. /\ data[r] \in Seq(RowEntry) /\ DOMAIN read = DOMAIN page
          /\ \A i \in DOMAIN data[r] : data[r][i].outcome = row[data[r][i].page]
          /\ \A i \in DOMAIN read : read[i].outcome = row[read[i].page]
      BY <1>1, <2>2 DEF ReaderTypes, Exact
    <3> HIDE DEF read, page
    <3>2. QED
      <4> SUFFICES ASSUME NEW i \in DOMAIN data'[r]
                   PROVE  data'[r][i].outcome = row[data'[r][i].page]
        BY <2>1
      <4>1. /\ i \in 1 .. Len(data[r]) + Len(read) /\ Len(data[r]) \in Nat /\ Len(read) \in Nat
            /\ data'[r][i] = IF i <= Len(data[r]) THEN data[r][i] ELSE read[i - Len(data[r])]
            /\ DOMAIN data[r] = 1 .. Len(data[r]) /\ DOMAIN read = 1 .. Len(read)
        BY <2>1, <2>4, <3>1
      <4>2. CASE i <= Len(data[r])
        BY <3>1, <4>1, <4>2
      <4>3. CASE ~(i <= Len(data[r]))
        <5>1. i - Len(data[r]) \in DOMAIN read
          BY <4>1, <4>3
        <5>2. QED
          BY <3>1, <4>1, <4>3, <5>1
      <4>4. QED
        BY <4>2, <4>3
  <2>7. Visible' = Visible /\ \A k : PageAt(k)' = PageAt(k)
    BY <1>4, <2>2
  <2>8. role[r] = "watch" => RowsOf(r)' = SubSeq(Visible, 1, end)
    <3>1. SUFFICES ASSUME role[r] = "watch" PROVE RowsOf(r)' = SubSeq(Visible, 1, end)
      OBVIOUS
    <3>2. RowsOf(r)' = SubSeq(Visible, 1, from) \o SubSeq(Visible, from + 1, end)
      BY <2>3, <2>4, <2>5, <3>1
    <3>3. 1 \in 1 .. n + 1 /\ from \in 1 - 1 .. n /\ end \in from .. n
      BY <2>3, <3>1
    <3>4. QED
      BY <2>3, <3>2, <3>3, ConcatAdjacentSubSeq
  <2>9. role[r] # "watch" => RowsOf(r)' = page
    <3>1. data[r] = << >> => RowsOf(r) = << >>
      BY DEF RowsOf
    <3>2. role[r] # "watch" => RowsOf(r)' = << >> \o page
      BY <2>3, <2>5, <3>1
    <3>3. << >> \o page = page
      BY <2>4, ConcatEmptySeq
    <3>4. QED
      BY <3>2, <3>3
  <2>10. CASE more
    <3>1. NextOffset(from, counted[r]) = {from + PageSize} /\ from + PageSize < n
      BY <2>2, <2>10 DEF NextOffset
    <3>2. offset'[r] = from + PageSize /\ offset'[r] = end /\ offset'[r] > 0 /\ offset'[r] <= n
      BY <2>1, <2>3, <2>10, <3>1
    <3> HIDE DEF page, read, end
    <3>3. QED
      BY <2>1, <2>2, <2>6, <2>7, <2>8, <2>10, <3>2 DEF Exact
  <2>11. CASE ~more
    <3>1. role[r] = "watch" => end = n
      BY <2>2, <2>3, <2>11 DEF NextOffset
    <3>2. role[r] = "watch" => RowsOf(r)' = Visible
      BY <2>3, <2>8, <3>1, SubSeqFull
    <3>3. offset'[r] = from /\ step'[r] = "answer"
      BY <2>1, <2>11
    <3>4. RowsOf(r)' = (IF role[r] = "watch" THEN Visible ELSE PageAt(from))
      BY <2>9, <3>2
    <3> HIDE DEF page, read, end
    <3>5. QED
      BY <2>1, <2>2, <2>6, <2>7, <3>3, <3>4 DEF Exact
  <2>12. QED
    BY <2>10, <2>11
<1>9. CASE Send(r)
  <2>1. /\ step[r] = "answer" /\ role[r] = "watch"
        /\ step'[r] \in {"ended", "sleep"}
        /\ UNCHANGED <<status, row, order, role, seen, counted, offset, data>>
    BY <1>1, <1>9 DEF Send, End, Pause, ReaderTypes, jobVars
  <2>2. Exact(r) /\ status = "completed"
    BY <1>1, <1>3, <2>1 DEF AnswerFinal, Exact
  <2>3. Results \subseteq ToSet(DocumentsOf(r))
    <3>1. SUFFICES ASSUME NEW p \in Pages, row[p] = "result" PROVE p \in ToSet(DocumentsOf(r))
      BY DEF Results
    <3>2. RowsOf(r) = Visible
      BY <2>1, <2>2 DEF Exact
    <3>3. p \in ToSet(Visible)
      BY <1>1, <3>1, VisibleRows DEF Finished
    <3>4. PICK i \in DOMAIN data[r] : data[r][i].page = p
      BY <3>2, <3>3 DEF ToSet, RowsOf
    <3>5. i \in ResultsAt(r)
      BY <2>2, <3>1, <3>4 DEF Exact, ResultsAt
    <3>6. QED
      BY <1>1, <3>4, <3>5, DocumentsRead
  <2>4. ToSet(DocumentsOf(r)) \subseteq Delivered(r)'
    <3>1. CASE catchup[r] = NoAnswer
      <4>1. catchup'[r] = DocumentsOf(r)
        BY <1>1, <1>9, <3>1 DEF Send, ReaderTypes
      <4>2. QED
        BY <4>1 DEF Delivered
    <3>2. CASE catchup[r] # NoAnswer
      <4>1. catchup'[r] = catchup[r] /\ documents'[r] = documents[r] \o Unsent(r)
        BY <1>1, <1>9, <3>2 DEF Send, ReaderTypes
      <4>2. /\ Unsent(r) \in Seq(Pages) /\ documents[r] \in Seq(Pages)
            /\ ToSet(Unsent(r)) = ToSet(DocumentsOf(r)) \ (ToSet(catchup[r]) \cup ToSet(documents[r]))
        BY <1>1, UnsentDocuments DEF ReaderTypes
      <4>3. ToSet(documents'[r]) = ToSet(documents[r]) \cup ToSet(Unsent(r))
        BY <4>1, <4>2, JoinedInjective
      <4>4. QED
        BY <4>1, <4>2, <4>3 DEF Delivered
    <3>3. QED
      BY <3>1, <3>2
  <2>5. Results' = Results
    BY <1>4, <2>2
  <2>6. QED
    BY <2>1, <2>2, <2>3, <2>4, <2>5 DEF Exact
<1>10. CASE Wake(r)
  BY <1>1, <1>3, <1>10 DEF Wake, SentInv, IsEnded
<1>11. CASE Cancel(r)
  <2>1. step[r] = "cancel" /\ seen' = seen
    BY <1>11 DEF Cancel
  <2>2. QED
    BY <1>1, <1>3, <2>1 DEF SentInv, IsEnded
<1>12. CASE Answer(r) \/ DatabaseFails(r) \/ Disconnect(r)
  <2>1. /\ ending'[r] # "done" \/ ending'[r] = ending[r]
        /\ UNCHANGED <<status, row, order, role, seen, counted, offset, data, catchup, documents>>
    BY <1>1, <1>12 DEF Answer, DatabaseFails, Disconnect, End, Pause, ReaderTypes, jobVars
  <2>2. Exact(r) /\ status = "completed" /\ Results' = Results /\ Delivered(r)' = Delivered(r)
    BY <1>1, <1>3, <2>1 DEF AnswerFinal, Exact, Results, Delivered
  <2>3. step'[r] \in {"ended", "sleep"}
    BY <1>1, <1>12 DEF Answer, DatabaseFails, Disconnect, End, Pause, ReaderTypes
  <2>4. QED
    BY <2>1, <2>2, <2>3 DEF Exact
<1>13. QED
  BY <1>1, <1>5, <1>6, <1>7, <1>8, <1>9, <1>10, <1>11, <1>12, OwnKept DEF Acts, ReaderStep

LEMMA WatcherInvariant == Spec => []WatcherInv
<1>1. Init => WatcherInv
  <2> SUFFICES ASSUME Init PROVE WatcherInv
    OBVIOUS
  <2>1. JobInv
    BY InitialJob
  <2>2. ReaderTypes
    BY WatcherAssumption DEF Init, ReaderTypes, Statuses
  <2>3. \A r \in Readers : SentInv(r) /\ ~AnswerFinal(r)
    BY DEF Init, SentInv, AnswerFinal, IsEnded, IsInjective
  <2>4. QED
    BY <2>1, <2>2, <2>3 DEF WatcherInv
<1>2. WatcherInv /\ [Next]_vars => WatcherInv'
  <2> SUFFICES ASSUME WatcherInv, [Next]_vars PROVE WatcherInv'
    OBVIOUS
  <2>1. JobInv' /\ ReaderTypes'
    BY JobKept, TypesKept DEF WatcherInv
  <2>2. ASSUME NEW r \in Readers PROVE SentInv(r)' /\ (AnswerFinal(r)' => Exact(r)')
    BY OwnKept, SentKept, ExactKept DEF WatcherInv
  <2>3. QED
    BY <2>1, <2>2 DEF WatcherInv
<1>3. QED
  BY <1>1, <1>2, PTL DEF Spec

-----------------------------------------------------------------------------
(* The answers.                                                            *)

(* A watcher is told every row of a completed job once, and a poll the     *)
(* page it asked for, with the true total.                                 *)
THEOREM FinalAnswersTheorem == Spec => []FinalAnswersExact
<1>1. WatcherInv => FinalAnswersExact
  BY DEF WatcherInv, FinalAnswersExact, Exact
<1>2. QED
  BY <1>1, WatcherInvariant, PTL

(* done is the last word about every result of a completed job. *)
THEOREM DoneTheorem == Spec => []DoneIsComplete
<1>1. WatcherInv => DoneIsComplete
  BY DEF WatcherInv, DoneIsComplete, Exact
<1>2. QED
  BY <1>1, WatcherInvariant, PTL

(* A document is sent once, by the catchup or after it. *)
THEOREM DocumentsTheorem == Spec => []NoDocumentTwice
<1>1. WatcherInv => NoDocumentTwice
  BY DEF WatcherInv, NoDocumentTwice, SentInv
<1>2. QED
  BY <1>1, WatcherInvariant, PTL
=============================================================================
