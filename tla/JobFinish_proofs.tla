-------------------------- MODULE JobFinish_proofs --------------------------
(***************************************************************************)
(* Proofs about JobFinish: whatever the pages, links and workers, the      *)
(* finishes change the job as if each were one step, and drop no link they *)
(* have room for.  The argument is the lock: only its holder has a         *)
(* transaction, so what the holder sees is what the table will be.         *)
(***************************************************************************)
EXTENDS JobFinish, FiniteSetTheorems, TLAPS

RowStatus == {"absent", "queued", "active", "page", "error"}

TxType ==
    [result : {"page", "error", "again"}, links : SUBSET Pages, left : SUBSET Pages,
     own : [Pages -> {"same", "queued", "page", "error"}],
     stopped : BOOLEAN, drains : BOOLEAN]

TypeOK ==
    /\ status \in {"absent", "queued", "scraping", "cancelled", "completed", "deleted"}
    /\ cancelled \in BOOLEAN
    /\ rows \in [Pages -> RowStatus]
    /\ token \in [Pages -> Finishers \cup {NoWorker}]
    /\ lock \in Finishers \cup {NoWorker}
    /\ at \in [Finishers -> {"idle", "scraping", "locked", "inserting", "drained"}]
    /\ page \in [Finishers -> Pages \cup {NoPage}]
    /\ tx \in [Finishers -> TxType]

(* The job's row: cancel_requested and the status agree, a job not yet     *)
(* accepted has no rows, and a task is active only in a job that started.  *)
JobInv ==
    /\ cancelled <=> status = "cancelled"
    /\ status = "absent" => \A p \in Pages : rows[p] = "absent"
    /\ \A p \in Pages : rows[p] = "active" => status \in {"scraping", "cancelled"}

(* Whoever has the lock has a transaction and read the cancel flag as it   *)
(* still is; nobody else has one.                                          *)
LockInv ==
    \A w \in Finishers :
        /\ at[w] # "idle" => page[w] \in Pages
        /\ lock = w <=> at[w] \in {"locked", "inserting", "drained"}
        /\ lock # w => tx[w] = NoTx
        /\ lock = w => tx[w].stopped = cancelled
        /\ tx[w].left \subseteq tx[w].links
        /\ tx[w].result # "page" => tx[w].links = {}
        /\ at[w] = "locked" => /\ tx[w].own = NoTx.own
                               /\ tx[w].left = tx[w].links

(* A transaction that updated its task has it to itself, and wrote nothing *)
(* else but rows for links.                                                *)
Wrote(w) ==
    /\ rows[page[w]] = "active" /\ tx[w].own[page[w]] = Outcome(w)
    /\ \A q \in Pages \ {page[w]} :
          /\ tx[w].own[q] \in {"same", "queued"}
          /\ tx[w].own[q] = "queued" =>
                rows[q] = "absent" /\ tx[w].result = "page" /\ ~cancelled

Tried(w) ==
    \A l \in tx[w].links \ tx[w].left :
        Taken(View(w), l) \/ Cardinality(Found(View(w))) = PageLimit

OwnInv ==
    \A w \in Finishers : at[w] \in {"inserting", "drained"} => Wrote(w) /\ Tried(w)

DrainInv ==
    \A w \in Finishers : at[w] = "drained" =>
        /\ tx[w].drains <=> ~cancelled /\ Open(View(w)) = {}
        /\ cancelled \/ tx[w].left = {}

LimitInv == \A w \in Finishers : Cardinality(Found(View(w))) <= PageLimit

IInv == TypeOK /\ JobInv /\ LockInv /\ OwnInv /\ DrainInv /\ LimitInv

-----------------------------------------------------------------------------
LEMMA FoundFinite ==
  ASSUME NEW table
  PROVE  IsFiniteSet(Found(table)) /\ Cardinality(Found(table)) \in Nat
BY FinishAssumption, FS_Subset, FS_CardinalityType DEF Found

LEMMA NoTxType == NoTx \in TxType
BY DEF NoTx, TxType

LEMMA ViewType ==
  ASSUME TypeOK, NEW w \in Finishers
  PROVE  View(w) \in [Pages -> RowStatus]
BY DEF TypeOK, TxType, View, RowStatus

(* Who wrote nothing sees the committed rows. *)
LEMMA ViewRows ==
  ASSUME TypeOK, NEW w \in Finishers, tx[w].own = NoTx.own
  PROVE  View(w) = rows
<1>1. \A p \in Pages : tx[w].own[p] = "same"
  BY DEF NoTx
<1>2. QED
  BY <1>1 DEF TypeOK, View

(* So does everybody who has not got the lock. *)
LEMMA OthersSeeRows ==
  ASSUME TypeOK, LockInv, NEW w \in Finishers, lock # w
  PROVE  View(w) = rows /\ tx[w] = NoTx
<1>1. tx[w] = NoTx
  BY DEF LockInv
<1>2. QED
  BY <1>1, ViewRows

LEMMA TypeStep ==
  ASSUME TypeOK, LockInv, [FinishNext]_finishVars
  PROVE  TypeOK'
<1> USE FinishAssumption, NoTxType
<1>1. CASE Enqueue \/ Cancel \/ Cleanup \/ UNCHANGED finishVars
  <2>1. CASE Enqueue
    BY <2>1 DEF Enqueue, TypeOK, RowStatus
  <2>2. CASE Cancel
    BY <2>2 DEF Cancel, TypeOK
  <2>3. CASE Cleanup
    BY <2>3 DEF Cleanup, TypeOK, RowStatus
  <2>4. CASE UNCHANGED finishVars
    BY <2>4 DEF finishVars, TypeOK
  <2>5. QED
    BY <1>1, <2>1, <2>2, <2>3, <2>4
<1>2. ASSUME NEW w \in Finishers, NEW p \in Pages, Claim(w, p) PROVE TypeOK'
  BY <1>2 DEF Claim, TypeOK, RowStatus
<1>3. ASSUME NEW w \in Finishers, NEW result \in {"page", "error", "again"},
             NEW links \in SUBSET Pages, LockJob(w, result, links)
      PROVE  TypeOK'
  <2> DEFINE new == [NoTx EXCEPT !.result = result, !.links = links,
                                 !.left = links, !.stopped = cancelled]
  <2>1. new \in TxType
    BY DEF TypeOK, TxType, NoTx
  <2>2. tx' = [tx EXCEPT ![w] = new]
    BY <1>3 DEF LockJob
  <2> HIDE DEF new
  <2>3. QED
    BY <1>3, <2>1, <2>2 DEF LockJob, TypeOK
<1>4. ASSUME NEW w \in Finishers, UpdateTask(w) PROVE TypeOK'
  <2>1. page[w] \in Pages
    BY <1>4 DEF UpdateTask, LockInv, TypeOK
  <2>2. Outcome(w) \in {"queued", "page", "error"}
    BY DEF Outcome, TypeOK, TxType
  <2>3. CASE Leave(w)
    BY <1>4, <2>3 DEF UpdateTask, Leave, TypeOK
  <2>4. CASE ~Leave(w)
    <3> DEFINE new == [tx[w] EXCEPT !.own[page[w]] = Outcome(w)]
    <3>1. new \in TxType
      BY <2>1, <2>2 DEF TypeOK, TxType
    <3>2. tx' = [tx EXCEPT ![w] = new]
      BY <1>4, <2>4 DEF UpdateTask
    <3> HIDE DEF new
    <3>3. QED
      BY <1>4, <2>4, <3>1, <3>2 DEF UpdateTask, TypeOK
  <2>5. QED
    BY <2>3, <2>4
<1>5. ASSUME NEW w \in Finishers, NEW l \in Pages, InsertLink(w, l) PROVE TypeOK'
  <2> DEFINE row == IF HasRoom(w) /\ ~Taken(View(w), l) THEN "queued" ELSE tx[w].own[l]
             new == [tx[w] EXCEPT !.left = @ \ {l}, !.own[l] = row]
  <2>1. row \in {"same", "queued", "page", "error"}
    BY DEF TypeOK, TxType
  <2>2. new \in TxType
    <3> HIDE DEF row
    <3> QED
      BY <2>1 DEF TypeOK, TxType
  <2>3. tx' = [tx EXCEPT ![w] = new]
    BY <1>5 DEF InsertLink, TypeOK, TxType
  <2>4. UNCHANGED <<status, cancelled, rows, token, lock, at, page>>
    BY <1>5 DEF InsertLink
  <2> HIDE DEF new
  <2>5. QED
    BY <2>2, <2>3, <2>4 DEF TypeOK
<1>6. ASSUME NEW w \in Finishers, Drain(w) PROVE TypeOK'
  BY <1>6 DEF Drain, TypeOK, TxType
<1>7. ASSUME NEW w \in Finishers, Commit(w) PROVE TypeOK'
  BY <1>7, ViewType DEF Commit, Leave, TypeOK
<1>8. ASSUME NEW w \in Finishers, RollBack(w) PROVE TypeOK'
  BY <1>8 DEF RollBack, Leave, TypeOK
<1>9. QED
  BY <1>1, <1>2, <1>3, <1>4, <1>5, <1>6, <1>7, <1>8 DEF FinishNext, EndTask

(* Who holds the lock, and what the others have.  *)
LEMMA LockStep ==
  ASSUME IInv, [FinishNext]_finishVars
  PROVE  LockInv'
<1> USE FinishAssumption DEF IInv
<1>1. CASE Enqueue \/ UNCHANGED finishVars
  BY <1>1 DEF Enqueue, finishVars, TypeOK, LockInv
<1>2. CASE Cancel \/ Cleanup
  <2>1. \A w \in Finishers : lock # w
    BY <1>2 DEF Cancel, Cleanup
  <2>2. QED
    BY <1>2, <2>1 DEF Cancel, Cleanup, TypeOK, LockInv
<1>3. ASSUME NEW w \in Finishers, NEW p \in Pages, Claim(w, p) PROVE LockInv'
  BY <1>3 DEF Claim, TypeOK, LockInv
<1>4. ASSUME NEW w \in Finishers, NEW result \in {"page", "error", "again"},
             NEW links \in SUBSET Pages, LockJob(w, result, links)
      PROVE  LockInv'
  <2>1. /\ tx'[w].own = NoTx.own /\ tx'[w].left = tx'[w].links
        /\ tx'[w].stopped = cancelled
    BY <1>4 DEF LockJob, TypeOK, TxType, NoTx
  <2>2. QED
    BY <1>4, <2>1 DEF LockJob, MayLock, TypeOK, LockInv
<1>5. ASSUME NEW w \in Finishers, Leave(w), UNCHANGED cancelled PROVE LockInv'
  <2>1. /\ NoTx.left = {} /\ NoTx.links = {}
        /\ tx'[w] = NoTx /\ at'[w] = "idle" /\ lock' # w
    BY <1>5 DEF Leave, TypeOK, NoTx
  <2>2. QED
    BY <1>5, <2>1 DEF Leave, TypeOK, LockInv
<1>6. ASSUME NEW w \in Finishers, UpdateTask(w) PROVE LockInv'
  <2>1. CASE Leave(w)
    BY <1>5, <1>6, <2>1 DEF UpdateTask
  <2>2. CASE ~Leave(w)
    <3>1. /\ tx' = [tx EXCEPT ![w].own[page[w]] = Outcome(w)]
          /\ at' = [at EXCEPT ![w] = "inserting"] /\ at[w] = "locked"
          /\ UNCHANGED <<cancelled, lock, page>>
      BY <1>6, <2>2 DEF UpdateTask
    <3>2. /\ UNCHANGED <<tx[w].left, tx[w].links, tx[w].result, tx[w].stopped>>
          /\ \A v \in Finishers \ {w} : tx'[v] = tx[v]
      BY <3>1 DEF TypeOK, TxType
    <3>3. lock = w
      BY <3>1 DEF LockInv
    <3>4. QED
      BY <3>1, <3>2, <3>3 DEF TypeOK, LockInv
  <2>3. QED
    BY <2>1, <2>2
<1>7. ASSUME NEW w \in Finishers, NEW l \in Pages, InsertLink(w, l) PROVE LockInv'
  BY <1>7 DEF InsertLink, TypeOK, TxType, LockInv
<1>8. ASSUME NEW w \in Finishers, Drain(w) PROVE LockInv'
  BY <1>8 DEF Drain, TypeOK, TxType, LockInv
<1>9. ASSUME NEW w \in Finishers, Commit(w) \/ RollBack(w) PROVE LockInv'
  BY <1>5, <1>9 DEF Commit, RollBack
<1>10. QED
  BY <1>1, <1>2, <1>3, <1>4, <1>6, <1>7, <1>8, <1>9 DEF FinishNext, EndTask

LEMMA JobStep ==
  ASSUME IInv, [FinishNext]_finishVars
  PROVE  JobInv'
<1> USE FinishAssumption DEF IInv
<1>1. CASE Enqueue
  BY <1>1 DEF Enqueue, TypeOK, JobInv
<1>2. CASE Cancel
  BY <1>2 DEF Cancel, TypeOK, JobInv
<1>3. CASE Cleanup
  BY <1>3 DEF Cleanup, TypeOK, JobInv
<1>4. ASSUME NEW w \in Finishers, NEW p \in Pages, Claim(w, p) PROVE JobInv'
  BY <1>4 DEF Claim, TypeOK, JobInv
<1>5. ASSUME UNCHANGED <<status, cancelled, rows>> PROVE JobInv'
  BY <1>5 DEF JobInv
<1>6. ASSUME NEW w \in Finishers, Commit(w) PROVE JobInv'
  <2>1. at[w] = "drained" /\ Wrote(w) /\ page[w] \in Pages
    BY <1>6 DEF Commit, OwnInv, LockInv
  <2>2. status \in {"scraping", "cancelled"}
    BY <2>1 DEF Wrote, JobInv
  <2>3. tx[w].drains => ~cancelled /\ Open(View(w)) = {}
    BY <2>1 DEF DrainInv
  <2>4. \A p \in Pages : View(w)[p] = "active" => p \in Open(View(w))
    BY DEF Open
  <2>5. QED
    BY <1>6, <2>2, <2>3, <2>4 DEF Commit, JobInv
<1>7. QED
  <2>1. ASSUME NEW w \in Finishers, EndTask(w) \/ RollBack(w), ~Commit(w)
        PROVE  UNCHANGED <<status, cancelled, rows>>
    BY <2>1 DEF EndTask, RollBack, LockJob, UpdateTask, InsertLink, Drain
  <2>2. CASE UNCHANGED finishVars
    BY <1>5, <2>2 DEF finishVars
  <2>3. QED
    BY <1>1, <1>2, <1>3, <1>4, <1>5, <1>6, <2>1, <2>2 DEF FinishNext

(* What a worker in a transaction sees, over a step of somebody else.      *)
LEMMA OthersLeave ==
  ASSUME IInv, [FinishNext]_finishVars, NEW w \in Finishers,
         at[w] \in {"inserting", "drained"}, at'[w] = at[w], tx'[w] = tx[w]
  PROVE  UNCHANGED <<rows, cancelled, tx[w], page[w]>> /\ View(w)' = View(w)
<1> USE DEF IInv
<1>1. lock = w
  BY DEF LockInv
<1>2. lock # NoWorker
  BY <1>1, FinishAssumption
<1>3. UNCHANGED <<rows, cancelled, page[w]>>
  <2>1. CASE Enqueue
    <3>1. rows[page[w]] = "active" /\ page[w] \in Pages
      BY DEF OwnInv, Wrote, LockInv
    <3>2. QED
      BY <2>1, <3>1 DEF Enqueue, JobInv
  <2>2. CASE Cancel \/ Cleanup
    BY <1>2, <2>2 DEF Cancel, Cleanup
  <2>3. ASSUME NEW v \in Finishers, NEW p \in Pages, Claim(v, p) PROVE FALSE
    BY <1>2, <2>3 DEF Claim
  <2>4. ASSUME NEW v \in Finishers, Commit(v) \/ RollBack(v)
        PROVE  UNCHANGED <<rows, cancelled, page[w]>>
    <3>1. CASE v = w
      BY <2>4, <3>1 DEF Commit, RollBack, Leave, TypeOK
    <3>2. CASE v # w
      BY <1>1, <2>4, <3>2 DEF Commit, RollBack, Leave, LockInv, TypeOK
    <3>3. QED
      BY <3>1, <3>2
  <2>5. ASSUME NEW v \in Finishers, EndTask(v), ~Commit(v)
        PROVE  UNCHANGED <<rows, cancelled, page[w]>>
    <3>1. UNCHANGED <<rows, cancelled>>
      BY <2>5 DEF EndTask, LockJob, UpdateTask, InsertLink, Drain
    <3>2. UNCHANGED page[w]
      BY <2>5 DEF EndTask, LockJob, UpdateTask, InsertLink, Drain, Leave, TypeOK
    <3>3. QED
      BY <3>1, <3>2
  <2>6. CASE UNCHANGED finishVars
    BY <2>6 DEF finishVars
  <2>7. QED
    BY <2>1, <2>2, <2>3, <2>4, <2>5, <2>6 DEF FinishNext
<1>4. QED
  BY <1>3 DEF View

(* What the statements of a transaction do to what it sees.                *)
LEMMA UpdateSees ==
  ASSUME TypeOK, LockInv, TypeOK', LockInv', NEW w \in Finishers,
         UpdateTask(w), at'[w] # "idle"
  PROVE  Wrote(w)' /\ Tried(w)' /\ Found(View(w)') = Found(View(w))
<1>1. /\ at[w] = "locked" /\ page[w] \in Pages /\ rows[page[w]] = "active"
      /\ tx' = [tx EXCEPT ![w].own[page[w]] = Outcome(w)]
      /\ UNCHANGED <<status, cancelled, rows, token, page>>
  BY DEF UpdateTask, Leave, LockInv, TypeOK
<1>2. /\ \A q \in Pages : tx[w].own[q] = "same"
      /\ tx[w].left = tx[w].links
  BY <1>1 DEF LockInv, NoTx
<1>3. /\ tx'[w].own = [tx[w].own EXCEPT ![page[w]] = Outcome(w)]
      /\ UNCHANGED <<tx[w].left, tx[w].links, tx[w].result, tx[w].stopped>>
  BY <1>1 DEF TypeOK, TxType
<1>4. UNCHANGED Outcome(w) /\ Outcome(w) \in {"queued", "page", "error"}
  BY <1>3 DEF Outcome, TypeOK, TxType
<1>5. /\ tx'[w].own[page[w]] = Outcome(w)
      /\ \A q \in Pages \ {page[w]} : tx'[w].own[q] = "same"
  BY <1>1, <1>2, <1>3 DEF TypeOK, TxType
<1>6. Wrote(w)'
  BY <1>1, <1>4, <1>5 DEF Wrote
<1>7. Tried(w)'
  BY <1>2, <1>3 DEF Tried
<1>8. \A q \in Pages : View(w)'[q] = "absent" <=> View(w)[q] = "absent"
  BY <1>1, <1>2, <1>4, <1>5 DEF View
<1>9. QED
  BY <1>6, <1>7, <1>8 DEF Found

LEMMA InsertSees ==
  ASSUME TypeOK, LockInv, OwnInv, LimitInv, TypeOK', LockInv',
         NEW w \in Finishers, NEW l \in Pages, InsertLink(w, l)
  PROVE  /\ Wrote(w)' /\ Tried(w)'
         /\ Cardinality(Found(View(w)')) <= PageLimit
<1> DEFINE V == View(w)
           fits == HasRoom(w) /\ ~Taken(V, l)
<1>1. /\ at[w] = "inserting" /\ ~tx[w].stopped /\ l \in tx[w].left
      /\ page[w] \in Pages /\ Wrote(w) /\ Tried(w)
      /\ Cardinality(Found(V)) <= PageLimit
      /\ UNCHANGED <<status, cancelled, rows, token, page>>
  BY DEF InsertLink, LockInv, OwnInv, LimitInv
<1>2. tx[w].result = "page" /\ ~cancelled
  BY <1>1 DEF LockInv
<1>3. /\ tx'[w].own = [tx[w].own EXCEPT ![l] = IF fits THEN "queued" ELSE @]
      /\ tx'[w].left = tx[w].left \ {l}
      /\ UNCHANGED <<tx[w].links, tx[w].result, tx[w].stopped>>
  BY DEF InsertLink, TypeOK, TxType
<1>4. Outcome(w) = "page" /\ UNCHANGED Outcome(w)
  BY <1>2, <1>3 DEF Outcome
<1>5. V \in [Pages -> RowStatus]
  BY ViewType
<1>6. tx[w].own \in [Pages -> {"same", "queued", "page", "error"}]
  BY DEF TypeOK, TxType
<1>7. CASE fits
  <2>1. l \notin Found(V)
    BY <1>7 DEF Taken
  <2>2. V[l] = "absent"
    BY <2>1 DEF Found
  <2>3. l # page[w]
    BY <1>1, <1>4, <2>2 DEF Wrote, View
  <2>4. tx[w].own[l] = "same" /\ rows[l] = "absent"
    BY <2>2, <1>6 DEF View
  <2>5. /\ tx'[w].own[l] = "queued"
        /\ \A q \in Pages \ {l} : tx'[w].own[q] = tx[w].own[q]
    BY <1>3, <1>6, <1>7
  <2>6. Wrote(w)'
    BY <1>1, <1>2, <1>3, <1>4, <2>3, <2>4, <2>5 DEF Wrote
  <2>7. View(w)' = [V EXCEPT ![l] = "queued"]
    BY <1>1, <1>5, <2>5 DEF View
  <2>8. Found(View(w)') = Found(V) \cup {l}
    BY <1>5, <2>7 DEF Found
  <2>9. Cardinality(Found(V) \cup {l}) = Cardinality(Found(V)) + 1
    BY <2>1, FoundFinite, FS_AddElement
  <2>10. Cardinality(Found(V)) < PageLimit
    BY <1>7 DEF HasRoom
  <2>11. Cardinality(Found(View(w)')) <= PageLimit
    BY <2>8, <2>9, <2>10, FoundFinite, FinishAssumption
  <2>12. \A k \in tx'[w].links \ tx'[w].left : Taken(View(w)', k)
    <3>1. TAKE k \in tx'[w].links \ tx'[w].left
    <3>2. CASE k = l
      BY <2>8, <3>2 DEF Taken
    <3>3. CASE k # l
      <4>1. k \in tx[w].links \ tx[w].left
        BY <1>3, <3>1, <3>3
      <4>2. Cardinality(Found(V)) # PageLimit
        BY <2>10, FoundFinite, FinishAssumption
      <4>3. Taken(V, k)
        BY <1>1, <4>1, <4>2 DEF Tried
      <4>4. QED
        BY <2>8, <4>3 DEF Taken
    <3>4. QED
      BY <3>2, <3>3
  <2>13. QED
    BY <2>6, <2>11, <2>12 DEF Tried
<1>8. CASE ~fits
  <2>1. tx'[w].own = tx[w].own
    BY <1>3, <1>6, <1>8
  <2>2. View(w)' = V
    BY <1>1, <2>1 DEF View
  <2>3. Wrote(w)'
    BY <1>1, <1>2, <1>3, <1>4, <2>1 DEF Wrote
  <2>4. Taken(V, l) \/ Cardinality(Found(V)) = PageLimit
    <3>1. Taken(V, l) \/ ~(Cardinality(Found(V)) < PageLimit)
      BY <1>8 DEF HasRoom
    <3>2. QED
      BY <1>1, <3>1, FoundFinite, FinishAssumption
  <2>5. Tried(w)'
    BY <1>1, <1>3, <2>2, <2>4 DEF Tried
  <2>6. QED
    BY <1>1, <2>2, <2>3, <2>5
<1>9. QED
  BY <1>7, <1>8

(* The table has no more pages than a transaction on it sees.              *)
LEMMA RowsLimit ==
  ASSUME IInv, NEW w \in Finishers
  PROVE  Cardinality(Found(rows)) <= PageLimit
<1> USE DEF IInv
<1>1. CASE at[w] \in {"inserting", "drained"}
  <2>1. Wrote(w) /\ View(w) \in [Pages -> RowStatus]
    BY <1>1, ViewType DEF OwnInv
  <2>2. \A p \in Pages : tx[w].own[p] \in {"same", "queued", "page", "error"}
    BY DEF TypeOK, TxType
  <2>3. Found(rows) \subseteq Found(View(w))
    BY <2>2 DEF Found, View
  <2>4. Cardinality(Found(rows)) <= Cardinality(Found(View(w)))
    BY <2>3, FoundFinite, FS_Subset
  <2>5. QED
    BY <2>4, FoundFinite, FinishAssumption DEF LimitInv
<1>2. CASE at[w] \notin {"inserting", "drained"}
  <2>1. tx[w].own = NoTx.own
    BY <1>2 DEF LockInv
  <2>2. QED
    BY <2>1, ViewRows DEF LimitInv
<1>3. QED
  BY <1>1, <1>2

LEMMA RowsLimitStep ==
  ASSUME IInv, [FinishNext]_finishVars, NEW w \in Finishers
  PROVE  Cardinality(Found(rows')) <= PageLimit
<1> USE DEF IInv
<1>1. CASE Enqueue
  <2>1. Found(rows') = {Seed}
    BY <1>1, FinishAssumption DEF Enqueue, JobInv, Found, TypeOK
  <2>2. QED
    <3>1. Cardinality({Seed}) = 1
      BY FS_Singleton
    <3>2. 1 <= PageLimit
      BY FinishAssumption
    <3>3. QED
      BY <2>1, <3>1, <3>2
<1>2. CASE Cleanup
  <2>1. Found(rows') = {}
    BY <1>2 DEF Cleanup, Found
  <2>2. QED
    BY <2>1, FS_EmptySet, FinishAssumption
<1>3. ASSUME NEW v \in Finishers, NEW p \in Pages, Claim(v, p)
      PROVE  Cardinality(Found(rows')) <= PageLimit
  <2>1. Found(rows') = Found(rows)
    BY <1>3 DEF Claim, Found, TypeOK
  <2>2. QED
    BY <2>1, RowsLimit
<1>4. ASSUME NEW v \in Finishers, Commit(v) PROVE Cardinality(Found(rows')) <= PageLimit
  BY <1>4 DEF Commit, LimitInv
<1>5. CASE UNCHANGED rows
  BY <1>5, RowsLimit
<1>6. ASSUME NEW v \in Finishers, EndTask(v) \/ RollBack(v), ~Commit(v) PROVE UNCHANGED rows
  BY <1>6 DEF EndTask, RollBack, LockJob, UpdateTask, InsertLink, Drain
<1>7. QED
  BY <1>1, <1>2, <1>3, <1>4, <1>5, <1>6 DEF FinishNext, Cancel, finishVars

(* The steps that can leave w in a transaction that has its task.          *)
LEMMA OwnSteps ==
  ASSUME IInv, [FinishNext]_finishVars, NEW w \in Finishers, at'[w] \in {"inserting", "drained"}
  PROVE  \/ UpdateTask(w) \/ Drain(w) \/ \E l \in Pages : InsertLink(w, l)
         \/ at'[w] = at[w] /\ tx'[w] = tx[w]
<1> USE DEF IInv
<1>1. CASE Enqueue \/ Cancel \/ Cleanup \/ UNCHANGED finishVars
  BY <1>1 DEF Enqueue, Cancel, Cleanup, finishVars
<1>2. ASSUME NEW v \in Finishers, NEW p \in Pages, Claim(v, p)
      PROVE  at'[w] = at[w] /\ tx'[w] = tx[w]
  BY <1>2 DEF Claim, TypeOK
<1>3. ASSUME NEW v \in Finishers, v # w, EndTask(v) \/ RollBack(v)
      PROVE  at'[w] = at[w] /\ tx'[w] = tx[w]
  BY <1>3 DEF EndTask, RollBack, LockJob, UpdateTask, InsertLink, Drain, Commit, Leave, TypeOK
<1>4. ASSUME EndTask(w) \/ RollBack(w), ~UpdateTask(w), ~Drain(w),
             ~\E l \in Pages : InsertLink(w, l)
      PROVE  FALSE
  BY <1>4 DEF EndTask, RollBack, LockJob, Commit, Leave, TypeOK
<1>5. QED
  BY <1>1, <1>2, <1>3, <1>4 DEF FinishNext

LEMMA SightStep ==
  ASSUME IInv, [FinishNext]_finishVars, TypeOK', LockInv', NEW w \in Finishers
  PROVE  /\ at'[w] \in {"inserting", "drained"} => Wrote(w)' /\ Tried(w)'
         /\ at'[w] = "drained" =>
               /\ tx'[w].drains <=> ~cancelled' /\ Open(View(w)') = {}
               /\ cancelled' \/ tx'[w].left = {}
         /\ Cardinality(Found(View(w)')) <= PageLimit
<1> USE DEF IInv
<1>1. CASE at'[w] \notin {"inserting", "drained"}
  <2>1. tx'[w].own = NoTx.own
    BY <1>1 DEF LockInv
  <2>2. View(w)' = rows'
    BY <2>1 DEF View, NoTx, TypeOK
  <2>3. QED
    BY <1>1, <2>2, RowsLimitStep
<1>2. CASE UpdateTask(w) /\ at'[w] = "inserting"
  <2>1. Wrote(w)' /\ Tried(w)' /\ Found(View(w)') = Found(View(w))
    BY <1>2, UpdateSees
  <2>2. QED
    BY <1>2, <2>1 DEF LimitInv
<1>3. ASSUME NEW l \in Pages, InsertLink(w, l), at'[w] = "inserting"
      PROVE  /\ Wrote(w)' /\ Tried(w)'
             /\ Cardinality(Found(View(w)')) <= PageLimit
  BY <1>3, InsertSees
<1>4. CASE Drain(w)
  <2>1. /\ at[w] = "inserting" /\ at'[w] = "drained"
        /\ UNCHANGED <<cancelled, rows, page>>
        /\ tx[w].stopped \/ tx[w].left = {}
        /\ UNCHANGED <<tx[w].own, tx[w].left, tx[w].links, tx[w].result, tx[w].stopped>>
        /\ tx'[w].drains <=> ~cancelled /\ Open(View(w)) = {}
    BY <1>4 DEF Drain, TypeOK, TxType
  <2>2. View(w)' = View(w)
    BY <2>1 DEF View
  <2>3. tx[w].stopped = cancelled
    BY <2>1 DEF LockInv
  <2>4. Wrote(w)' /\ Tried(w)'
    BY <2>1, <2>2 DEF OwnInv, Wrote, Tried, Outcome
  <2>5. QED
    BY <2>1, <2>2, <2>3, <2>4 DEF LimitInv
<1>5. CASE at[w] \in {"inserting", "drained"} /\ at'[w] = at[w] /\ tx'[w] = tx[w]
  <2>1. UNCHANGED <<rows, cancelled, tx[w], page[w]>> /\ View(w)' = View(w)
    BY <1>5, OthersLeave
  <2>2. Wrote(w)' /\ Tried(w)'
    BY <1>5, <2>1 DEF OwnInv, Wrote, Tried, Outcome
  <2>3. QED
    BY <1>5, <2>1, <2>2 DEF DrainInv, LimitInv
<1>6. ASSUME NEW l \in Pages, InsertLink(w, l) PROVE at'[w] = "inserting"
  BY <1>6 DEF InsertLink
<1>7. UpdateTask(w) => at'[w] # "drained"
  BY DEF UpdateTask, Leave, TypeOK
<1>8. QED
  BY <1>1, <1>2, <1>3, <1>4, <1>5, <1>6, <1>7, OwnSteps

LEMMA FinishInvStep ==
  ASSUME IInv, [FinishNext]_finishVars
  PROVE  IInv'
<1>1. TypeOK' /\ LockInv' /\ JobInv'
  BY TypeStep, LockStep, JobStep DEF IInv
<1>2. OwnInv' /\ DrainInv' /\ LimitInv'
  BY <1>1, SightStep DEF OwnInv, DrainInv, LimitInv
<1>3. QED
  BY <1>1, <1>2 DEF IInv

LEMMA FinishInvInit ==
  ASSUME FinishInit
  PROVE  IInv
<1>1. TypeOK
  BY NoTxType DEF FinishInit, TypeOK, RowStatus
<1>2. JobInv
  BY DEF FinishInit, JobInv
<1>3. LockInv
  BY FinishAssumption DEF FinishInit, LockInv, NoTx
<1>4. OwnInv /\ DrainInv
  BY DEF FinishInit, OwnInv, DrainInv
<1>5. LimitInv
  <2>1. ASSUME NEW w \in Finishers PROVE Cardinality(Found(View(w))) <= PageLimit
    <3>1. Found(View(w)) = {}
      BY DEF FinishInit, View, NoTx, Found
    <3>2. QED
      BY <3>1, FS_EmptySet, FinishAssumption
  <2>2. QED
    BY <2>1 DEF LimitInv
<1>6. QED
  BY <1>1, <1>2, <1>3, <1>4, <1>5 DEF IInv

(* A link of a page is dropped for its key or for the limit only.          *)
LEMMA LinksStep ==
  ASSUME IInv, [FinishNext]_finishVars, NEW w \in Finishers, at[w] # "idle", ~cancelled,
         rows[page[w]] = "active", rows'[page[w]] = "page"
  PROVE  \/ \A l \in tx[w].links : Taken(rows', l)
         \/ Cardinality(Found(rows')) = PageLimit
<1> USE DEF IInv
<1>1. page[w] \in Pages
  BY DEF LockInv
<1>2. PICK v \in Finishers : Commit(v)
  <2>1. ~Enqueue /\ ~Cancel /\ ~Cleanup /\ ~UNCHANGED finishVars
    BY <1>1 DEF Enqueue, Cancel, Cleanup, finishVars, TypeOK
  <2>2. ASSUME NEW v \in Finishers, NEW p \in Pages, Claim(v, p) PROVE FALSE
    BY <1>1, <2>2 DEF Claim, TypeOK
  <2>3. ASSUME NEW v \in Finishers, EndTask(v) \/ RollBack(v), ~Commit(v) PROVE FALSE
    BY <1>1, <2>3 DEF EndTask, RollBack, LockJob, UpdateTask, InsertLink, Drain
  <2>4. QED
    BY <2>1, <2>2, <2>3 DEF FinishNext
<1>3. CASE v = w
  <2>1. /\ at[w] = "drained" /\ rows' = View(w) /\ tx[w].left = {} /\ Tried(w)
    BY <1>2, <1>3 DEF Commit, DrainInv, OwnInv
  <2>2. QED
    BY <2>1 DEF Tried
<1>4. CASE v # w
  <2>1. tx[w] = NoTx
    BY <1>2, <1>4 DEF Commit, LockInv
  <2>2. QED
    BY <2>1 DEF NoTx
<1>5. QED
  BY <1>3, <1>4

(* What the client sees of a step that is not a commit. *)
LEMMA SeenType ==
  ASSUME NEW table \in [Pages -> RowStatus], NEW p \in Pages
  PROVE  /\ Seen(table)[p] = "none" <=> table[p] = "absent"
         /\ Seen(table)[p] = "pending" <=> table[p] \in {"queued", "active"}
         /\ table[p] \in {"page", "error"} => Seen(table)[p] = table[p]
BY DEF Seen, RowStatus

LEMMA SeenTotal ==
  ASSUME NEW table \in [Pages -> RowStatus]
  PROVE  Client!Total(Seen(table), "job") = Cardinality(Found(table))
<1>1. {p \in Pages : [q \in Pages |-> "job"][p] = "job" /\ Seen(table)[p] # "none"}
        = Found(table)
  BY SeenType DEF Found
<1>2. QED
  BY <1>1 DEF Client!Total, Client!Cardinality, Cardinality

LEMMA SeenPending ==
  ASSUME NEW table \in [Pages -> RowStatus]
  PROVE  Client!Pending(Seen(table), "job") <=> Open(table) # {}
BY SeenType DEF Client!Pending, Open

LEMMA ClientInit ==
  ASSUME FinishInit
  PROVE  Client!Init
BY DEF FinishInit, Client!Init, Seen, OneJob

LEMMA ClientStart ==
  ASSUME IInv, NEW w \in Finishers, NEW p \in Pages, Claim(w, p)
  PROVE  [Client!Next]_(Client!jobView)
<1>1. Seen(rows') = Seen(rows)
  <2>1. \A q \in Pages : Seen(rows')[q] = Seen(rows)[q]
    BY DEF Claim, IInv, TypeOK, Seen
  <2>2. QED
    BY <2>1 DEF Seen
<1>2. CASE status = "queued"
  <2>1. Client!Start("job")
    BY <1>1, <1>2 DEF Claim, Client!Start, OneJob
  <2>2. QED
    BY <2>1 DEF Client!Next, OneJob
<1>3. CASE status # "queued"
  BY <1>1, <1>3 DEF Claim, Client!jobView
<1>4. QED
  BY <1>2, <1>3

LEMMA ClientAccept ==
  ASSUME IInv, Enqueue
  PROVE  Client!Next
<1>1. /\ rows' \in [Pages -> RowStatus] /\ Found(rows') = {Seed}
      /\ rows \in [Pages -> RowStatus]
  BY FinishAssumption DEF Enqueue, IInv, JobInv, TypeOK, Found, RowStatus
<1>2. Client!Total(Seen(rows'), "job") <= PageLimit
  <2>1. Cardinality({Seed}) = 1
    BY FS_Singleton
  <2>2. 1 <= PageLimit
    BY FinishAssumption
  <2>3. QED
    BY <1>1, <2>1, <2>2, SeenTotal
<1>3. Seen(rows') = [p \in Pages |-> IF p \in {Seed} THEN "pending" ELSE Seen(rows)[p]]
  <2>1. \A p \in Pages : Seen(rows')[p] = IF p \in {Seed} THEN "pending" ELSE Seen(rows)[p]
    BY DEF Enqueue, IInv, TypeOK, Seen
  <2>2. QED
    BY <2>1 DEF Seen
<1>4. Client!Accept("job", {Seed})
  BY <1>2, <1>3, FinishAssumption DEF Client!Accept, Client!PagesOf, Enqueue, OneJob
<1>5. QED
  BY <1>4, FinishAssumption DEF Client!Next, Client!PagesOf, OneJob

LEMMA ClientForget ==
  ASSUME IInv, Cleanup
  PROVE  Client!Next
<1>1. Client!Forget({"job"})
  BY DEF Client!Forget, Cleanup, OneJob, Seen
<1>2. QED
  BY <1>1 DEF Client!Next, OneJob

LEMMA ClientCancel ==
  ASSUME IInv, Cancel
  PROVE  Client!Next
<1>1. Client!Cancel("job")
  BY DEF Client!Cancel, Cancel, OneJob
<1>2. QED
  BY <1>1 DEF Client!Next, OneJob

(* A commit is one Record, or nothing when the task goes back to the queue *)
LEMMA ClientRecord ==
  ASSUME IInv, NEW w \in Finishers, Commit(w)
  PROVE  [Client!Next]_(Client!jobView)
<1> DEFINE p == page[w]
           V == View(w)
           fresh == {q \in Pages \ {p} : tx[w].own[q] = "queued"}
<1>1. /\ p \in Pages /\ Wrote(w) /\ rows' = V /\ V \in [Pages -> RowStatus]
      /\ rows \in [Pages -> RowStatus] /\ status \in {"scraping", "cancelled"}
      /\ cancelled <=> status = "cancelled"
      /\ tx[w].drains <=> ~cancelled /\ Open(V) = {}
      /\ status' = IF tx[w].drains THEN "completed" ELSE status
      /\ Cardinality(Found(V)) <= PageLimit
  BY ViewType DEF Commit, IInv, OwnInv, LockInv, JobInv, DrainInv, LimitInv, Wrote, TypeOK
<1>2. /\ V[p] = Outcome(w) /\ Outcome(w) \in {"queued", "page", "error"}
      /\ \A q \in Pages \ {p} : V[q] = IF q \in fresh THEN "queued" ELSE rows[q]
  BY <1>1 DEF Wrote, View, Outcome, IInv, TypeOK, TxType
<1>3. \A q \in fresh : rows[q] = "absent" /\ tx[w].result = "page" /\ ~cancelled
  BY <1>1 DEF Wrote
<1>4. CASE Outcome(w) = "queued"
  <2>1. fresh = {}
    BY <1>3, <1>4 DEF Outcome
  <2>2. \A q \in Pages : Seen(V)[q] = Seen(rows)[q]
    BY <1>1, <1>2, <1>4, <2>1 DEF Seen, Wrote
  <2>3. Seen(rows') = Seen(rows)
    BY <1>1, <2>2 DEF Seen
  <2>4. p \in Open(V)
    BY <1>1, <1>2, <1>4 DEF Open
  <2>5. QED
    BY <1>1, <2>3, <2>4 DEF Client!jobView
<1>5. CASE Outcome(w) \in {"page", "error"}
  <2>1. Seen(rows') = [q \in Pages |-> IF q = p THEN Outcome(w)
                                       ELSE IF q \in fresh THEN "pending" ELSE Seen(rows)[q]]
    <3>1. \A q \in Pages : Seen(V)[q] = IF q = p THEN Outcome(w)
                                        ELSE IF q \in fresh THEN "pending" ELSE Seen(rows)[q]
      BY <1>2, <1>5 DEF Seen
    <3>2. QED
      BY <1>1, <3>1 DEF Seen
  <2>2. /\ Seen(rows)[p] = "pending"
        /\ \A q \in fresh : Seen(rows)[q] = "none"
    BY <1>1, <1>3, SeenType DEF Wrote
  <2>3. fresh # {} => Outcome(w) = "page" /\ status = "scraping"
    BY <1>1, <1>3 DEF Outcome
  <2>4. Client!Total(Seen(rows'), "job") <= PageLimit
    BY <1>1, SeenTotal
  <2>5. Client!Pending(Seen(rows'), "job") <=> Open(V) # {}
    BY <1>1, SeenPending
  <2>6. Client!Record(p, Outcome(w), fresh)
    <3>1. status' = IF status = "scraping" /\ ~Client!Pending(Seen(rows'), "job")
                    THEN "completed" ELSE status
      BY <1>1, <2>5
    <3>2. [j \in OneJob |-> status'] =
            IF [j \in OneJob |-> status]["job"] = "scraping"
               /\ ~Client!Pending(Seen(rows'), "job")
            THEN [[j \in OneJob |-> status] EXCEPT !["job"] = "completed"]
            ELSE [j \in OneJob |-> status]
      BY <3>1 DEF OneJob
    <3>3. [q \in Pages |-> "job"][p] = "job" /\ [j \in OneJob |-> status]["job"] = status
          /\ [j \in OneJob |-> PageLimit]["job"] = PageLimit
      BY <1>1 DEF OneJob
    <3>4. p \in Pages /\ fresh \subseteq Client!Unfound([q \in Pages |-> "job"][p])
      BY <1>1, <2>2, <3>3 DEF Client!Unfound, Client!PagesOf
    <3> HIDE DEF fresh, p
    <3>5. QED
      BY <1>1, <2>1, <2>2, <2>3, <2>4, <3>2, <3>3, <3>4 DEF Client!Record
  <2>7. /\ p \in {q \in Pages : Seen(rows)[q] = "pending"} /\ Outcome(w) \in {"page", "error"}
        /\ fresh \in SUBSET Client!Unfound([q \in Pages |-> "job"][p])
    BY <1>1, <1>5, <2>2, <2>6 DEF Client!Record
  <2> HIDE DEF fresh, p
  <2>8. QED
    BY <2>6, <2>7 DEF Client!Next
<1>6. QED
  BY <1>2, <1>4, <1>5

LEMMA ClientStep ==
  ASSUME IInv, [FinishNext]_finishVars
  PROVE  [Client!Next]_(Client!jobView)
<1>1. ASSUME UNCHANGED <<status, rows>> PROVE UNCHANGED Client!jobView
  BY <1>1 DEF Client!jobView
<1>2. ASSUME NEW w \in Finishers, EndTask(w) \/ RollBack(w), ~Commit(w)
      PROVE  UNCHANGED <<status, rows>>
  BY <1>2 DEF EndTask, RollBack, LockJob, UpdateTask, InsertLink, Drain
<1>3. QED
  BY <1>1, <1>2, ClientStart, ClientAccept, ClientForget, ClientCancel, ClientRecord
     DEF FinishNext, finishVars

(* The finish transactions, in any interleaving, with rollbacks, lost      *)
(* leases and cancels, implement the job whose outcomes, links and end are *)
(* recorded in one step each (crawl.rs, finish_success, finish_failure).   *)
THEOREM FinishTheorem == FinishSpec => FinishesAsOne
<1>1. FinishInit => IInv
  BY FinishInvInit
<1>2. IInv /\ [FinishNext]_finishVars => IInv'
  BY FinishInvStep
<1>3. FinishInit => Client!Init
  BY ClientInit
<1>4. IInv /\ [FinishNext]_finishVars => [Client!Next]_(Client!jobView)
  BY ClientStep
<1>5. QED
  BY <1>1, <1>2, <1>3, <1>4, PTL DEF FinishSpec, FinishesAsOne, Client!Spec

(* No finish drops a link whose key is new while the job has room, even    *)
(* when several finish at once (crawl.rs, the loop of finish_success).     *)
THEOREM LinksTheorem == FinishSpec => LinksKept
<1> DEFINE A == \A w \in Finishers :
                  (/\ at[w] # "idle" /\ ~cancelled
                   /\ rows[page[w]] = "active" /\ rows'[page[w]] = "page")
                  => \/ \A l \in tx[w].links : Taken(rows', l)
                     \/ Cardinality(Found(rows')) = PageLimit
<1>1. FinishInit => IInv
  BY FinishInvInit
<1>2. IInv /\ [FinishNext]_finishVars => IInv'
  BY FinishInvStep
<1>3. IInv /\ [FinishNext]_finishVars => [A]_finishVars
  BY LinksStep
<1>4. QED
  BY <1>1, <1>2, <1>3, PTL DEF FinishSpec, LinksKept
=============================================================================
