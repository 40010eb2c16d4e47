------------------------------ MODULE MCWorkers ------------------------------
(***************************************************************************)
(* What two workers do with the jobs they take, in one run: agent jobs     *)
(* from their claim to their end, and tasks of a crawl job at the point    *)
(* where they end.  Agent jobs and crawl jobs share no row, so a behaviour *)
(* is about one kind.                                                      *)
(***************************************************************************)
EXTENDS WorkflowsProps, JobFinish

CONSTANTS a1, a2, w1, w2, p1, p2, p3, p4, slash, index

VARIABLE kind

BudgetTwo == [a \in Agents |-> 2]

(* Two spellings of one page: they share a dedup_key. *)
FinishKeys == [p \in Pages |-> IF p = index THEN slash ELSE p]

(* The first page fills all but one place of the job; whoever finishes the *)
(* next two at once wants that place for another page, or for another      *)
(* spelling of the same one.                                               *)
FinishLinks == [p \in Pages |->
    CASE p = p1 -> {p2, p3}
      [] p = p2 -> {p1, p4, slash}
      [] p = p3 -> {p2, index}
      [] OTHER -> {}]

MCInit == kind \in {"agent", "crawl"} /\ Init /\ FinishInit

MCNext ==
    /\ UNCHANGED kind
    /\ \/ kind = "agent" /\ Next /\ UNCHANGED finishVars
       \/ kind = "crawl" /\ FinishNext /\ UNCHANGED vars

(* What is asked of the crawl job is safety: it needs no fairness.         *)
MCSpec ==
    /\ MCInit /\ [][MCNext]_<<kind, vars, finishVars>>
    /\ kind = "agent" => Fairness
=============================================================================
