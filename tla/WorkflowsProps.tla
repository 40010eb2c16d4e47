--------------------------- MODULE WorkflowsProps ----------------------------
(***************************************************************************)
(* What agent jobs and monitors have to get right.                         *)
(***************************************************************************)
EXTENDS Workflows

(* The type of every variable, and what a worker holds at each point.      *)
AgentPoints == {"asking", "fetching", "stopping"}
CheckPoints == {"scraping", "recording", "posting"}

AgentRow == [status : {"absent", "queued", "running", "completed", "cancelled"},
             cancel : BOOLEAN, used : Nat, late : Nat]
MonitorRow == [status : {"absent", "present", "deleted"}, enabled : BOOLEAN,
               due : BOOLEAN, hook : BOOLEAN, wants : BOOLEAN]
CheckRow == [status : {"absent", "queued", "running", "completed", "failed", "deleted"},
             monitor : Monitors \cup {None}, base : Checks \cup {None},
             rank : Nat, since : Nat]
WorkRow == [item : Agents \cup Checks \cup {None}, left : Nat, sources : Nat,
            base : Checks \cup {None}, hook : BOOLEAN, ok : BOOLEAN]

WorkflowTypeOK ==
    /\ agents \in [Agents -> AgentRow]
    /\ monitors \in [Monitors -> MonitorRow]
    /\ checks \in [Checks -> CheckRow]
    /\ pc \in [Workers -> {"schedule", "agents", "checks", "down"} \cup AgentPoints \cup CheckPoints]
    /\ work \in [Workers -> WorkRow]
    /\ received \in SUBSET ({"completed", "failed"} \X Checks)
    /\ \A c \in Checks : checks[c].status \notin {"absent", "deleted"} => checks[c].monitor \in Monitors
    /\ \A w \in Workers :
          /\ pc[w] \in AgentPoints => work[w].item \in Agents
          /\ pc[w] \in CheckPoints =>
                work[w].item \in Checks /\ checks[work[w].item].status # "absent"
          /\ pc[w] = "fetching" => work[w].left > 0
          /\ pc[w] \notin AgentPoints \cup CheckPoints => work[w] = Nothing

(* No item is processed by two workers, an agent job that is processed is  *)
(* running, and a check that is processed is not open: a claim that loses  *)
(* the race for a row takes nothing, and nothing ends under its worker.    *)
OneWorkerPerItem ==
    \A w \in Workers :
        /\ work[w].item \in Agents => agents[work[w].item].status = "running"
        /\ work[w].item \in Checks => checks[work[w].item].status \notin {"absent", "queued"}
        /\ \A v \in Workers : work[w].item # None /\ work[v].item = work[w].item => v = w

(* A job never uses more sources than its budget.                          *)
BudgetHeld ==
    /\ \A a \in Agents : agents[a].used <= Budget[a]
    /\ \A w \in Workers : work[w].item \in Agents =>
          work[w].sources + work[w].left <= Budget[work[w].item]

(* After a cancellation at most one more source is fetched, the one under  *)
(* way; a job cancelled before it started fetches none and stays cancelled.*)
CancelIsPrompt ==
    \A a \in Agents :
        /\ agents[a].late <= 1
        /\ agents[a].late > 0 => agents[a].cancel
        /\ \A w \in Workers : work[w].item = a /\ agents[a].late = 1 => pc[w] # "fetching"

(* The record of an ended job is final, whoever is late.                   *)
AgentsEndOnce ==
    [][\A a \in Agents : agents[a].status \in {"completed", "cancelled"} =>
         /\ agents'[a].status = agents[a].status
         /\ agents'[a].used = agents[a].used]_vars

(* A check is compared with a predecessor that is not staler than the last *)
(* check that was completed when it was claimed, although checks of one    *)
(* monitor overlap and finish out of order; it is never compared with      *)
(* itself or a later one.                                                  *)
RankOf(c) == IF c = None THEN 0 ELSE checks[c].rank

BaselineIsRecent ==
    \A c \in Checks : checks[c].status = "completed" =>
        /\ checks[c].since <= RankOf(checks[c].base)
        /\ RankOf(checks[c].base) < checks[c].rank

(* An event says what the record of its check says, unless the monitor was *)
(* deleted with its records.                                               *)
EventsMatchRecords ==
    \A event \in received : checks[event[2]].status \in {event[1], "deleted"}

(* Once processes stop dying, a queued agent job ends, unless the process  *)
(* that claimed it is one of those that died: then it stays running, for   *)
(* there is no lease.                                                      *)
Orphaned(a) == agents[a].status = "running" /\ \A w \in Workers : work[w].item # a

DeathsEnd == <>[][\A w \in Workers : ~(pc[w] # "down" /\ pc'[w] = "down")]_vars

AgentsEnd ==
    DeathsEnd => \A a \in Agents :
        agents[a].status = "queued" ~>
            agents[a].status \in {"completed", "cancelled"} \/ Orphaned(a)
=============================================================================
