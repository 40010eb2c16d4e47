------------------------------ MODULE Workflows ------------------------------
(***************************************************************************)
(* Agent jobs and monitors of apps/api/src/workflows.rs.  The API inserts  *)
(* and changes rows of agent_jobs, monitors and monitor_checks; worker     *)
(* processes run process_once for ever: schedule a due monitor, else run   *)
(* an agent job, else run a check.                                         *)
(*                                                                         *)
(* An action is one SQL statement or one step of a worker between two.     *)
(* The three claims are atomic although they run under READ COMMITTED:     *)
(* all they ask is asked of the row they lock, and asked again after the   *)
(* lock.  Nothing here has a lease.                                        *)
(*                                                                         *)
(* Operators named Bad... are plausible mistakes in the operator that      *)
(* follows them; no action uses them.                                      *)
(***************************************************************************)
EXTENDS Naturals, FiniteSets

CONSTANTS
    Agents,    \* agent_jobs ids
    Budget,    \* agent_jobs.budget
    Monitors,  \* monitors ids
    Checks,    \* monitor_checks ids; a bound on the checks of a behaviour
    Workers,   \* worker processes
    None       \* no item, no check

ASSUME WorkflowAssumption ==
    /\ Budget \in [Agents -> Nat \ {0}]
    /\ IsFiniteSet(Checks)
    /\ Agents \cap Checks = {}
    /\ None \notin Agents \cup Checks \cup Monitors

VARIABLES
    agents,    \* agent_jobs; late is history: sources fetched after the cancel
    monitors,  \* monitors; wants: its webhook is still to be stored
    checks,    \* monitor_checks; rank orders them by finished_at, base is the
               \* check its diffs compare with; since is history: the highest
               \* rank when it was claimed
    pc,        \* where each worker is in process_once
    work,      \* what the worker holds in memory
    received   \* the monitor events that reached their receiver

vars == <<agents, monitors, checks, pc, work, received>>

Nothing == [item |-> None, left |-> 0, sources |-> 0, base |-> None,
            hook |-> FALSE, ok |-> FALSE]
NoAgent == [status |-> "absent", cancel |-> FALSE, used |-> 0, late |-> 0]
NoMonitor == [status |-> "absent", enabled |-> FALSE, due |-> FALSE,
              hook |-> FALSE, wants |-> FALSE]
NoCheck == [status |-> "absent", monitor |-> None, base |-> None, rank |-> 0, since |-> 0]
GoneMonitor == [NoMonitor EXCEPT !.status = "deleted"]
GoneCheck == [NoCheck EXCEPT !.status = "deleted"]

Init ==
    /\ agents = [a \in Agents |-> NoAgent]
    /\ monitors = [m \in Monitors |-> NoMonitor]
    /\ checks = [c \in Checks |-> NoCheck]
    /\ pc = [w \in Workers |-> "schedule"]
    /\ work = [w \in Workers |-> Nothing]
    /\ received = {}

-----------------------------------------------------------------------------
(* What the statements write. *)

Queued(row) == [row EXCEPT !.status = "queued"]
Claimed(row) == [row EXCEPT !.status = "running"]
CancelAsked(row) ==
    [row EXCEPT !.cancel = TRUE, !.status = IF @ = "queued" THEN "cancelled" ELSE @]
AgentEnded(row, status, sources) == [row EXCEPT !.status = status, !.used = sources]
Fetched(row) == [row EXCEPT !.late = IF row.cancel THEN @ + 1 ELSE @]

NewMonitor(enabled, wants) ==
    [status |-> "present", enabled |-> enabled, due |-> TRUE, hook |-> FALSE, wants |-> wants]
Updated(row, enabled, hook) == [row EXCEPT !.enabled = enabled, !.hook = @ \/ hook]
Hooked(row) == [row EXCEPT !.hook = TRUE, !.wants = FALSE]
Due(row, due) == [row EXCEPT !.due = due]

NewCheck(m) == [NoCheck EXCEPT !.status = "queued", !.monitor = m]
Started(row, last) == [row EXCEPT !.status = "running", !.since = last]
Compared(row, base, rank) ==
    [row EXCEPT !.status = "completed", !.base = base, !.rank = rank]
Failed(row) == [row EXCEPT !.status = "failed"]

AgentWork(a, urls) == [Nothing EXCEPT !.item = a, !.left = urls]
OneMore(row) == [row EXCEPT !.left = @ - 1, !.sources = @ + 1]
CheckWork(c, hook) == [Nothing EXCEPT !.item = c, !.hook = hook]
Against(row, base) == [row EXCEPT !.base = base, !.ok = TRUE]

-----------------------------------------------------------------------------
(* The API. *)

CreateAgent(a) ==
    /\ agents[a].status = "absent"
    /\ agents' = [agents EXCEPT ![a] = Queued(@)]
    /\ UNCHANGED <<monitors, checks, pc, work, received>>

BadCancelAgent(a) ==
    /\ agents[a].status # "absent"
    /\ agents' = [agents EXCEPT ![a] = [@ EXCEPT !.cancel = TRUE, !.status = "cancelled"]]
    /\ UNCHANGED <<monitors, checks, pc, work, received>>

BadCancelFlagOnly(a) ==
    /\ agents[a].status # "absent"
    /\ agents' = [agents EXCEPT ![a].cancel = TRUE]
    /\ UNCHANGED <<monitors, checks, pc, work, received>>

(* A queued agent is cancelled at once, a running one when it next asks.   *)
CancelAgent(a) ==
    /\ agents[a].status # "absent"
    /\ agents' = [agents EXCEPT ![a] = CancelAsked(@)]
    /\ UNCHANGED <<monitors, checks, pc, work, received>>

(* The row first, due at once, its webhook by a second statement.          *)
CreateMonitor(m, enabled, wants) ==
    /\ monitors[m].status = "absent"
    /\ monitors' = [monitors EXCEPT ![m] = NewMonitor(enabled, wants)]
    /\ UNCHANGED <<agents, checks, pc, work, received>>

StoreWebhook(m) ==
    /\ monitors[m].status = "present" /\ monitors[m].wants
    /\ monitors' = [monitors EXCEPT ![m] = Hooked(@)]
    /\ UNCHANGED <<agents, checks, pc, work, received>>

UpdateMonitor(m, enabled, hook) ==
    /\ monitors[m].status = "present"
    /\ monitors' = [monitors EXCEPT ![m] = Updated(@, enabled, hook)]
    /\ UNCHANGED <<agents, checks, pc, work, received>>

ChecksOf(m) == {c \in Checks : checks[c].monitor = m}

(* ON DELETE CASCADE takes the checks along. *)
DeleteMonitor(m) ==
    /\ monitors[m].status = "present"
    /\ monitors' = [monitors EXCEPT ![m] = GoneMonitor]
    /\ checks' = [c \in Checks |->
          IF c \in ChecksOf(m) THEN GoneCheck ELSE checks[c]]
    /\ UNCHANGED <<agents, pc, work, received>>

Enqueued(m, c) ==
    /\ checks[c].status = "absent"
    /\ checks' = [checks EXCEPT ![c] = NewCheck(m)]

RunMonitor(m, c) ==
    /\ monitors[m].status = "present"
    /\ Enqueued(m, c)
    /\ UNCHANGED <<agents, monitors, pc, work, received>>

(* next_run_at passes. *)
FallsDue(m) ==
    /\ monitors[m].status = "present" /\ ~monitors[m].due
    /\ monitors' = [monitors EXCEPT ![m] = Due(@, TRUE)]
    /\ UNCHANGED <<agents, checks, pc, work, received>>

-----------------------------------------------------------------------------
(* A worker.  Each claim may miss a row that another statement has locked. *)

Goto(w, label) == pc' = [pc EXCEPT ![w] = label]

BadFinishKeepsWork(w) == Goto(w, "schedule") /\ UNCHANGED work

Finish(w) == Goto(w, "schedule") /\ work' = [work EXCEPT ![w] = Nothing]

ScheduleDue(w, m, c) ==
    /\ pc[w] = "schedule"
    /\ monitors[m].status = "present" /\ monitors[m].enabled /\ monitors[m].due
    /\ monitors' = [monitors EXCEPT ![m] = Due(@, FALSE)]
    /\ Enqueued(m, c)
    /\ UNCHANGED <<agents, pc, work, received>>

NothingDue(w) ==
    /\ pc[w] = "schedule"
    /\ Goto(w, "agents")
    /\ UNCHANGED <<agents, monitors, checks, work, received>>

AgentOpen(a) == agents[a].status = "queued" /\ ~agents[a].cancel

(* The URLs are the seeds or the search results, at most budget of them.   *)
ClaimAgent(w, a, urls) ==
    /\ pc[w] = "agents" /\ AgentOpen(a)
    /\ urls <= Budget[a]
    /\ agents' = [agents EXCEPT ![a] = Claimed(@)]
    /\ work' = [work EXCEPT ![w] = AgentWork(a, urls)]
    /\ Goto(w, "asking")
    /\ UNCHANGED <<monitors, checks, received>>

NoAgentOpen(w) ==
    /\ pc[w] = "agents"
    /\ Goto(w, "checks")
    /\ UNCHANGED <<agents, monitors, checks, work, received>>

BadAskCancelled(w) ==
    /\ pc[w] = "asking" /\ work[w].left > 0
    /\ Goto(w, IF agents[work[w].item].cancel /\ work[w].sources = 0
               THEN "stopping" ELSE "fetching")
    /\ UNCHANGED <<agents, monitors, checks, work, received>>

AskCancelled(w) ==
    /\ pc[w] = "asking" /\ work[w].left > 0
    /\ Goto(w, IF agents[work[w].item].cancel THEN "stopping" ELSE "fetching")
    /\ UNCHANGED <<agents, monitors, checks, work, received>>

BadFetchUncounted(w) ==
    /\ pc[w] = "fetching"
    /\ work' = [work EXCEPT ![w].sources = @ + 1]
    /\ agents' = [agents EXCEPT ![work[w].item] = Fetched(@)]
    /\ Goto(w, "asking")
    /\ UNCHANGED <<monitors, checks, received>>

(* A page or an error: either is a source. *)
FetchSource(w) ==
    LET a == work[w].item IN
    /\ pc[w] = "fetching"
    /\ work' = [work EXCEPT ![w] = OneMore(@)]
    /\ agents' = [agents EXCEPT ![a] = Fetched(@)]
    /\ Goto(w, "asking")
    /\ UNCHANGED <<monitors, checks, received>>

StopAgent(w) ==
    LET a == work[w].item IN
    /\ pc[w] = "stopping"
    /\ agents' = [agents EXCEPT ![a] = AgentEnded(@, "cancelled", work[w].sources)]
    /\ Finish(w)
    /\ UNCHANGED <<monitors, checks, received>>

CompleteAgent(w) ==
    LET a == work[w].item IN
    /\ pc[w] = "asking" /\ work[w].left = 0
    /\ agents' = [agents EXCEPT ![a] = AgentEnded(@, "completed", work[w].sources)]
    /\ Finish(w)
    /\ UNCHANGED <<monitors, checks, received>>

-----------------------------------------------------------------------------
(* Monitor checks. *)

Completed(m) == {c \in ChecksOf(m) : checks[c].status = "completed"}
LastRank(m) == Cardinality(Completed(m))

BadPrevious(m) ==
    IF Completed(m) = {} THEN None
    ELSE CHOOSE c \in Completed(m) : \A d \in Completed(m) : checks[c].rank <= checks[d].rank

(* ORDER BY finished_at DESC LIMIT 1. *)
Previous(m) ==
    IF Completed(m) = {} THEN None
    ELSE CHOOSE c \in Completed(m) : \A d \in Completed(m) : checks[d].rank <= checks[c].rank

BadCheckOpen(c) == checks[c].status \in {"queued", "running"}

CheckOpen(c) == checks[c].status = "queued"

(* The url and the webhook are read with the claim. *)
ClaimCheck(w, c) ==
    LET m == checks[c].monitor IN
    /\ pc[w] = "checks" /\ CheckOpen(c)
    /\ checks' = [checks EXCEPT ![c] = Started(@, LastRank(m))]
    /\ work' = [work EXCEPT ![w] = CheckWork(c, monitors[m].hook)]
    /\ Goto(w, "scraping")
    /\ UNCHANGED <<agents, monitors, received>>

NoCheckOpen(w) ==
    /\ pc[w] = "checks"
    /\ Goto(w, "schedule")
    /\ UNCHANGED <<agents, monitors, checks, work, received>>

(* The page was scraped: which check to compare it with? *)
ReadPrevious(w) ==
    /\ pc[w] = "scraping"
    /\ work' = [work EXCEPT ![w] =
          Against(@, Previous(checks[work[w].item].monitor))]
    /\ Goto(w, "recording")
    /\ UNCHANGED <<agents, monitors, checks, received>>

AfterRecord(w) ==
    IF work[w].hook THEN Goto(w, "posting") /\ UNCHANGED work ELSE Finish(w)

(* The UPDATEs change nothing when the monitor was deleted meanwhile.      *)
RecordCompleted(w) ==
    LET c == work[w].item
        m == checks[c].monitor IN
    /\ pc[w] = "recording"
    /\ checks' = IF checks[c].status = "deleted" THEN checks
                 ELSE [checks EXCEPT ![c] = Compared(@, work[w].base, LastRank(m) + 1)]
    /\ AfterRecord(w)
    /\ UNCHANGED <<agents, monitors, received>>

RecordFailed(w) ==
    LET c == work[w].item IN
    /\ pc[w] = "scraping"
    /\ checks' = IF checks[c].status = "deleted" THEN checks
                 ELSE [checks EXCEPT ![c] = Failed(@)]
    /\ AfterRecord(w)
    /\ UNCHANGED <<agents, monitors, received>>

(* One delivery, which may fail; webhook_delivered_at is set after it and  *)
(* never read.                                                             *)
PostEvent(w) ==
    LET event == <<IF work[w].ok THEN "completed" ELSE "failed", work[w].item>> IN
    /\ pc[w] = "posting"
    /\ received' \in {received, received \cup {event}}
    /\ Finish(w)
    /\ UNCHANGED <<agents, monitors, checks>>

Crash(w) ==
    /\ pc[w] # "down"
    /\ Goto(w, "down")
    /\ work' = [work EXCEPT ![w] = Nothing]
    /\ UNCHANGED <<agents, monitors, checks, received>>

Restart(w) ==
    /\ pc[w] = "down"
    /\ Goto(w, "schedule")
    /\ UNCHANGED <<agents, monitors, checks, work, received>>

-----------------------------------------------------------------------------
Api ==
    \/ \E a \in Agents : CreateAgent(a) \/ CancelAgent(a)
    \/ \E m \in Monitors :
          \/ \E enabled, wants \in BOOLEAN : CreateMonitor(m, enabled, wants)
          \/ \E enabled, hook \in BOOLEAN : UpdateMonitor(m, enabled, hook)
          \/ StoreWebhook(m) \/ DeleteMonitor(m) \/ FallsDue(m)
          \/ \E c \in Checks : RunMonitor(m, c)

WorkerStep(w) ==
    \/ \E m \in Monitors, c \in Checks : ScheduleDue(w, m, c)
    \/ NothingDue(w)
    \/ \E a \in Agents : \E urls \in 0 .. Budget[a] : ClaimAgent(w, a, urls)
    \/ NoAgentOpen(w)
    \/ AskCancelled(w) \/ FetchSource(w) \/ StopAgent(w) \/ CompleteAgent(w)
    \/ \E c \in Checks : ClaimCheck(w, c)
    \/ NoCheckOpen(w)
    \/ ReadPrevious(w) \/ RecordCompleted(w) \/ RecordFailed(w) \/ PostEvent(w)

Next ==
    \/ Api
    \/ \E w \in Workers : WorkerStep(w) \/ Crash(w) \/ Restart(w)

Spec == Init /\ [][Next]_vars

(* Every await of a worker ends, a process that exits is started again,    *)
(* and a row that stays claimable is not locked for ever.                  *)
Fairness ==
    \A w \in Workers :
       /\ WF_vars(WorkerStep(w)) /\ WF_vars(Restart(w))
       /\ \A a \in Agents : SF_vars(\E urls \in 0 .. Budget[a] : ClaimAgent(w, a, urls))

FairSpec == Spec /\ Fairness
=============================================================================
