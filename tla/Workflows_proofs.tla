-------------------------- MODULE Workflows_proofs ---------------------------
(***************************************************************************)
(* Theorems about agent jobs and monitors, for any number of them and of   *)
(* workers.                                                                *)
(***************************************************************************)
EXTENDS WorkflowsProps, FiniteSetTheorems, TLAPS

(* The rows that stand for nothing yet. *)
LEMMA EmptyRows ==
  /\ Nothing \in WorkRow /\ NoAgent \in AgentRow /\ NoMonitor \in MonitorRow
  /\ NoCheck \in CheckRow
  BY DEF Nothing, WorkRow, NoAgent, AgentRow, NoMonitor, MonitorRow, NoCheck, CheckRow

(* A call of the API leaves the checks and the workers alone, deletes a    *)
(* monitor or asks for a check.                                            *)
LEMMA ApiSteps ==
  ASSUME Api
  PROVE  \/ UNCHANGED <<checks, received, pc, work>>
         \/ \E m \in Monitors : DeleteMonitor(m)
         \/ \E m \in Monitors, c \in Checks : RunMonitor(m, c)
<1>1. ASSUME NEW a \in Agents, CreateAgent(a) \/ CancelAgent(a)
      PROVE  UNCHANGED <<checks, received, pc, work>>
  BY <1>1 DEF CreateAgent, CancelAgent
<1>2. ASSUME NEW m \in Monitors, NEW enabled, NEW hook,
             CreateMonitor(m, enabled, hook) \/ UpdateMonitor(m, enabled, hook)
      PROVE  UNCHANGED <<checks, received, pc, work>>
  BY <1>2 DEF CreateMonitor, UpdateMonitor
<1>3. ASSUME NEW m \in Monitors, StoreWebhook(m) \/ FallsDue(m)
      PROVE  UNCHANGED <<checks, received, pc, work>>
  BY <1>3 DEF StoreWebhook, FallsDue
<1>4. QED
  BY <1>1, <1>2, <1>3, Zenon DEF Api

(* Ranks are numbers, and the previous check is a check. *)
LEMMA RankType ==
  ASSUME NEW m
  PROVE  LastRank(m) \in Nat /\ Previous(m) \in Checks \cup {None}
<1>1. Completed(m) \subseteq Checks
  BY DEF Completed, ChecksOf
<1>2. LastRank(m) \in Nat
  BY <1>1, WorkflowAssumption, FS_Subset, FS_CardinalityType DEF LastRank
<1>3. QED
  BY <1>1, <1>2 DEF Previous

(* What each write leaves in a row is a row, and what it changes in it.     *)
LEMMA AgentWrites ==
  ASSUME NEW r \in AgentRow
  PROVE  /\ Queued(r) \in AgentRow
         /\ Claimed(r) \in AgentRow
         /\ CancelAsked(r) \in AgentRow
         /\ \A n \in Nat : AgentEnded(r, "completed", n) \in AgentRow /\ AgentEnded(r, "cancelled", n) \in AgentRow
         /\ Fetched(r) \in AgentRow
<1>1. \A n \in Nat : AgentEnded(r, "completed", n) \in AgentRow /\ AgentEnded(r, "cancelled", n) \in AgentRow
  BY DEF AgentRow, AgentEnded
<1>2. Queued(r) \in AgentRow /\ Claimed(r) \in AgentRow /\ CancelAsked(r) \in AgentRow
  BY DEF AgentRow, Queued, Claimed, CancelAsked
<1>3. Fetched(r) \in AgentRow
  BY DEF AgentRow, Fetched
<1>4. QED
  BY <1>1, <1>2, <1>3

LEMMA MonitorWrites ==
  ASSUME NEW r \in MonitorRow
  PROVE  /\ \A e, h \in BOOLEAN : Updated(r, e, h) \in MonitorRow
         /\ Hooked(r) \in MonitorRow
         /\ Due(r, TRUE) \in MonitorRow /\ Due(r, FALSE) \in MonitorRow
         /\ r.hook \in BOOLEAN
  BY DEF MonitorRow, Updated, Hooked, Due

LEMMA FreshRows ==
  /\ \A e, h \in BOOLEAN : NewMonitor(e, h) \in MonitorRow
  /\ GoneMonitor \in MonitorRow
  /\ \A m \in Monitors : NewCheck(m) \in CheckRow /\ NewCheck(m).monitor = m
                          /\ NewCheck(m).status = "queued"
  /\ GoneCheck \in CheckRow /\ GoneCheck.status = "deleted"
  BY DEF MonitorRow, NoMonitor, GoneMonitor, NewMonitor, CheckRow, NoCheck, NewCheck, GoneCheck

LEMMA CheckWrites ==
  ASSUME NEW r \in CheckRow
  PROVE  /\ \A n \in Nat : Started(r, n) \in CheckRow /\ Started(r, n).monitor = r.monitor
                           /\ Started(r, n).status = "running"
         /\ \A n \in Nat, b \in Checks \cup {None} :
               Compared(r, b, n) \in CheckRow /\ Compared(r, b, n).monitor = r.monitor
               /\ Compared(r, b, n).status = "completed"
         /\ Failed(r) \in CheckRow /\ Failed(r).monitor = r.monitor
         /\ Failed(r).status = "failed"
  BY DEF CheckRow, Started, Compared, Failed

LEMMA FreshWork ==
  /\ \A a \in Agents, n \in Nat :
        AgentWork(a, n) \in WorkRow /\ AgentWork(a, n).item = a
        /\ AgentWork(a, n).left = n /\ AgentWork(a, n).sources = 0
  /\ \A c \in Checks, h \in BOOLEAN :
        CheckWork(c, h) \in WorkRow /\ CheckWork(c, h).item = c
  BY DEF AgentWork, CheckWork, Nothing, WorkRow

LEMMA WorkWrites ==
  ASSUME NEW r \in WorkRow
  PROVE  /\ r.left > 0 =>
               /\ OneMore(r) \in WorkRow /\ OneMore(r).item = r.item
               /\ OneMore(r).left = r.left - 1 /\ OneMore(r).sources = r.sources + 1
         /\ \A b \in Checks \cup {None} :
               Against(r, b) \in WorkRow /\ Against(r, b).item = r.item
         /\ r.sources \in Nat /\ r.left \in Nat /\ r.base \in Checks \cup {None}
<1>1. r.left \in Nat /\ r.sources \in Nat /\ r.base \in Checks \cup {None}
  BY DEF WorkRow
<1>2. ASSUME NEW l \in Nat, NEW n \in Nat
      PROVE  LET next == [r EXCEPT !.left = l, !.sources = n] IN
             next \in WorkRow /\ next.item = r.item /\ next.left = l /\ next.sources = n
  BY DEF WorkRow
<1>3. r.left > 0 =>
        /\ OneMore(r) \in WorkRow /\ OneMore(r).item = r.item
        /\ OneMore(r).left = r.left - 1 /\ OneMore(r).sources = r.sources + 1
  <2> SUFFICES ASSUME r.left > 0
               PROVE  /\ OneMore(r) \in WorkRow /\ OneMore(r).item = r.item
                      /\ OneMore(r).left = r.left - 1 /\ OneMore(r).sources = r.sources + 1
    OBVIOUS
  <2> DEFINE l == r.left - 1
             n == r.sources + 1
  <2>1. l \in Nat /\ n \in Nat
    BY <1>1
  <2>2. OneMore(r) = [r EXCEPT !.left = l, !.sources = n]
    BY Zenon DEF OneMore
  <2> HIDE DEF l, n
  <2>3. LET next == [r EXCEPT !.left = l, !.sources = n] IN
        next \in WorkRow /\ next.item = r.item /\ next.left = l /\ next.sources = n
    BY ONLY <1>2, <2>1, Zenon
  <2>4. /\ OneMore(r) \in WorkRow /\ OneMore(r).item = r.item
        /\ OneMore(r).left = l /\ OneMore(r).sources = n
    BY ONLY <2>2, <2>3, Zenon
  <2>5. QED
    BY <2>4 DEF l, n
<1>4. \A b \in Checks \cup {None} : Against(r, b) \in WorkRow /\ Against(r, b).item = r.item
  BY DEF Against, WorkRow
<1>5. QED
  BY <1>1, <1>3, <1>4

(* Type correctness, with what a worker holds at each point of its loop. *)
THEOREM WorkflowTypeCorrect == Spec => []WorkflowTypeOK
<1>1. Init => WorkflowTypeOK
  BY EmptyRows DEF Init, WorkflowTypeOK, AgentPoints, CheckPoints, NoCheck
<1>2. WorkflowTypeOK /\ [Next]_vars => WorkflowTypeOK'
  <2> SUFFICES ASSUME WorkflowTypeOK, [Next]_vars PROVE WorkflowTypeOK'
    OBVIOUS
  <2> USE DEF WorkflowTypeOK
  <2>1. ASSUME NEW a \in Agents, CreateAgent(a) \/ CancelAgent(a) PROVE WorkflowTypeOK'
    <3>1. agents' \in [Agents -> AgentRow]
      BY <2>1, AgentWrites DEF CreateAgent, CancelAgent
    <3>2. QED
      BY <2>1, <3>1 DEF CreateAgent, CancelAgent
  <2>2. ASSUME NEW m \in Monitors, NEW enabled \in BOOLEAN, NEW hook \in BOOLEAN,
               CreateMonitor(m, enabled, hook) \/ UpdateMonitor(m, enabled, hook)
        PROVE  WorkflowTypeOK'
    <3>1. ASSUME CreateMonitor(m, enabled, hook) PROVE monitors' \in [Monitors -> MonitorRow]
      BY <3>1, FreshRows DEF CreateMonitor
    <3>2. ASSUME UpdateMonitor(m, enabled, hook) PROVE monitors' \in [Monitors -> MonitorRow]
      <4>1. Updated(monitors[m], enabled, hook) \in MonitorRow
        BY MonitorWrites
      <4>2. QED
        BY <3>2, <4>1 DEF UpdateMonitor
    <3>3. QED
      BY <2>2, <3>1, <3>2 DEF CreateMonitor, UpdateMonitor
  <2>3. ASSUME NEW m \in Monitors, StoreWebhook(m) \/ FallsDue(m) PROVE WorkflowTypeOK'
    <3>1. monitors' \in [Monitors -> MonitorRow]
      <4>1. Hooked(monitors[m]) \in MonitorRow /\ Due(monitors[m], TRUE) \in MonitorRow
        BY MonitorWrites
      <4>2. QED
        BY <2>3, <4>1 DEF StoreWebhook, FallsDue
    <3>2. QED
      BY <2>3, <3>1 DEF StoreWebhook, FallsDue
  <2>4. ASSUME NEW m \in Monitors, DeleteMonitor(m) PROVE WorkflowTypeOK'
    <3>1. monitors' \in [Monitors -> MonitorRow]
      BY <2>4, FreshRows DEF DeleteMonitor
    <3>2. checks' \in [Checks -> CheckRow]
      BY <2>4, FreshRows DEF DeleteMonitor
    <3>3. QED
      BY <2>4, <3>1, <3>2, FreshRows DEF DeleteMonitor
  <2>5. ASSUME NEW m \in Monitors, NEW c \in Checks, RunMonitor(m, c) PROVE WorkflowTypeOK'
    <3>1. checks' \in [Checks -> CheckRow]
      BY <2>5, FreshRows DEF RunMonitor, Enqueued
    <3>2. QED
      BY <2>5, <3>1, FreshRows DEF RunMonitor, Enqueued
  <2>6. ASSUME NEW w \in Workers, NEW m \in Monitors, NEW c \in Checks, ScheduleDue(w, m, c)
        PROVE  WorkflowTypeOK'
    <3>1. checks' \in [Checks -> CheckRow]
      BY <2>6, FreshRows DEF ScheduleDue, Enqueued
    <3>2. monitors' \in [Monitors -> MonitorRow]
      BY <2>6, MonitorWrites DEF ScheduleDue
    <3>3. QED
      BY <2>6, <3>1, <3>2, FreshRows DEF ScheduleDue, Enqueued
  <2>7. ASSUME NEW w \in Workers, NothingDue(w) \/ NoAgentOpen(w) \/ NoCheckOpen(w) \/ Restart(w)
        PROVE  WorkflowTypeOK'
    BY <2>7 DEF NothingDue, NoAgentOpen, NoCheckOpen, Restart, Goto, AgentPoints, CheckPoints
  <2>8. ASSUME NEW w \in Workers, NEW a \in Agents, NEW urls \in 0 .. Budget[a],
               ClaimAgent(w, a, urls)
        PROVE  WorkflowTypeOK'
    <3>1. urls \in Nat
      BY WorkflowAssumption
    <3>2. agents' \in [Agents -> AgentRow]
      BY <2>8, AgentWrites DEF ClaimAgent
    <3>3. work' \in [Workers -> WorkRow] /\ work'[w].item = a
      BY <2>8, <3>1, FreshWork DEF ClaimAgent
    <3>4. QED
      BY <2>8, <3>2, <3>3 DEF ClaimAgent, Goto, AgentPoints, CheckPoints
  <2>9. ASSUME NEW w \in Workers, AskCancelled(w) PROVE WorkflowTypeOK'
    BY <2>9 DEF AskCancelled, Goto, AgentPoints, CheckPoints, WorkRow
  <2>10. ASSUME NEW w \in Workers, FetchSource(w) PROVE WorkflowTypeOK'
    <3>1. work[w].item \in Agents /\ work[w].left \in Nat \ {0} /\ work[w] \in WorkRow
      BY <2>10 DEF FetchSource, AgentPoints, WorkRow
    <3>2. agents' \in [Agents -> AgentRow]
      BY <2>10, <3>1, AgentWrites DEF FetchSource
    <3>3. work' \in [Workers -> WorkRow] /\ work'[w].item = work[w].item
      BY <2>10, <3>1, WorkWrites DEF FetchSource
    <3>4. QED
      BY <2>10, <3>1, <3>2, <3>3 DEF FetchSource, Goto, AgentPoints, CheckPoints
  <2>11. ASSUME NEW w \in Workers, StopAgent(w) \/ CompleteAgent(w) PROVE WorkflowTypeOK'
    <3>1. work[w].item \in Agents /\ work[w].sources \in Nat
      BY <2>11 DEF StopAgent, CompleteAgent, AgentPoints, WorkRow
    <3>2. agents' \in [Agents -> AgentRow]
      <4>1. /\ AgentEnded(agents[work[w].item], "completed", work[w].sources) \in AgentRow
            /\ AgentEnded(agents[work[w].item], "cancelled", work[w].sources) \in AgentRow
        BY <3>1, AgentWrites
      <4>2. QED
        BY <2>11, <3>1, <4>1 DEF StopAgent, CompleteAgent
    <3>3. QED
      BY <2>11, <3>2, EmptyRows
         DEF StopAgent, CompleteAgent, Finish, Goto, AgentPoints, CheckPoints
  <2>12. ASSUME NEW w \in Workers, NEW c \in Checks, ClaimCheck(w, c) PROVE WorkflowTypeOK'
    <3>1. checks[c].monitor \in Monitors
      BY <2>12 DEF ClaimCheck, CheckOpen
    <3>2. checks' \in [Checks -> CheckRow]
      BY <2>12, <3>1, RankType, CheckWrites DEF ClaimCheck
    <3>3. monitors[checks[c].monitor].hook \in BOOLEAN
      BY <3>1, MonitorWrites
    <3>4. work' \in [Workers -> WorkRow] /\ work'[w].item = c
      BY <2>12, <3>3, FreshWork DEF ClaimCheck
    <3>5. checks'[c].monitor = checks[c].monitor /\ checks'[c].status = "running"
      <4> DEFINE last == LastRank(checks[c].monitor)
      <4>1. last \in Nat /\ checks[c] \in CheckRow
        BY RankType
      <4>2. /\ Started(checks[c], last).monitor = checks[c].monitor
            /\ Started(checks[c], last).status = "running"
        <5> HIDE DEF last
        <5> QED
          BY <4>1, CheckWrites
      <4>3. QED
        BY <2>12, <4>2 DEF ClaimCheck
    <3>6. QED
      BY <2>12, <3>1, <3>2, <3>4, <3>5 DEF ClaimCheck, Goto, AgentPoints, CheckPoints
  <2>13. ASSUME NEW w \in Workers, ReadPrevious(w) PROVE WorkflowTypeOK'
    <3>1. work[w].item \in Checks /\ work[w] \in WorkRow
      BY <2>13 DEF ReadPrevious, CheckPoints, WorkRow
    <3>2. work' \in [Workers -> WorkRow] /\ work'[w].item = work[w].item
      BY <2>13, <3>1, RankType, WorkWrites DEF ReadPrevious
    <3>3. QED
      BY <2>13, <3>1, <3>2 DEF ReadPrevious, Goto, AgentPoints, CheckPoints
  <2>14. ASSUME NEW w \in Workers, RecordCompleted(w) \/ RecordFailed(w) PROVE WorkflowTypeOK'
    <3> DEFINE c == work[w].item
    <3>1. c \in Checks /\ work[w].base \in Checks \cup {None}
      BY <2>14 DEF RecordCompleted, RecordFailed, CheckPoints, WorkRow
    <3>2. /\ checks' \in [Checks -> CheckRow]
          /\ \A d \in Checks : checks'[d].status \notin {"absent", "deleted"} =>
                checks'[d].monitor \in Monitors
      <4>1. CASE checks[c].status = "deleted"
        BY <2>14, <4>1 DEF RecordCompleted, RecordFailed
      <4>2. ASSUME checks[c].status # "deleted", RecordCompleted(w)
            PROVE  checks' \in [Checks -> CheckRow]
        <5>1. LastRank(checks[c].monitor) + 1 \in Nat
          BY RankType
        <5>2. QED
          BY <4>2, <3>1, <5>1, CheckWrites DEF RecordCompleted
      <4>3. ASSUME checks[c].status # "deleted", RecordFailed(w)
            PROVE  checks' \in [Checks -> CheckRow]
        BY <4>3, <3>1, CheckWrites DEF RecordFailed
      <4>4. \A d \in Checks : checks'[d].status \notin {"absent", "deleted"} =>
               checks[d].status \notin {"absent", "deleted"} /\ checks'[d].monitor = checks[d].monitor
        <5> DEFINE rank == LastRank(checks[c].monitor) + 1
        <5>1. rank \in Nat /\ checks[c] \in CheckRow /\ work[w].base \in Checks \cup {None}
          BY RankType, <3>1
        <5>2. Compared(checks[c], work[w].base, rank).monitor = checks[c].monitor
          <6> HIDE DEF rank
          <6> QED
            BY ONLY <5>1, CheckWrites
        <5>3. Failed(checks[c]).monitor = checks[c].monitor
          BY <3>1, CheckWrites
        <5>4. checks[c].status # "absent"
          BY <2>14 DEF RecordCompleted, RecordFailed, CheckPoints
        <5>5. ASSUME NEW d \in Checks, d # c PROVE checks'[d] = checks[d]
          BY <2>14, <5>5 DEF RecordCompleted, RecordFailed
        <5>6. CASE checks[c].status = "deleted"
          BY <2>14, <5>6 DEF RecordCompleted, RecordFailed
        <5>7. CASE checks[c].status # "deleted"
          BY <2>14, <3>1, <5>2, <5>3, <5>4, <5>5, <5>7 DEF RecordCompleted, RecordFailed
        <5>8. QED
          BY <5>6, <5>7
      <4>5. QED
        BY <2>14, <4>1, <4>2, <4>3, <4>4
    <3>3. /\ pc' \in [Workers -> {"schedule", "agents", "checks", "down"} \cup AgentPoints \cup CheckPoints]
          /\ work' \in [Workers -> WorkRow]
          /\ \A v \in Workers : v # w => pc'[v] = pc[v] /\ work'[v] = work[v]
          /\ \/ pc'[w] = "posting" /\ work'[w] = work[w]
             \/ pc'[w] = "schedule" /\ work'[w] = Nothing
      BY <2>14, EmptyRows DEF RecordCompleted, RecordFailed, AfterRecord, Finish, Goto, CheckPoints
    <3>4. \A d \in Checks : checks[d].status # "absent" => checks'[d].status # "absent"
      <4>1. /\ Compared(checks[c], work[w].base, LastRank(checks[c].monitor) + 1).status = "completed"
            /\ Failed(checks[c]).status = "failed"
        BY RankType, <3>1, CheckWrites
      <4>2. QED
        BY <2>14, <3>1, <4>1 DEF RecordCompleted, RecordFailed
    <3>5. UNCHANGED <<agents, monitors, received>>
      BY <2>14 DEF RecordCompleted, RecordFailed
    <3>6. checks[c].status # "absent"
      BY <2>14 DEF RecordCompleted, RecordFailed, CheckPoints
    <3>7. QED
      BY <3>1, <3>2, <3>3, <3>4, <3>5, <3>6 DEF AgentPoints, CheckPoints
  <2>15. ASSUME NEW w \in Workers, PostEvent(w) PROVE WorkflowTypeOK'
    <3>1. work[w].item \in Checks
      BY <2>15 DEF PostEvent, CheckPoints
    <3>2. QED
      BY <2>15, <3>1, EmptyRows DEF PostEvent, Finish, Goto, AgentPoints, CheckPoints
  <2>16. ASSUME NEW w \in Workers, Crash(w) PROVE WorkflowTypeOK'
    BY <2>16, EmptyRows DEF Crash, Goto, AgentPoints, CheckPoints
  <2>17. CASE UNCHANGED vars
    BY <2>17 DEF vars
  <2> HIDE DEF WorkflowTypeOK
  <2>18. QED
    BY <2>1, <2>2, <2>3, <2>4, <2>5, <2>6, <2>7, <2>8, <2>9, <2>10, <2>11, <2>12,
       <2>13, <2>14, <2>15, <2>16, <2>17 DEF Next, Api, WorkerStep
<1>3. QED
  BY <1>1, <1>2, PTL DEF Spec
-----------------------------------------------------------------------------
(* How the writes change the fields of an agent job.                        *)
LEMMA AgentFields ==
  ASSUME NEW r \in AgentRow
  PROVE  /\ Queued(r).late = r.late /\ Queued(r).cancel = r.cancel /\ Queued(r).used = r.used
         /\ Claimed(r).late = r.late /\ Claimed(r).cancel = r.cancel /\ Claimed(r).used = r.used
         /\ Claimed(r).status = "running"
         /\ CancelAsked(r).late = r.late /\ CancelAsked(r).cancel /\ CancelAsked(r).used = r.used
         /\ r.status # "queued" => CancelAsked(r).status = r.status
         /\ \A s, n : /\ AgentEnded(r, s, n).late = r.late /\ AgentEnded(r, s, n).cancel = r.cancel
                      /\ AgentEnded(r, s, n).used = n
         /\ Fetched(r).cancel = r.cancel /\ Fetched(r).used = r.used
         /\ Fetched(r).status = r.status
         /\ Fetched(r).late = IF r.cancel THEN r.late + 1 ELSE r.late
<1>1. \A s, n : /\ AgentEnded(r, s, n).late = r.late /\ AgentEnded(r, s, n).cancel = r.cancel
               /\ AgentEnded(r, s, n).used = n
  BY DEF AgentRow, AgentEnded
<1>2. /\ Queued(r).late = r.late /\ Queued(r).cancel = r.cancel /\ Queued(r).used = r.used
      /\ Claimed(r).late = r.late /\ Claimed(r).cancel = r.cancel /\ Claimed(r).used = r.used
      /\ Claimed(r).status = "running"
  BY DEF AgentRow, Queued, Claimed
<1>3. /\ CancelAsked(r).late = r.late /\ CancelAsked(r).cancel /\ CancelAsked(r).used = r.used
      /\ r.status # "queued" => CancelAsked(r).status = r.status
  BY DEF AgentRow, CancelAsked
<1>4. /\ Fetched(r).cancel = r.cancel /\ Fetched(r).used = r.used
      /\ Fetched(r).status = r.status
      /\ Fetched(r).late = IF r.cancel THEN r.late + 1 ELSE r.late
  BY DEF AgentRow, Fetched
<1>5. QED
  BY <1>1, <1>2, <1>3, <1>4

(* What the promises about agent jobs rest on together: a job that is held *)
(* is running, so no claim takes it and nothing else ends it.              *)
AgentInvariant == OneWorkerPerItem /\ BudgetHeld /\ CancelIsPrompt

(* A step that takes no item, moves no worker into a fetch, and neither    *)
(* ends a held item nor fetches anything, keeps the invariant.             *)
LEMMA QuietStep ==
  ASSUME WorkflowTypeOK, AgentInvariant,
         \A v \in Workers : \/ work'[v] = work[v] /\ (pc'[v] = "fetching" => pc[v] = "fetching")
                            \/ work'[v] = Nothing,
         \A a \in Agents : /\ agents[a].status = "running" => agents'[a].status = "running"
                           /\ agents'[a].used = agents[a].used
                           /\ agents'[a].late = agents[a].late
                           /\ agents[a].cancel => agents'[a].cancel,
         \A c \in Checks : checks[c].status \notin {"absent", "queued"} =>
                              checks'[c].status \notin {"absent", "queued"}
  PROVE  AgentInvariant'
<1>1. Nothing.item = None /\ None \notin Agents \cup Checks
  BY WorkflowAssumption DEF Nothing
<1>2. OneWorkerPerItem'
  BY <1>1 DEF AgentInvariant, OneWorkerPerItem, WorkflowTypeOK
<1>3. BudgetHeld'
  BY <1>1 DEF AgentInvariant, BudgetHeld, WorkflowTypeOK
<1>4. CancelIsPrompt'
  BY <1>1 DEF AgentInvariant, CancelIsPrompt, WorkflowTypeOK
<1>5. QED
  BY <1>2, <1>3, <1>4 DEF AgentInvariant

LEMMA AgentStep == WorkflowTypeOK /\ AgentInvariant /\ [Next]_vars => AgentInvariant'
<1> SUFFICES ASSUME WorkflowTypeOK, AgentInvariant, [Next]_vars PROVE AgentInvariant'
  OBVIOUS
<1>1. /\ \A a \in Agents : agents[a] \in AgentRow
      /\ \A c \in Checks : checks[c] \in CheckRow
      /\ \A w \in Workers : work[w] \in WorkRow
      /\ agents \in [Agents -> AgentRow] /\ checks \in [Checks -> CheckRow]
      /\ work \in [Workers -> WorkRow] /\ DOMAIN pc = Workers
  BY DEF WorkflowTypeOK
<1>2. ASSUME NEW a \in Agents, CreateAgent(a) \/ CancelAgent(a) PROVE AgentInvariant'
  <2>1. \A b \in Agents : /\ agents[b].status = "running" => agents'[b].status = "running"
                          /\ agents'[b].used = agents[b].used
                          /\ agents'[b].late = agents[b].late
                          /\ agents[b].cancel => agents'[b].cancel
    BY <1>1, <1>2, AgentFields DEF CreateAgent, CancelAgent
  <2>2. QED
    BY <1>2, <2>1, QuietStep DEF CreateAgent, CancelAgent
<1>3. ASSUME NEW m \in Monitors, NEW enabled \in BOOLEAN, NEW hook \in BOOLEAN,
             \/ CreateMonitor(m, enabled, hook) \/ UpdateMonitor(m, enabled, hook)
             \/ StoreWebhook(m) \/ FallsDue(m)
      PROVE  AgentInvariant'
  BY <1>3, QuietStep DEF CreateMonitor, UpdateMonitor, StoreWebhook, FallsDue
<1>4. ASSUME NEW m \in Monitors, DeleteMonitor(m) PROVE AgentInvariant'
  BY <1>1, <1>4, FreshRows, QuietStep DEF DeleteMonitor
<1>5. ASSUME NEW m \in Monitors, NEW c \in Checks,
             RunMonitor(m, c) \/ \E w \in Workers : ScheduleDue(w, m, c)
      PROVE  AgentInvariant'
  <2>1. UNCHANGED <<agents, pc, work>> /\ Enqueued(m, c)
    BY <1>5 DEF RunMonitor, ScheduleDue
  <2>2. QED
    BY <1>1, <2>1, QuietStep DEF Enqueued
<1>6. ASSUME NEW w \in Workers,
             \/ NothingDue(w) \/ NoAgentOpen(w) \/ NoCheckOpen(w) \/ Restart(w)
             \/ Crash(w) \/ PostEvent(w)
      PROVE  AgentInvariant'
  BY <1>1, <1>6, QuietStep
     DEF NothingDue, NoAgentOpen, NoCheckOpen, Restart, Crash, PostEvent, Finish, Goto
<1>7. ASSUME NEW w \in Workers, RecordCompleted(w) \/ RecordFailed(w) PROVE AgentInvariant'
  <2> DEFINE c == work[w].item
             rank == LastRank(checks[c].monitor) + 1
  <2>1. c \in Checks /\ rank \in Nat /\ work[w].base \in Checks \cup {None}
    BY <1>1, <1>7, RankType, WorkWrites DEF RecordCompleted, RecordFailed, WorkflowTypeOK, CheckPoints
  <2>2. \A d \in Checks : checks[d].status \notin {"absent", "queued"} =>
                            checks'[d].status \notin {"absent", "queued"}
    <3>1. /\ Compared(checks[c], work[w].base, rank).status = "completed"
          /\ Failed(checks[c]).status = "failed"
      <4> HIDE DEF rank
      <4> QED BY <1>1, <2>1, CheckWrites
    <3>2. QED
      BY <1>1, <1>7, <2>1, <3>1 DEF RecordCompleted, RecordFailed
  <2>3. \A v \in Workers : \/ work'[v] = work[v] /\ (pc'[v] = "fetching" => pc[v] = "fetching")
                           \/ work'[v] = Nothing
    BY <1>1, <1>7 DEF RecordCompleted, RecordFailed, AfterRecord, Finish, Goto
  <2>4. agents' = agents
    BY <1>7 DEF RecordCompleted, RecordFailed
  <2>5. QED
    BY <2>2, <2>3, <2>4, QuietStep
<1>8. ASSUME NEW w \in Workers, ReadPrevious(w) PROVE AgentInvariant'
  <2> DEFINE c == work[w].item
             next == Against(work[w], Previous(checks[c].monitor))
  <2>1. c \in Checks /\ c \notin Agents
    BY <1>8, WorkflowAssumption DEF ReadPrevious, WorkflowTypeOK, CheckPoints
  <2>2. next.item = c
    BY <1>1, RankType, WorkWrites
  <2>3. work' = [work EXCEPT ![w] = next] /\ pc' = [pc EXCEPT ![w] = "recording"]
        /\ UNCHANGED <<agents, checks>>
    BY <1>8 DEF ReadPrevious, Goto
  <2> HIDE DEF next
  <2>4. work' \in [Workers -> {work[v] : v \in Workers} \cup {next}]
        /\ work'[w] = next /\ \A v \in Workers : v # w => work'[v] = work[v] /\ pc'[v] = pc[v]
        /\ pc'[w] = "recording"
    BY <1>1, <2>3
  <2>5. QED
    BY <1>1, <2>1, <2>2, <2>3, <2>4
       DEF AgentInvariant, OneWorkerPerItem, BudgetHeld, CancelIsPrompt
<1>9. ASSUME NEW w \in Workers, NEW c \in Checks, ClaimCheck(w, c) PROVE AgentInvariant'
  <2> DEFINE m == checks[c].monitor
             last == LastRank(m)
             next == CheckWork(c, monitors[m].hook)
  <2>1. c \notin Agents /\ checks[c].status = "queued" /\ m \in Monitors /\ last \in Nat
    BY <1>9, WorkflowAssumption, RankType DEF ClaimCheck, CheckOpen, WorkflowTypeOK
  <2>2. next.item = c /\ Started(checks[c], last).status = "running"
    <3>1. monitors[m].hook \in BOOLEAN
      BY <2>1, MonitorWrites DEF WorkflowTypeOK
    <3>2. next.item = c
      BY <3>1, FreshWork
    <3>3. Started(checks[c], last).status = "running"
      <4> HIDE DEF last
      <4> QED BY <1>1, <2>1, CheckWrites
    <3>4. QED
      BY <3>2, <3>3
  <2>3. /\ work' = [work EXCEPT ![w] = next] /\ pc' = [pc EXCEPT ![w] = "scraping"]
        /\ checks' = [checks EXCEPT ![c] = Started(checks[c], last)] /\ agents' = agents
    BY <1>9 DEF ClaimCheck, Goto
  <2> HIDE DEF next, last
  <2>4. /\ work'[w] = next /\ pc'[w] = "scraping"
        /\ \A v \in Workers : v # w => work'[v] = work[v] /\ pc'[v] = pc[v]
        /\ checks'[c].status = "running" /\ \A d \in Checks : d # c => checks'[d] = checks[d]
    BY <1>1, <2>2, <2>3
  <2>5. \A v \in Workers : work[v].item # c
    BY <2>1 DEF AgentInvariant, OneWorkerPerItem
  <2>6. QED
    BY <2>1, <2>2, <2>3, <2>4, <2>5
       DEF AgentInvariant, OneWorkerPerItem, BudgetHeld, CancelIsPrompt
<1>10. ASSUME NEW w \in Workers, NEW a \in Agents, NEW urls \in 0 .. Budget[a],
             ClaimAgent(w, a, urls)
      PROVE  AgentInvariant'
  <2> DEFINE next == AgentWork(a, urls)
  <2>1. a \notin Checks /\ agents[a].status = "queued" /\ ~agents[a].cancel /\ urls \in Nat
        /\ urls <= Budget[a]
    BY <1>10, WorkflowAssumption DEF ClaimAgent, AgentOpen
  <2>2. next.item = a /\ next.left = urls /\ next.sources = 0
    BY <2>1, FreshWork
  <2>3. /\ work' = [work EXCEPT ![w] = next] /\ pc' = [pc EXCEPT ![w] = "asking"]
        /\ agents' = [agents EXCEPT ![a] = Claimed(agents[a])] /\ checks' = checks
    BY <1>10 DEF ClaimAgent, Goto
  <2> HIDE DEF next
  <2>4. /\ work'[w] = next /\ pc'[w] = "asking"
        /\ \A v \in Workers : v # w => work'[v] = work[v] /\ pc'[v] = pc[v]
        /\ agents'[a] = Claimed(agents[a]) /\ \A b \in Agents : b # a => agents'[b] = agents[b]
    BY <1>1, <2>3
  <2>5. /\ agents'[a].status = "running" /\ agents'[a].used = agents[a].used
        /\ agents'[a].late = agents[a].late /\ agents'[a].cancel = agents[a].cancel
    BY <1>1, <2>4, AgentFields
  <2>6. \A v \in Workers : work[v].item # a
    BY <2>1 DEF AgentInvariant, OneWorkerPerItem
  <2>7. OneWorkerPerItem'
    BY <2>1, <2>2, <2>3, <2>4, <2>5, <2>6 DEF AgentInvariant, OneWorkerPerItem
  <2>8. BudgetHeld'
    <3>1. next.sources + next.left <= Budget[a]
      BY <2>1, <2>2
    <3>2. QED
      BY <2>2, <2>4, <2>5, <2>6, <3>1 DEF AgentInvariant, BudgetHeld
  <2>9. CancelIsPrompt'
    BY <2>2, <2>4, <2>5, <2>6 DEF AgentInvariant, CancelIsPrompt
  <2>10. QED
    BY <2>7, <2>8, <2>9 DEF AgentInvariant
<1>11. ASSUME NEW w \in Workers, AskCancelled(w) PROVE AgentInvariant'
  <2>1. work[w].item \in Agents /\ UNCHANGED <<agents, checks, work>>
    BY <1>11 DEF AskCancelled, WorkflowTypeOK, AgentPoints
  <2>2. \A v \in Workers : v # w => pc'[v] = pc[v]
    BY <1>1, <1>11 DEF AskCancelled, Goto
  <2>3. pc'[w] = "fetching" => ~agents[work[w].item].cancel
    BY <1>1, <1>11 DEF AskCancelled, Goto
  <2>4. agents[work[w].item].late \in Nat
    BY <1>1, <2>1 DEF AgentRow
  <2>5. CancelIsPrompt'
    BY <2>1, <2>2, <2>3, <2>4 DEF AgentInvariant, CancelIsPrompt
  <2>6. QED
    BY <2>1, <2>5 DEF AgentInvariant, OneWorkerPerItem, BudgetHeld
<1>12. ASSUME NEW w \in Workers, FetchSource(w) PROVE AgentInvariant'
  <2> DEFINE a == work[w].item
             next == OneMore(work[w])
  <2>1. a \in Agents /\ work[w].left > 0 /\ pc[w] = "fetching"
    BY <1>12 DEF FetchSource, WorkflowTypeOK, AgentPoints
  <2>2. next.item = a /\ next.left = work[w].left - 1 /\ next.sources = work[w].sources + 1
    BY <1>1, <2>1, WorkWrites
  <2>3. /\ work' = [work EXCEPT ![w] = next] /\ pc' = [pc EXCEPT ![w] = "asking"]
        /\ agents' = [agents EXCEPT ![a] = Fetched(agents[a])] /\ checks' = checks
    BY <1>12 DEF FetchSource, Goto
  <2> HIDE DEF next
  <2>4. /\ work'[w] = next /\ pc'[w] = "asking"
        /\ \A v \in Workers : v # w => work'[v] = work[v] /\ pc'[v] = pc[v]
        /\ agents'[a] = Fetched(agents[a]) /\ \A b \in Agents : b # a => agents'[b] = agents[b]
    BY <1>1, <2>1, <2>3
  <2>5. /\ agents'[a].status = agents[a].status /\ agents'[a].used = agents[a].used
        /\ agents'[a].cancel = agents[a].cancel
        /\ agents'[a].late = IF agents[a].cancel THEN agents[a].late + 1 ELSE agents[a].late
    BY <1>1, <2>1, <2>4, AgentFields
  <2>6. \A v \in Workers : work[v].item = a => v = w
    BY <2>1, WorkflowAssumption DEF AgentInvariant, OneWorkerPerItem
  <2>7. OneWorkerPerItem'
    BY <2>1, <2>2, <2>3, <2>4, <2>5 DEF AgentInvariant, OneWorkerPerItem
  <2>8. BudgetHeld'
    <3>1. work[w].sources \in Nat /\ work[w].left \in Nat /\ Budget[a] \in Nat
      BY <1>1, <2>1, WorkWrites, WorkflowAssumption
    <3>2. work[w].sources + work[w].left <= Budget[a]
      BY <2>1 DEF AgentInvariant, BudgetHeld
    <3>3. next.sources + next.left <= Budget[a]
      BY <2>2, <3>1, <3>2
    <3>4. QED
      BY <2>1, <2>2, <2>4, <2>5, <3>3 DEF AgentInvariant, BudgetHeld
  <2>9. CancelIsPrompt'
    <3>1. agents[a].late \in Nat /\ agents[a].late <= 1 /\ agents[a].late # 1
      BY <1>1, <2>1 DEF AgentInvariant, CancelIsPrompt, AgentRow
    <3>2. agents'[a].late <= 1 /\ (agents'[a].late > 0 => agents'[a].cancel)
      BY <2>5, <3>1
    <3>3. QED
      BY <2>2, <2>4, <2>6, <3>2 DEF AgentInvariant, CancelIsPrompt
  <2>10. QED
    BY <2>7, <2>8, <2>9 DEF AgentInvariant
<1>13. ASSUME NEW w \in Workers, StopAgent(w) \/ CompleteAgent(w) PROVE AgentInvariant'
  <2> DEFINE a == work[w].item
             n == work[w].sources
  <2>1. a \in Agents /\ a # None /\ a \notin Checks
    BY <1>13, WorkflowAssumption DEF StopAgent, CompleteAgent, WorkflowTypeOK, AgentPoints
  <2>2. PICK s : agents' = [agents EXCEPT ![a] = AgentEnded(agents[a], s, n)]
    BY <1>13 DEF StopAgent, CompleteAgent
  <2>3. /\ work' = [work EXCEPT ![w] = Nothing] /\ pc' = [pc EXCEPT ![w] = "schedule"]
        /\ checks' = checks
    BY <1>13 DEF StopAgent, CompleteAgent, Finish, Goto
  <2>4. /\ work'[w] = Nothing /\ pc'[w] = "schedule"
        /\ \A v \in Workers : v # w => work'[v] = work[v] /\ pc'[v] = pc[v]
        /\ agents'[a] = AgentEnded(agents[a], s, n) /\ \A b \in Agents : b # a => agents'[b] = agents[b]
    BY <1>1, <2>1, <2>2, <2>3
  <2>5. /\ agents'[a].used = n
        /\ agents'[a].late = agents[a].late /\ agents'[a].cancel = agents[a].cancel
    BY <1>1, <2>1, <2>4, AgentFields
  <2>6. \A v \in Workers : work[v].item = a => v = w
    BY <2>1 DEF AgentInvariant, OneWorkerPerItem
  <2>7. Nothing.item = None /\ None \notin Agents \cup Checks
    BY WorkflowAssumption DEF Nothing
  <2>8. OneWorkerPerItem'
    BY <2>3, <2>4, <2>6, <2>7 DEF AgentInvariant, OneWorkerPerItem
  <2>9. BudgetHeld'
    <3>1. n \in Nat /\ work[w].left \in Nat /\ Budget[a] \in Nat
      BY <1>1, <2>1, WorkWrites, WorkflowAssumption
    <3>2. n + work[w].left <= Budget[a]
      BY <2>1 DEF AgentInvariant, BudgetHeld
    <3>3. n <= Budget[a]
      BY <3>1, <3>2
    <3>4. QED
      BY <2>4, <2>5, <2>6, <2>7, <3>3 DEF AgentInvariant, BudgetHeld
  <2>10. CancelIsPrompt'
    BY <2>4, <2>5, <2>6, <2>7 DEF AgentInvariant, CancelIsPrompt
  <2>11. QED
    BY <2>8, <2>9, <2>10 DEF AgentInvariant
<1>14. CASE UNCHANGED vars
  BY <1>14 DEF vars, AgentInvariant, OneWorkerPerItem, BudgetHeld, CancelIsPrompt
<1>15. QED
  BY <1>2, <1>3, <1>4, <1>5, <1>6, <1>7, <1>8, <1>9, <1>10, <1>11, <1>12, <1>13, <1>14
     DEF Next, Api, WorkerStep

(* Nothing is held when the system starts. *)
LEMMA AgentStart == Init => AgentInvariant
<1>1. Nothing.item = None /\ None \notin Agents \cup Checks /\ NoAgent.used = 0 /\ NoAgent.late = 0
  BY WorkflowAssumption DEF Nothing, NoAgent
<1>2. \A a \in Agents : 0 <= Budget[a]
  BY WorkflowAssumption
<1>3. QED
  BY <1>1, <1>2 DEF Init, AgentInvariant, OneWorkerPerItem, BudgetHeld, CancelIsPrompt

(* The three promises hold together, in every behaviour.                   *)
THEOREM AgentInvariantTheorem == Spec => []AgentInvariant
  BY AgentStart, AgentStep, WorkflowTypeCorrect, PTL DEF Spec

(* No agent job and no check is processed by two workers, however many     *)
(* look for the oldest open one at once.                                   *)
THEOREM OneWorkerTheorem == Spec => []OneWorkerPerItem
<1>1. AgentInvariant => OneWorkerPerItem
  BY DEF AgentInvariant
<1>2. QED
  BY <1>1, AgentInvariantTheorem, PTL

(* An agent job reports at most the sources its budget allows.             *)
THEOREM BudgetTheorem == Spec => []BudgetHeld
<1>1. AgentInvariant => BudgetHeld
  BY DEF AgentInvariant
<1>2. QED
  BY <1>1, AgentInvariantTheorem, PTL

(* At most one source is fetched after a cancellation was asked for.       *)
THEOREM CancelPromptTheorem == Spec => []CancelIsPrompt
<1>1. AgentInvariant => CancelIsPrompt
  BY DEF AgentInvariant
<1>2. QED
  BY <1>1, AgentInvariantTheorem, PTL

(* The record of an ended job is final: only the worker that holds a job   *)
(* ends it, and it holds none that has ended.                              *)
THEOREM AgentsEndOnceTheorem == Spec => AgentsEndOnce
<1> DEFINE Final == \A a \in Agents : agents[a].status \in {"completed", "cancelled"} =>
                       /\ agents'[a].status = agents[a].status
                       /\ agents'[a].used = agents[a].used
<1>1. WorkflowTypeOK /\ AgentInvariant /\ [Next]_vars => [Final]_vars
  <2> SUFFICES ASSUME WorkflowTypeOK, AgentInvariant, [Next]_vars,
                      NEW a \in Agents, agents[a].status \in {"completed", "cancelled"}
               PROVE  /\ agents'[a].status = agents[a].status
                      /\ agents'[a].used = agents[a].used
    BY DEF vars
  <2>1. /\ \A b \in Agents : agents[b] \in AgentRow
        /\ agents \in [Agents -> AgentRow]
    BY DEF WorkflowTypeOK
  <2>2. ASSUME NEW b \in Agents, CreateAgent(b) \/ CancelAgent(b)
        PROVE  agents'[a].status = agents[a].status /\ agents'[a].used = agents[a].used
    BY <2>1, <2>2, AgentFields DEF CreateAgent, CancelAgent
  <2>3. ASSUME NEW w \in Workers, NEW b \in Agents, NEW urls \in 0 .. Budget[b],
               ClaimAgent(w, b, urls)
        PROVE  agents'[a] = agents[a]
    BY <2>1, <2>3 DEF ClaimAgent, AgentOpen
  <2>4. ASSUME NEW w \in Workers, FetchSource(w)
        PROVE  agents'[a].status = agents[a].status /\ agents'[a].used = agents[a].used
    BY <2>1, <2>4, AgentFields DEF FetchSource, WorkflowTypeOK, AgentPoints
  <2>5. ASSUME NEW w \in Workers, StopAgent(w) \/ CompleteAgent(w)
        PROVE  agents'[a] = agents[a]
    <3>1. work[w].item \in Agents
      BY <2>5 DEF StopAgent, CompleteAgent, WorkflowTypeOK, AgentPoints
    <3>2. work[w].item # a
      BY <3>1 DEF AgentInvariant, OneWorkerPerItem
    <3>3. QED
      BY <2>1, <2>5, <3>1, <3>2 DEF StopAgent, CompleteAgent
  <2>6. QED
    <3>1. CASE agents' = agents
      BY <3>1
    <3>2. CASE agents' # agents
      BY <3>2, <2>2, <2>3, <2>4, <2>5
         DEF Next, Api, WorkerStep, vars, CreateMonitor, UpdateMonitor, StoreWebhook, FallsDue,
             DeleteMonitor, RunMonitor, ScheduleDue, NothingDue, NoAgentOpen, AskCancelled,
             ClaimCheck, NoCheckOpen, ReadPrevious, RecordCompleted, RecordFailed, PostEvent,
             Crash, Restart
    <3>3. QED
      BY <3>1, <3>2
<1>2. QED
  BY <1>1, AgentStart, AgentStep, WorkflowTypeCorrect, PTL DEF Spec, AgentsEndOnce
-----------------------------------------------------------------------------
(* What a worker is about to post is what the record says, or the record   *)
(* is gone; until it is recorded a check that is processed is running.     *)
EventsInv ==
    /\ EventsMatchRecords
    /\ \A w \in Workers :
          LET c == work[w].item IN
          /\ pc[w] = "scraping" => ~work[w].ok /\ checks[c].status \in {"running", "deleted"}
          /\ pc[w] = "recording" => work[w].ok /\ checks[c].status \in {"running", "deleted"}
          /\ pc[w] = "posting" =>
                checks[c].status \in {IF work[w].ok THEN "completed" ELSE "failed", "deleted"}

(* Steps that take, record and post no check, whatever they delete. *)
LEMMA NoCheckMoves ==
  ASSUME WorkflowTypeOK, EventsInv, UNCHANGED received,
         \A v \in Workers : \/ work'[v] = work[v] /\ pc'[v] = pc[v]
                            \/ pc'[v] \notin CheckPoints,
         \A c \in Checks : checks[c].status # "absent" =>
                              checks'[c].status \in {checks[c].status, "deleted"}
  PROVE  EventsInv'
<1>1. EventsMatchRecords'
  BY DEF WorkflowTypeOK, EventsInv, EventsMatchRecords
<1>2. QED
  BY <1>1 DEF WorkflowTypeOK, EventsInv, CheckPoints

(* What one worker does with its check leaves the checks of the others.    *)
LEMMA OneCheckMoves ==
  ASSUME WorkflowTypeOK, OneWorkerPerItem, EventsInv,
         NEW w \in Workers, NEW c \in Checks, work[w].item \in {c, None},
         checks[c].status \in {"queued", "running", "deleted"},
         work[w].item = None => checks[c].status = "queued",
         \A v \in Workers : v # w => work'[v] = work[v] /\ pc'[v] = pc[v],
         \A d \in Checks : d # c => checks'[d] = checks[d],
         checks[c].status = "deleted" => checks'[c].status = "deleted",
         UNCHANGED received
  PROVE  /\ EventsMatchRecords'
         /\ \A v \in Workers : v # w => 
               LET d == work[v].item IN
               /\ pc'[v] = "scraping" => ~work'[v].ok /\ checks'[d].status \in {"running", "deleted"}
               /\ pc'[v] = "recording" => work'[v].ok /\ checks'[d].status \in {"running", "deleted"}
               /\ pc'[v] = "posting" =>
                     checks'[d].status \in {IF work'[v].ok THEN "completed" ELSE "failed", "deleted"}
<1>1. EventsMatchRecords'
  BY DEF WorkflowTypeOK, EventsInv, EventsMatchRecords
<1>2. ASSUME NEW v \in Workers, v # w, pc[v] \in CheckPoints
      PROVE  work[v].item \in Checks \ {c}
  <2>1. work[v].item \in Checks /\ None \notin Checks
    BY <1>2, WorkflowAssumption DEF WorkflowTypeOK
  <2>2. ASSUME work[v].item = c PROVE FALSE
    BY <1>2, <2>1, <2>2 DEF OneWorkerPerItem
  <2>3. QED
    BY <2>1, <2>2
<1>3. QED
  BY <1>1, <1>2 DEF EventsInv, CheckPoints

(* Every step keeps it. *)
LEMMA EventsStep ==
  WorkflowTypeOK /\ OneWorkerPerItem /\ EventsInv /\ [Next]_vars => EventsInv'
<1> SUFFICES ASSUME WorkflowTypeOK, OneWorkerPerItem, EventsInv, [Next]_vars PROVE EventsInv'
  OBVIOUS
<1>1. /\ \A w \in Workers : work[w] \in WorkRow
      /\ \A c \in Checks : checks[c] \in CheckRow
      /\ checks \in [Checks -> CheckRow] /\ work \in [Workers -> WorkRow] /\ DOMAIN pc = Workers
  BY DEF WorkflowTypeOK
<1>2. ASSUME NEW m \in Monitors, DeleteMonitor(m) PROVE EventsInv'
  BY <1>1, <1>2, FreshRows, NoCheckMoves DEF DeleteMonitor
<1>3. ASSUME NEW m \in Monitors, NEW c \in Checks,
             RunMonitor(m, c) \/ \E w \in Workers : ScheduleDue(w, m, c)
      PROVE  EventsInv'
  <2>1. UNCHANGED <<pc, work, received>> /\ Enqueued(m, c)
    BY <1>3 DEF RunMonitor, ScheduleDue
  <2>2. QED
    BY <1>1, <2>1, NoCheckMoves DEF Enqueued
<1>4. ASSUME UNCHANGED <<checks, received>>,
             \A v \in Workers : \/ work'[v] = work[v] /\ pc'[v] = pc[v]
                                \/ pc'[v] \notin CheckPoints
      PROVE  EventsInv'
  BY <1>4, NoCheckMoves
<1>5. ASSUME NEW w \in Workers,
             \/ NothingDue(w) \/ NoAgentOpen(w) \/ NoCheckOpen(w) \/ Restart(w) \/ Crash(w)
             \/ AskCancelled(w) \/ FetchSource(w) \/ StopAgent(w) \/ CompleteAgent(w)
             \/ \E a \in Agents, urls \in Nat : ClaimAgent(w, a, urls)
      PROVE  EventsInv'
  BY <1>1, <1>4, <1>5 DEF NothingDue, NoAgentOpen, NoCheckOpen, Restart, Crash, AskCancelled,
         FetchSource, StopAgent, CompleteAgent, ClaimAgent, Goto, Finish, CheckPoints
<1>6. ASSUME NEW w \in Workers, NEW c \in Checks, ClaimCheck(w, c) PROVE EventsInv'
  <2>1. /\ pc[w] = "checks" /\ checks[c].status = "queued" /\ UNCHANGED received
        /\ pc'[w] = "scraping" /\ work'[w].item = c /\ ~work'[w].ok
    BY <1>1, <1>6 DEF ClaimCheck, CheckOpen, Goto, CheckWork, Nothing
  <2>2. work[w].item = None
    BY <2>1 DEF WorkflowTypeOK, AgentPoints, CheckPoints, Nothing
  <2>3. \A v \in Workers : v # w => work'[v] = work[v] /\ pc'[v] = pc[v]
    BY <1>1, <1>6 DEF ClaimCheck, Goto
  <2>4. checks'[c].status = "running" /\ \A d \in Checks : d # c => checks'[d] = checks[d]
    <3> DEFINE last == LastRank(checks[c].monitor)
    <3>1. last \in Nat
      BY RankType
    <3>2. Started(checks[c], last).status = "running"
      <4> HIDE DEF last
      <4> QED
        BY <1>1, <3>1, CheckWrites
    <3>3. checks' = [checks EXCEPT ![c] = Started(checks[c], last)]
      BY <1>6 DEF ClaimCheck
    <3> HIDE DEF last
    <3>4. QED
      BY <1>1, <3>2, <3>3
  <2>5. QED
    BY <2>1, <2>2, <2>3, <2>4, OneCheckMoves DEF EventsInv
<1>7. ASSUME NEW w \in Workers, ReadPrevious(w) PROVE EventsInv'
  <2>1. /\ pc[w] = "scraping" /\ UNCHANGED <<checks, received>>
        /\ pc'[w] = "recording" /\ \A v \in Workers : v # w => work'[v] = work[v] /\ pc'[v] = pc[v]
    BY <1>1, <1>7 DEF ReadPrevious, Goto
  <2>2. work'[w].item = work[w].item /\ work'[w].ok
    <3> DEFINE base == Previous(checks[work[w].item].monitor)
    <3>1. work'[w] = Against(work[w], base)
      BY <1>1, <1>7 DEF ReadPrevious
    <3> HIDE DEF base
    <3>2. QED
      BY <1>1, <3>1 DEF Against, WorkRow
  <2>3. QED
    BY <2>1, <2>2 DEF EventsInv, EventsMatchRecords
<1>8. ASSUME NEW w \in Workers, RecordCompleted(w) \/ RecordFailed(w) PROVE EventsInv'
  <2> DEFINE c == work[w].item
             how == IF work[w].ok THEN "completed" ELSE "failed"
  <2>1. /\ c \in Checks /\ checks[c].status \in {"running", "deleted"} /\ UNCHANGED received
        /\ \A v \in Workers : v # w => work'[v] = work[v] /\ pc'[v] = pc[v]
        /\ \/ pc'[w] = "posting" /\ work'[w] = work[w]
           \/ pc'[w] = "schedule"
    BY <1>1, <1>8 DEF RecordCompleted, RecordFailed, AfterRecord, Finish, Goto, EventsInv,
       WorkflowTypeOK, CheckPoints
  <2>2. (RecordCompleted(w) => how = "completed") /\ (RecordFailed(w) => how = "failed")
    BY DEF RecordCompleted, RecordFailed, EventsInv
  <2>3. \A d \in Checks : d # c => checks'[d] = checks[d]
    BY <1>1, <1>8 DEF RecordCompleted, RecordFailed
  <2>4. /\ checks[c].status = "deleted" => checks'[c].status = "deleted"
        /\ checks'[c].status \in {how, "deleted"}
    <3>1. CASE checks[c].status = "deleted"
      BY <1>8, <3>1 DEF RecordCompleted, RecordFailed
    <3>2. CASE checks[c].status # "deleted" /\ RecordFailed(w)
      <4>1. checks' = [checks EXCEPT ![c] = Failed(checks[c])]
        BY <3>2 DEF RecordFailed
      <4>2. Failed(checks[c]).status = "failed"
        BY <1>1, <2>1, CheckWrites
      <4>3. QED
        BY <1>1, <2>1, <2>2, <3>2, <4>1, <4>2
    <3>3. CASE checks[c].status # "deleted" /\ RecordCompleted(w)
      <4> DEFINE rank == LastRank(checks[c].monitor) + 1
                 row == Compared(checks[c], work[w].base, rank)
      <4>1. checks' = [checks EXCEPT ![c] = row]
        BY <3>3 DEF RecordCompleted
      <4>2. rank \in Nat /\ work[w].base \in Checks \cup {None}
        BY <1>1, RankType, WorkWrites
      <4>3. row.status = "completed"
        <5> HIDE DEF rank
        <5> QED
          BY <1>1, <2>1, <4>2, CheckWrites
      <4> HIDE DEF row
      <4>4. QED
        BY <1>1, <2>1, <2>2, <3>3, <4>1, <4>3
    <3>4. QED
      BY <1>8, <3>1, <3>2, <3>3
  <2>5. work[w].item \in {c, None} /\ work[w].item # None
    BY <2>1, WorkflowAssumption
  <2> HIDE DEF c
  <2>6. /\ EventsMatchRecords'
        /\ \A v \in Workers : v # w =>
               LET d == work[v].item IN
               /\ pc'[v] = "scraping" => ~work'[v].ok /\ checks'[d].status \in {"running", "deleted"}
               /\ pc'[v] = "recording" => work'[v].ok /\ checks'[d].status \in {"running", "deleted"}
               /\ pc'[v] = "posting" =>
                     checks'[d].status \in {IF work'[v].ok THEN "completed" ELSE "failed", "deleted"}
    BY <2>1, <2>3, <2>4, <2>5, OneCheckMoves
  <2>7. QED
    BY <2>1, <2>4, <2>6 DEF EventsInv, c
<1>9. ASSUME NEW w \in Workers, PostEvent(w) PROVE EventsInv'
  <2>1. /\ pc[w] = "posting" /\ UNCHANGED checks
        /\ pc'[w] = "schedule" /\ \A v \in Workers : v # w => work'[v] = work[v] /\ pc'[v] = pc[v]
        /\ received' \subseteq received \cup {<<IF work[w].ok THEN "completed" ELSE "failed", work[w].item>>}
    BY <1>1, <1>9 DEF PostEvent, Finish, Goto
  <2>2. QED
    BY <2>1 DEF EventsInv, EventsMatchRecords
<1>10. ASSUME UNCHANGED <<checks, received, pc, work>> PROVE EventsInv'
  BY <1>4, <1>10
<1>11. ASSUME NEW w \in Workers, WorkerStep(w) PROVE EventsInv'
  <2>1. \A a \in Agents : 0 .. Budget[a] \subseteq Nat
    BY WorkflowAssumption
  <2>2. QED
    BY <1>3, <1>5, <1>6, <1>7, <1>8, <1>9, <1>11, <2>1 DEF WorkerStep
<1>12. CASE Api
  BY <1>2, <1>3, <1>10, <1>12, ApiSteps
<1>13. CASE \E w \in Workers : WorkerStep(w) \/ Crash(w) \/ Restart(w)
  BY <1>5, <1>11, <1>13
<1>14. QED
  BY <1>10, <1>12, <1>13 DEF Next, vars

(* A monitor event says what the record of its check says, or the monitor  *)
(* was deleted with its records.                                           *)
THEOREM EventsTheorem == Spec => []EventsMatchRecords
<1>1. Init => EventsInv
  BY DEF Init, EventsInv, EventsMatchRecords
<1>2. EventsInv => EventsMatchRecords
  BY DEF EventsInv
<1>3. QED
  BY <1>1, <1>2, EventsStep, OneWorkerTheorem, WorkflowTypeCorrect, PTL DEF Spec
-----------------------------------------------------------------------------
(* The completed checks of a monitor have the ranks 1, 2, ... up to their  *)
(* number, in the order they were recorded.                                *)
RanksInv ==
    \A m \in Monitors :
        /\ \A c \in Completed(m) : 1 <= checks[c].rank /\ checks[c].rank <= LastRank(m)
        /\ Completed(m) # {} => \E c \in Completed(m) : checks[c].rank = LastRank(m)

GoodBase(c, base) ==
    /\ base # None => base \in Completed(checks[c].monitor)
    /\ checks[c].since <= RankOf(base)

(* A base is completed, belongs to the same monitor, and was the last one  *)
(* when the check was claimed or a later one.                              *)
BaselineInv ==
    /\ RanksInv
    /\ \A c \in Checks :
          /\ checks[c].status = "completed" =>
                GoodBase(c, checks[c].base) /\ RankOf(checks[c].base) < checks[c].rank
          /\ checks[c].status = "running" => checks[c].since <= LastRank(checks[c].monitor)
    /\ \A w \in Workers :
          pc[w] = "recording" /\ checks[work[w].item].status = "running" =>
             GoodBase(work[w].item, work[w].base)

(* The previous check is the one of the highest rank, if there is any. *)
LEMMA PreviousRank ==
  ASSUME WorkflowTypeOK, RanksInv, NEW m \in Monitors
  PROVE  /\ Previous(m) # None => Previous(m) \in Completed(m)
         /\ RankOf(Previous(m)) = LastRank(m)
<1>1. CASE Completed(m) = {}
  BY <1>1, FS_EmptySet DEF Previous, RankOf, LastRank
<1>2. CASE Completed(m) # {}
  <2>1. PICK c \in Completed(m) : checks[c].rank = LastRank(m)
    BY <1>2 DEF RanksInv
  <2>2. \A d \in Completed(m) : checks[d].rank <= checks[c].rank
    BY <2>1 DEF RanksInv
  <2>3. Previous(m) \in Completed(m) /\ checks[c].rank <= checks[Previous(m)].rank
    BY <1>2, <2>1, <2>2 DEF Previous
  <2>4. /\ Previous(m) # None
        /\ checks[Previous(m)].rank <= LastRank(m)
        /\ checks[Previous(m)].rank \in Nat /\ checks[c].rank \in Nat
    BY <2>3, WorkflowAssumption DEF RanksInv, Completed, ChecksOf, WorkflowTypeOK, CheckRow
  <2>5. QED
    BY <2>1, <2>3, <2>4 DEF RankOf
<1>3. QED
  BY <1>1, <1>2

(* A step that completes no check and moves no worker to its record keeps  *)
(* the ranks; a monitor that is deleted takes all of its checks along.     *)
LEMMA RanksStay ==
  ASSUME WorkflowTypeOK, BaselineInv, NEW gone \in SUBSET Monitors,
         \A c \in Checks :
            \/ checks'[c] = checks[c] /\ checks[c].monitor \notin gone
            \/ checks[c].status # "completed" /\ checks'[c].status \in {"queued", "failed"}
            \/ /\ checks[c].status = "queued" /\ checks'[c].status = "running"
               /\ checks[c].monitor \notin gone
               /\ checks'[c].monitor = checks[c].monitor
               /\ checks'[c].since = LastRank(checks[c].monitor)
            \/ checks[c].monitor \in gone /\ checks'[c].status = "deleted",
         \A c \in Checks : checks[c].status = "completed" /\ checks[c].monitor \notin gone =>
                              checks'[c] = checks[c],
         \A v \in Workers : \/ work'[v] = work[v] /\ pc'[v] = pc[v]
                            \/ pc'[v] # "recording",
         \A v \in Workers : pc[v] = "recording" => checks[work[v].item].status # "queued"
  PROVE  BaselineInv'
<1>1. \A m \in Monitors : /\ Completed(m) \subseteq Checks
                          /\ Completed(m)' = IF m \in gone THEN {} ELSE Completed(m)
  BY DEF Completed, ChecksOf
<1>2. \A m \in Monitors \ gone : LastRank(m)' = LastRank(m)
  BY <1>1 DEF LastRank
<1>3. \A c \in Checks, m \in Monitors \ gone : c \in Completed(m) => checks'[c] = checks[c]
  BY DEF Completed, ChecksOf
<1>4. RanksInv'
  BY <1>1, <1>2, <1>3 DEF BaselineInv, RanksInv
<1>5. ASSUME NEW c \in Checks, NEW base, checks'[c] = checks[c],
             checks[c].monitor \in Monitors \ gone, GoodBase(c, base)
      PROVE  GoodBase(c, base)' /\ RankOf(base)' = RankOf(base)
  <2>1. base # None => base \in Checks /\ checks'[base] = checks[base]
    BY <1>1, <1>3, <1>5 DEF GoodBase
  <2>2. QED
    BY <1>1, <1>5, <2>1 DEF GoodBase, RankOf
<1>6. \A c \in Checks : checks[c].status \notin {"absent", "deleted"} => checks[c].monitor \in Monitors
  BY DEF WorkflowTypeOK
<1>7. ASSUME NEW c \in Checks, checks'[c].status = "completed"
      PROVE  (GoodBase(c, checks[c].base) /\ RankOf(checks[c].base) < checks[c].rank)'
  <2>1. checks'[c] = checks[c] /\ checks[c].monitor \in Monitors \ gone
    BY <1>6, <1>7
  <2>2. GoodBase(c, checks[c].base) /\ RankOf(checks[c].base) < checks[c].rank
    BY <1>7, <2>1 DEF BaselineInv
  <2>3. PICK base : base = checks[c].base
    OBVIOUS
  <2>4. GoodBase(c, base)' /\ RankOf(base)' < checks'[c].rank
    BY <1>5, <2>1, <2>2, <2>3
  <2>5. QED
    BY <2>1, <2>3, <2>4
<1>8. ASSUME NEW c \in Checks, checks'[c].status = "running"
      PROVE  (checks[c].since <= LastRank(checks[c].monitor))'
  <2>1. PICK m \in Monitors \ gone : checks'[c].monitor = m /\ checks[c].monitor = m
    BY <1>6, <1>8
  <2>2. checks'[c].since <= LastRank(m)
    BY <1>8, <2>1, RankType DEF BaselineInv
  <2>3. LastRank(m)' = LastRank(m)
    BY <1>2
  <2>4. QED
    BY <2>1, <2>2, <2>3
<1>9. ASSUME NEW w \in Workers, (pc[w] = "recording" /\ checks[work[w].item].status = "running")'
      PROVE  GoodBase(work[w].item, work[w].base)'
  <2>1. PICK c, base : c = work[w].item /\ base = work[w].base
    OBVIOUS
  <2>2. /\ work'[w] = work[w] /\ pc[w] = "recording"
        /\ c \in Checks /\ checks[c].status # "queued"
    BY <1>9, <2>1 DEF WorkflowTypeOK, CheckPoints
  <2>3. checks'[c] = checks[c] /\ checks[c].monitor \in Monitors \ gone
    BY <1>6, <1>9, <2>1, <2>2
  <2>4. GoodBase(c, base)'
    BY <1>5, <1>9, <2>1, <2>2, <2>3 DEF BaselineInv
  <2>5. QED
    BY <2>1, <2>2, <2>4
<1>10. QED
  BY <1>4, <1>7, <1>8, <1>9 DEF BaselineInv

(* One more completed check: it gets the next rank, and what any other     *)
(* check is compared with stays what it was.                               *)
LEMMA RanksGrow ==
  ASSUME WorkflowTypeOK, BaselineInv,
         NEW c \in Checks, checks[c].status = "running",
         NEW base, GoodBase(c, base),
         checks'[c] = Compared(checks[c], base, LastRank(checks[c].monitor) + 1),
         \A d \in Checks : d # c => checks'[d] = checks[d],
         \A v \in Workers : \/ work'[v] = work[v] /\ pc'[v] = pc[v] /\ work[v].item # c
                            \/ pc'[v] # "recording"
  PROVE  BaselineInv'
<1> DEFINE m == checks[c].monitor
           n == LastRank(m)
<1>1. m \in Monitors /\ n \in Nat /\ checks[c] \in CheckRow
  BY RankType DEF WorkflowTypeOK
<1>2. /\ checks'[c].status = "completed" /\ checks'[c].monitor = m /\ checks'[c].rank = n + 1
      /\ checks'[c].base = base /\ checks'[c].since = checks[c].since
  <2> HIDE DEF m, n
  <2>1. checks'[c] = Compared(checks[c], base, n + 1) /\ checks[c].monitor = m
    BY DEF m, n
  <2>2. QED
    BY <1>1, <2>1 DEF Compared, CheckRow
<1>3. \A k \in Monitors : Completed(k)' = IF k = m THEN Completed(m) \cup {c} ELSE Completed(k)
  <2> HIDE DEF n
  <2>1. QED
    BY <1>2 DEF Completed, ChecksOf
<1>4. /\ c \notin Completed(m)
      /\ \A k \in Monitors : IsFiniteSet(Completed(k))
  BY WorkflowAssumption, FS_Subset DEF Completed, ChecksOf
<1>5. \A k \in Monitors : LastRank(k)' = IF k = m THEN n + 1 ELSE LastRank(k)
  BY <1>3, <1>4, FS_AddElement DEF LastRank
<1>6. \A k \in Monitors : LastRank(k) \in Nat /\ LastRank(k) <= LastRank(k)'
  BY <1>1, <1>5, RankType
<1>7. \A k \in Monitors : \A d \in Completed(k) : d # c /\ d \in Checks /\ checks'[d] = checks[d]
  BY DEF Completed, ChecksOf
<1> HIDE DEF m, n
<1>8. RanksInv'
  <2>1. ASSUME NEW k \in Monitors, NEW d \in Checks, d \in Completed(k)'
        PROVE  1 <= checks'[d].rank /\ checks'[d].rank <= LastRank(k)'
    <3>1. CASE d = c /\ k = m
      BY <1>1, <1>2, <1>5, <3>1
    <3>2. CASE d \in Completed(k)
      <4>1. /\ checks'[d].rank = checks[d].rank /\ checks[d].rank \in Nat
            /\ 1 <= checks[d].rank /\ checks[d].rank <= LastRank(k)
        BY <1>7, <3>2 DEF BaselineInv, RanksInv, WorkflowTypeOK, CheckRow
      <4>2. LastRank(k) \in Nat /\ LastRank(k)' \in Nat /\ LastRank(k) <= LastRank(k)'
        BY <1>1, <1>5, <1>6
      <4>3. QED
        BY <4>1, <4>2
    <3>3. QED
      BY <1>3, <2>1, <3>1, <3>2
  <2>2. ASSUME NEW k \in Monitors, Completed(k)' # {}
        PROVE  \E d \in Completed(k)' : checks'[d].rank = LastRank(k)'
    <3>1. CASE k = m
      BY <1>2, <1>3, <1>5, <3>1
    <3>2. CASE k # m
      <4>1. PICK d \in Completed(k) : checks[d].rank = LastRank(k)
        BY <1>3, <2>2, <3>2 DEF BaselineInv, RanksInv
      <4>2. QED
        BY <1>3, <1>5, <1>7, <3>2, <4>1
    <3>3. QED
      BY <3>1, <3>2
  <2>3. \A k \in Monitors : Completed(k)' \subseteq Checks
    BY DEF Completed, ChecksOf
  <2>4. QED
    BY <2>1, <2>2, <2>3 DEF RanksInv
<1>9. ASSUME NEW d \in Checks, NEW b, checks[d].monitor \in Monitors,
             checks'[d].monitor = checks[d].monitor, checks'[d].since = checks[d].since,
             GoodBase(d, b)
      PROVE  GoodBase(d, b)' /\ RankOf(b)' = RankOf(b)
  <2>1. b # None => b \in Completed(checks[d].monitor) /\ checks'[b] = checks[b]
    BY <1>3, <1>7, <1>9 DEF GoodBase
  <2>2. b # None => b \in (Completed(checks[d].monitor))'
    <3>1. PICK k \in Monitors : k = checks[d].monitor /\ k = checks'[d].monitor
      BY <1>9
    <3>2. b # None => b \in Completed(k)'
      BY <1>3, <1>7, <1>9, <3>1 DEF GoodBase
    <3>3. QED
      BY <3>1, <3>2
  <2>3. QED
    BY <1>9, <2>1, <2>2 DEF GoodBase, RankOf
<1>10. \A d \in Checks : checks[d].status \notin {"absent", "deleted"} => checks[d].monitor \in Monitors
  BY DEF WorkflowTypeOK
<1>11. ASSUME NEW d \in Checks, checks'[d].status = "completed"
       PROVE  (GoodBase(d, checks[d].base) /\ RankOf(checks[d].base) < checks[d].rank)'
  <2>1. CASE d = c
    <3>1. GoodBase(c, base)' /\ RankOf(base)' = RankOf(base)
      BY <1>1, <1>2, <1>9 DEF m
    <3>2. RankOf(base) \in Nat /\ RankOf(base) <= n
      BY <1>1, <1>7 DEF GoodBase, RankOf, BaselineInv, RanksInv, WorkflowTypeOK, CheckRow, m, n
    <3>3. PICK b : b = base /\ b = checks'[c].base
      BY <1>2
    <3>4. QED
      BY <1>1, <1>2, <2>1, <3>1, <3>2, <3>3
  <2>2. CASE d # c
    <3>1. PICK b : b = checks[d].base
      OBVIOUS
    <3>2. /\ checks'[d] = checks[d] /\ checks[d].monitor \in Monitors
          /\ GoodBase(d, b) /\ RankOf(b) < checks[d].rank
      BY <1>10, <1>11, <2>2, <3>1 DEF BaselineInv
    <3>3. GoodBase(d, b)' /\ RankOf(b)' < checks'[d].rank
      BY <1>9, <3>2
    <3>4. QED
      BY <3>1, <3>2, <3>3
  <2>3. QED
    BY <2>1, <2>2
<1>12. ASSUME NEW d \in Checks, checks'[d].status = "running"
       PROVE  (checks[d].since <= LastRank(checks[d].monitor))'
  <2>1. checks'[d] = checks[d]
    BY <1>2, <1>12
  <2>2. PICK k \in Monitors : k = checks[d].monitor /\ k = checks'[d].monitor
    BY <1>10, <1>12, <2>1
  <2>3. checks[d].since <= LastRank(k) /\ checks[d].since \in Nat
    BY <1>12, <2>1, <2>2 DEF BaselineInv, WorkflowTypeOK, CheckRow
  <2>4. LastRank(k) \in Nat /\ LastRank(k)' \in Nat /\ LastRank(k) <= LastRank(k)'
    BY <1>1, <1>5, <1>6
  <2>5. checks'[d].since <= LastRank(k)'
    BY <2>1, <2>3, <2>4
  <2>6. QED
    BY <2>2, <2>5
<1>13. ASSUME NEW w \in Workers, (pc[w] = "recording" /\ checks[work[w].item].status = "running")'
       PROVE  GoodBase(work[w].item, work[w].base)'
  <2>1. PICK d, b : d = work[w].item /\ b = work[w].base
    OBVIOUS
  <2>2. /\ work'[w] = work[w] /\ pc[w] = "recording" /\ d \in Checks /\ d # c
    BY <1>13, <2>1 DEF WorkflowTypeOK, CheckPoints
  <2>3. checks'[d] = checks[d] /\ checks[d].monitor \in Monitors
    BY <1>10, <1>13, <2>1, <2>2
  <2>4. GoodBase(d, b)'
    BY <1>9, <1>13, <2>1, <2>2, <2>3 DEF BaselineInv
  <2>5. QED
    BY <2>1, <2>2, <2>4
<1>14. QED
  BY <1>8, <1>11, <1>12, <1>13 DEF BaselineInv

(* Every step keeps the ranks and the bases. *)
LEMMA BaselineStep ==
  WorkflowTypeOK /\ OneWorkerPerItem /\ EventsInv /\ BaselineInv /\ [Next]_vars => BaselineInv'
<1> SUFFICES ASSUME WorkflowTypeOK, OneWorkerPerItem, EventsInv, BaselineInv, [Next]_vars
             PROVE  BaselineInv'
  OBVIOUS
<1>1. /\ checks \in [Checks -> CheckRow] /\ work \in [Workers -> WorkRow] /\ DOMAIN pc = Workers
      /\ \A w \in Workers : work[w] \in WorkRow
      /\ \A v \in Workers : pc[v] = "recording" =>
            work[v].item \in Checks /\ checks[work[v].item].status \in {"running", "deleted"}
      /\ \A c \in Checks : checks[c].status \notin {"absent", "deleted"} => checks[c].monitor \in Monitors
  BY DEF WorkflowTypeOK, EventsInv, CheckPoints
<1>2. ASSUME NEW m \in Monitors, DeleteMonitor(m) PROVE BaselineInv'
  <2>1. \A c \in Checks : checks'[c] = IF checks[c].monitor = m THEN GoneCheck ELSE checks[c]
    BY <1>2 DEF DeleteMonitor, ChecksOf
  <2>2. {m} \in SUBSET Monitors /\ UNCHANGED <<pc, work>>
    BY <1>2 DEF DeleteMonitor
  <2>3. \A c \in Checks :
           \/ checks'[c] = checks[c] /\ checks[c].monitor \notin {m}
           \/ checks[c].monitor \in {m} /\ checks'[c].status = "deleted"
    BY <2>1, FreshRows
  <2>4. \A c \in Checks : checks[c].status = "completed" /\ checks[c].monitor \notin {m} =>
                             checks'[c] = checks[c]
    BY <2>1
  <2>5. \A v \in Workers : work'[v] = work[v] /\ pc'[v] = pc[v]
    BY <2>2
  <2>6. \A v \in Workers : pc[v] = "recording" => checks[work[v].item].status # "queued"
    BY <1>1
  <2> DEFINE gone == {m}
  <2> HIDE DEF gone
  <2>7. QED
    BY <2>2, <2>3, <2>4, <2>5, <2>6, RanksStay DEF gone
<1>3. ASSUME NEW m \in Monitors, NEW c \in Checks,
             RunMonitor(m, c) \/ \E w \in Workers : ScheduleDue(w, m, c)
      PROVE  BaselineInv'
  <2>1. UNCHANGED <<pc, work>> /\ Enqueued(m, c) /\ {} \in SUBSET Monitors
    BY <1>3 DEF RunMonitor, ScheduleDue
  <2>2. /\ checks[c].status = "absent" /\ checks'[c].status = "queued"
        /\ \A d \in Checks : d # c => checks'[d] = checks[d]
    BY <1>1, <2>1, FreshRows DEF Enqueued
  <2>3. QED
    BY <1>1, <2>1, <2>2, RanksStay
<1>4. ASSUME UNCHANGED checks,
             \A v \in Workers : \/ work'[v] = work[v] /\ pc'[v] = pc[v]
                                \/ pc'[v] # "recording"
      PROVE  BaselineInv'
  <2>1. {} \in SUBSET Monitors
    OBVIOUS
  <2>2. QED
    BY <1>1, <1>4, <2>1, RanksStay
<1>5. ASSUME NEW w \in Workers,
             \/ NothingDue(w) \/ NoAgentOpen(w) \/ NoCheckOpen(w) \/ Restart(w) \/ Crash(w)
             \/ AskCancelled(w) \/ FetchSource(w) \/ StopAgent(w) \/ CompleteAgent(w)
             \/ PostEvent(w) \/ \E a \in Agents, urls \in Nat : ClaimAgent(w, a, urls)
      PROVE  BaselineInv'
  BY <1>1, <1>4, <1>5 DEF NothingDue, NoAgentOpen, NoCheckOpen, Restart, Crash, AskCancelled,
         FetchSource, StopAgent, CompleteAgent, ClaimAgent, PostEvent, Goto, Finish
<1>6. ASSUME NEW w \in Workers, NEW c \in Checks, ClaimCheck(w, c) PROVE BaselineInv'
  <2> DEFINE last == LastRank(checks[c].monitor)
  <2>1. /\ checks[c].status = "queued" /\ checks[c] \in CheckRow /\ last \in Nat
        /\ checks' = [checks EXCEPT ![c] = Started(checks[c], last)]
        /\ \A v \in Workers : (work'[v] = work[v] /\ pc'[v] = pc[v]) \/ pc'[v] # "recording"
    BY <1>1, <1>6, RankType DEF ClaimCheck, CheckOpen, Goto
  <2>2. /\ Started(checks[c], last).status = "running" /\ Started(checks[c], last).since = last
        /\ Started(checks[c], last).monitor = checks[c].monitor
    <3> HIDE DEF last
    <3> QED
      BY <2>1 DEF Started, CheckRow
  <2>3. /\ checks'[c].status = "running" /\ checks'[c].since = last
        /\ checks'[c].monitor = checks[c].monitor
        /\ \A d \in Checks : d # c => checks'[d] = checks[d]
    <3> HIDE DEF last
    <3> QED
      BY <1>1, <2>1, <2>2
  <2>4. \A d \in Checks :
           \/ checks'[d] = checks[d] /\ checks[d].monitor \notin {}
           \/ /\ checks[d].status = "queued" /\ checks'[d].status = "running"
              /\ checks[d].monitor \notin {}
              /\ checks'[d].monitor = checks[d].monitor
              /\ checks'[d].since = LastRank(checks[d].monitor)
    BY <2>1, <2>3
  <2>5. /\ \A d \in Checks : checks[d].status = "completed" => checks'[d] = checks[d]
        /\ \A v \in Workers : pc[v] = "recording" => checks[work[v].item].status # "queued"
    BY <1>1, <2>1, <2>3
  <2>6. {} \in SUBSET Monitors
    OBVIOUS
  <2> HIDE DEF last
  <2>7. QED
    BY <2>1, <2>4, <2>5, <2>6, RanksStay
<1>7. ASSUME NEW w \in Workers, ReadPrevious(w) PROVE BaselineInv'
  <2> DEFINE c == work[w].item
             base == Previous(checks[c].monitor)
  <2>1. /\ pc[w] = "scraping" /\ UNCHANGED checks /\ c \in Checks
        /\ work' = [work EXCEPT ![w] = Against(work[w], base)]
        /\ \A v \in Workers : v # w => work'[v] = work[v] /\ pc'[v] = pc[v]
    BY <1>1, <1>7 DEF ReadPrevious, Goto, WorkflowTypeOK, CheckPoints
  <2>2. work'[w].item = c /\ work'[w].base = base
    <3>1. work'[w] = Against(work[w], base)
      BY <1>1, <2>1
    <3> HIDE DEF base
    <3>2. QED
      BY <1>1, <3>1 DEF Against, WorkRow
  <2>3. ASSUME checks[c].status = "running" PROVE GoodBase(c, base)
    <3>1. checks[c].monitor \in Monitors /\ checks[c].since <= LastRank(checks[c].monitor)
      BY <1>1, <2>1, <2>3 DEF BaselineInv
    <3>2. QED
      BY <3>1, PreviousRank DEF BaselineInv, GoodBase
  <2> HIDE DEF c, base
  <2>4. ASSUME NEW v \in Workers, (pc[v] = "recording" /\ checks[work[v].item].status = "running")'
        PROVE  GoodBase(work[v].item, work[v].base)'
    <3>1. PICK d, b : d = work'[v].item /\ b = work'[v].base
      OBVIOUS
    <3>2. GoodBase(d, b)
      BY <2>1, <2>2, <2>3, <2>4, <3>1 DEF BaselineInv
    <3>3. GoodBase(d, b)'
      BY <2>1, <3>2 DEF GoodBase, RankOf, Completed, ChecksOf
    <3>4. QED
      BY <3>1, <3>3
  <2>5. RanksInv'
    BY <2>1 DEF BaselineInv, RanksInv, Completed, ChecksOf, LastRank
  <2>6. \A d \in Checks : (GoodBase(d, checks[d].base) <=> GoodBase(d, checks[d].base)')
                         /\ RankOf(checks[d].base)' = RankOf(checks[d].base)
                         /\ LastRank(checks[d].monitor)' = LastRank(checks[d].monitor)
    BY <2>1 DEF GoodBase, RankOf, Completed, ChecksOf, LastRank
  <2>7. QED
    BY <2>1, <2>4, <2>5, <2>6 DEF BaselineInv
<1>8. ASSUME NEW w \in Workers, RecordCompleted(w) PROVE BaselineInv'
  <2> DEFINE c == work[w].item
             base == work[w].base
  <2>1. /\ pc[w] = "recording" /\ c \in Checks /\ checks[c].status \in {"running", "deleted"}
        /\ pc'[w] # "recording"
        /\ \A v \in Workers : v # w => work'[v] = work[v] /\ pc'[v] = pc[v]
    BY <1>1, <1>8 DEF RecordCompleted, AfterRecord, Finish, Goto
  <2>2. CASE checks[c].status = "deleted"
    BY <1>4, <1>8, <2>1, <2>2 DEF RecordCompleted
  <2>3. CASE checks[c].status = "running"
    <3>1. checks' = [checks EXCEPT ![c] = Compared(checks[c], base, LastRank(checks[c].monitor) + 1)]
      BY <1>8, <2>3 DEF RecordCompleted
    <3>2. GoodBase(c, base)
      BY <2>1, <2>3 DEF BaselineInv
    <3>3. \A v \in Workers : v # w => work[v].item # c
      BY <2>1, WorkflowAssumption DEF OneWorkerPerItem
    <3> HIDE DEF c, base
    <3>4. /\ checks'[c] = Compared(checks[c], base, LastRank(checks[c].monitor) + 1)
          /\ \A d \in Checks : d # c => checks'[d] = checks[d]
      BY <1>1, <2>1, <3>1
    <3>5. QED
      BY <2>1, <2>3, <3>2, <3>3, <3>4, RanksGrow
  <2>4. QED
    BY <2>1, <2>2, <2>3
<1>9. ASSUME NEW w \in Workers, RecordFailed(w) PROVE BaselineInv'
  <2> DEFINE c == work[w].item
  <2>1. /\ c \in Checks /\ checks[c].status \in {"running", "deleted"} /\ checks[c] \in CheckRow
        /\ pc'[w] # "recording"
        /\ \A v \in Workers : v # w => work'[v] = work[v] /\ pc'[v] = pc[v]
    BY <1>1, <1>9 DEF RecordFailed, AfterRecord, Finish, Goto, EventsInv, WorkflowTypeOK, CheckPoints
  <2>2. CASE checks[c].status = "deleted"
    BY <1>4, <1>9, <2>1, <2>2 DEF RecordFailed
  <2>3. CASE checks[c].status = "running"
    <3>1. checks' = [checks EXCEPT ![c] = Failed(checks[c])]
      BY <1>9, <2>3 DEF RecordFailed
    <3>2. Failed(checks[c]).status = "failed" /\ {} \in SUBSET Monitors
      BY <2>1, CheckWrites
    <3> HIDE DEF c
    <3>3. checks'[c].status = "failed" /\ \A d \in Checks : d # c => checks'[d] = checks[d]
      BY <1>1, <2>1, <3>1, <3>2
    <3>4. QED
      BY <1>1, <2>1, <2>3, <3>2, <3>3, RanksStay
  <2>4. QED
    BY <2>1, <2>2, <2>3
<1>10. ASSUME UNCHANGED <<checks, received, pc, work>> PROVE BaselineInv'
  BY <1>4, <1>10
<1>11. ASSUME NEW w \in Workers, WorkerStep(w) PROVE BaselineInv'
  <2>1. \A a \in Agents : 0 .. Budget[a] \subseteq Nat
    BY WorkflowAssumption
  <2>2. QED
    BY <1>3, <1>5, <1>6, <1>7, <1>8, <1>9, <1>11, <2>1 DEF WorkerStep
<1>12. CASE Api
  BY <1>2, <1>3, <1>10, <1>12, ApiSteps
<1>13. CASE \E w \in Workers : WorkerStep(w) \/ Crash(w) \/ Restart(w)
  BY <1>5, <1>11, <1>13
<1>14. QED
  BY <1>10, <1>12, <1>13 DEF Next, vars

(* A check is compared with the last check completed before it was claimed *)
(* or with a later one, never with one that was recorded after it.         *)
THEOREM BaselineTheorem == Spec => []BaselineIsRecent
<1>1. Init => EventsInv /\ BaselineInv
  BY DEF Init, NoCheck, EventsInv, EventsMatchRecords, BaselineInv, RanksInv, Completed, ChecksOf
<1>2. BaselineInv => BaselineIsRecent
  BY DEF BaselineInv, BaselineIsRecent, GoodBase
<1>3. QED
  BY <1>1, <1>2, EventsStep, BaselineStep, OneWorkerTheorem, WorkflowTypeCorrect, PTL DEF Spec
==============================================================================
