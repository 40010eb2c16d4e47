----------------------------- MODULE MCWorkflows -----------------------------
(***************************************************************************)
(* Instances of Workflows for TLC.  Agent jobs and monitors share workers  *)
(* but no row, so a behaviour is about jobs or about monitors.             *)
(***************************************************************************)
EXTENDS WorkflowsProps, TLC

CONSTANTS a1, a2, m1, c1, c2, c3, w1, w2

VARIABLE kind

BudgetTwo == [a \in Agents |-> 2]

MCInit == kind \in {"jobs", "monitors"} /\ Init

MCNext ==
    /\ Next
    /\ UNCHANGED kind
    /\ \/ kind = "jobs" /\ UNCHANGED monitors
       \/ kind = "monitors" /\ UNCHANGED agents

MCSpec == MCInit /\ [][MCNext]_<<kind, vars>>

(* Workers, jobs and checks are interchangeable. *)
WorkflowSymmetry ==
    Permutations(Workers) \cup Permutations(Agents) \cup Permutations(Checks)
=============================================================================
