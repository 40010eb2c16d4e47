----------------------------- MODULE EngineJobs ------------------------------
(***************************************************************************)
(* The render jobs of Bee Engine: POST, GET and DELETE /scrape of          *)
(* apps/bee-engine/bee_engine/app.py, the JobStore of jobs.py and the page *)
(* slots of the BrowserPool of browser.py.  A request renders while it     *)
(* waits, or, with instantReturn, leaves a job that renders in a task of   *)
(* its own; wait_for bounds the render, its wait for a slot included.      *)
(*                                                                         *)
(* What a render does on its page is left out, and so are the contexts: a  *)
(* render that breaks between new_context and its try block leaves one     *)
(* open (see README.md).                                                   *)
(***************************************************************************)
EXTENDS Naturals, FiniteSets

CONSTANTS
    Renders,   \* calls of run_sync
    EngineIds, \* job ids: the caller's scrape_id, or a new one
    MaxPages,  \* BEE_ENGINE_MAX_PAGES
    NoJob      \* a request that waits for its page

ASSUME EngineAssumption == MaxPages \in Nat \ {0} /\ NoJob \notin EngineIds

VARIABLES
    engineJobs, \* JobStore._jobs: "absent", "processing", "page" or "error"
    render      \* per call: how far it is, its job, its result, and whether
                \* its time is up

engineJobVars == <<engineJobs, render>>

NoRender == [at |-> "idle", job |-> NoJob, result |-> "page", late |-> FALSE]
MovesTo(r, at) == render' = [render EXCEPT ![r].at = at]
Fails(r, at) == render' = [render EXCEPT ![r].at = at, ![r].result = "error"]

-----------------------------------------------------------------------------
(* The routes.                                                             *)

Begins(r, j) ==
    /\ render[r] = NoRender
    /\ render' = [render EXCEPT ![r] = [NoRender EXCEPT !.at = "queued", !.job = j]]

ScrapeNow(r) == Begins(r, NoJob) /\ UNCHANGED engineJobs

(* The id may name a job that is there, and even still at work.            *)
Enqueue(r, j) ==
    /\ Begins(r, j)
    /\ engineJobs' = [engineJobs EXCEPT ![j] = "processing"]

(* The job leaves the store; its task goes on.                             *)
RemoveJob(j) ==
    /\ engineJobs[j] # "absent"
    /\ engineJobs' = [engineJobs EXCEPT ![j] = "absent"]
    /\ UNCHANGED render

-----------------------------------------------------------------------------
(* BrowserPool.render under the wait_for of run_sync.                      *)

HoldsSlot(r) == render[r].at \in {"opening", "page", "closing"}

GetsSlot(r) ==
    /\ render[r].at = "queued"
    /\ Cardinality({x \in Renders : HoldsSlot(x)}) < MaxPages
    /\ MovesTo(r, "opening")
    /\ UNCHANGED engineJobs

(* Browser, context and page: outside the try block, so an error ends the  *)
(* call.                                                                   *)
Opens(r) ==
    /\ render[r].at = "opening"
    /\ MovesTo(r, "page") \/ Fails(r, "ended")
    /\ UNCHANGED engineJobs

(* A page, or an error that is reported as one.                            *)
Rendered(r) ==
    /\ render[r].at = "page"
    /\ MovesTo(r, "closing")
    /\ UNCHANGED engineJobs

(* The finally clause; closing the context can fail as well.               *)
Closes(r) ==
    /\ render[r].at = "closing"
    /\ MovesTo(r, "ended") \/ Fails(r, "ended")
    /\ UNCHANGED engineJobs

(* The call is cancelled wherever it waits, once; on its page it still     *)
(* closes the context.                                                     *)
TimesOut(r) ==
    /\ render[r].at = "queued" \/ HoldsSlot(r)
    /\ ~render[r].late
    /\ render' = [render EXCEPT ![r].late = TRUE, ![r].result = "error",
                     ![r].at = IF @ = "page" THEN "closing" ELSE "ended"]
    /\ UNCHANGED engineJobs

BadStored(r) ==
    IF render[r].result = "page"
    THEN engineJobs' = [engineJobs EXCEPT ![render[r].job] = "page"]
    ELSE UNCHANGED engineJobs

(* A result or its error takes the place of whatever the id has.           *)
Stored(r) == engineJobs' = [engineJobs EXCEPT ![render[r].job] = render[r].result]

Finishes(r) ==
    /\ render[r].at = "ended"
    /\ IF render[r].job = NoJob THEN UNCHANGED engineJobs ELSE Stored(r)
    /\ render' = [render EXCEPT ![r] = NoRender]

JobsRestart ==
    /\ engineJobs' = [j \in EngineIds |-> "absent"]
    /\ render' = [r \in Renders |-> NoRender]

EngineInit ==
    /\ engineJobs = [j \in EngineIds |-> "absent"]
    /\ render = [r \in Renders |-> NoRender]

EngineNext ==
    \/ \E r \in Renders :
          \/ ScrapeNow(r) \/ GetsSlot(r) \/ Opens(r) \/ Rendered(r)
          \/ Closes(r) \/ TimesOut(r) \/ Finishes(r)
          \/ \E j \in EngineIds : Enqueue(r, j)
    \/ \E j \in EngineIds : RemoveJob(j)
    \/ JobsRestart

EngineSpec == EngineInit /\ [][EngineNext]_engineJobVars

(* Timers fire, and a task that can go on after its timer does.            *)
EngineFairness ==
    \A r \in Renders : WF_engineJobVars(TimesOut(r) \/ Closes(r) \/ Finishes(r))

-----------------------------------------------------------------------------
(* A job never stays at processing: whatever fails, is cancelled or waits  *)
(* for a slot, an outcome is stored or the job is deleted.  Where an id is *)
(* deleted and used again while tasks run, the outcome can be that of any  *)
(* task the id was given to, an earlier one too (JobStore._run_job,        *)
(* run_sync).                                                              *)
JobsSettle ==
    \A j \in EngineIds : engineJobs[j] = "processing" ~> engineJobs[j] # "processing"
=============================================================================
