--------------------------- MODULE BrowserSessions --------------------------
(***************************************************************************)
(* Persistent browser sessions.  Bee Engine keeps the sessions             *)
(* (apps/bee-engine/bee_engine/sessions.py), an API process keeps who owns *)
(* each of them and which rendered scrape handed off to which session      *)
(* (browser_owners and scrape_handoffs of apps/api/src/routes.rs).  The    *)
(* two are separate processes: a handler checks the owner, calls the       *)
(* engine and only then updates its own table, and either process can be   *)
(* restarted, or a client leave, between two of these steps.               *)
(***************************************************************************)
EXTENDS Naturals, FiniteSets

CONSTANTS
    Clients,      \* the credentials
    Sessions,     \* session ids; an id is used once
    Scrapes,      \* request ids of rendered scrapes
    MaxSessions,  \* BEE_ENGINE_MAX_SESSIONS
    NoClient, NoSession, NoScrape

ASSUME SessionsAssumption ==
    /\ IsFiniteSet(Sessions) /\ MaxSessions \in Nat
    /\ NoClient \notin Clients /\ NoSession \notin Sessions /\ NoScrape \notin Scrapes

VARIABLES
    session,  \* in the engine: "unused", "starting", "open" or "closed"
    clock,    \* in the engine: "fresh", "idle" past activity_ttl, "expired" past ttl
    owner,    \* browser_owners of the API process
    handoff,  \* scrape_handoffs: "none", "kept", or "old" after four hours
    linked,   \* the session_id of a hand-off
    call,     \* the request of a client the API process is serving
    told      \* history: sessions whose id this API process has answered with

engineVars == <<session, clock>>
apiVars == <<owner, handoff, linked, call, told>>
sessionVars == <<engineVars, apiVars>>

NoCall == [at |-> "none", session |-> NoSession, scrape |-> NoScrape]
Calling(at, s, h) == [at |-> at, session |-> s, scrape |-> h]
Goes(c, at) == call' = [call EXCEPT ![c].at = at]
Returns(c) == call' = [call EXCEPT ![c] = NoCall]

-----------------------------------------------------------------------------
(* The engine.                                                             *)

IsLive(s) == session[s] \in {"starting", "open"}
LiveSessions == {s \in Sessions : IsLive(s)}

(* cleanup() pops what is past its ttl or its activity_ttl, also a session *)
(* that is starting or executing.                                          *)
Reapable(s) == IsLive(s) /\ clock[s] # "fresh"

Reaped == [s \in Sessions |-> IF Reapable(s) THEN "closed" ELSE session[s]]

(* Under the store's lock, and after cleanup.                              *)
HasRoom(after) ==
    Cardinality({s \in Sessions : after[s] \in {"starting", "open"}}) < MaxSessions

Cleanup ==
    /\ \E s \in Sessions : Reapable(s)
    /\ session' = Reaped
    /\ UNCHANGED <<clock, apiVars>>

(* Time passes: activity_ttl without an execution, or ttl since creation.  *)
GoesIdle(s) ==
    /\ IsLive(s) /\ clock[s] = "fresh"
    /\ clock' = [clock EXCEPT ![s] = "idle"]
    /\ UNCHANGED <<session, apiVars>>

Expires(s) ==
    /\ IsLive(s) /\ clock[s] # "expired"
    /\ clock' = [clock EXCEPT ![s] = "expired"]
    /\ UNCHANGED <<session, apiVars>>

(* After the lock: the page is opened and photographed, or the session is  *)
(* popped again.  The engine goes on when its caller is gone.              *)
Starts(s) ==
    /\ session[s] = "starting"
    /\ \E end \in {"open", "closed"} : session' = [session EXCEPT ![s] = end]
    /\ UNCHANGED <<clock, apiVars>>

EngineRestart ==
    /\ LiveSessions # {}
    /\ session' = [s \in Sessions |-> IF IsLive(s) THEN "closed" ELSE session[s]]
    /\ UNCHANGED <<clock, apiVars>>

-----------------------------------------------------------------------------
(* create_browser_session, for POST /v2/browser and for a hand-off.        *)

Create(c) ==
    /\ call[c] = NoCall
    /\ call' = [call EXCEPT ![c] = Calling("post", NoSession, NoScrape)]
    /\ UNCHANGED <<engineVars, owner, handoff, linked, told>>

Interact(c, h) ==
    /\ call[c] = NoCall /\ handoff[h] = "kept"
    /\ call' = [call EXCEPT ![c] = Calling("post", NoSession, h)]
    /\ UNCHANGED <<engineVars, owner, handoff, linked, told>>

EngineCreates(c, s) ==
    /\ call[c].at = "post" /\ session[s] = "unused"
    /\ session' = IF HasRoom(Reaped) THEN [Reaped EXCEPT ![s] = "starting"] ELSE Reaped
    /\ IF HasRoom(Reaped)
       THEN call' = [call EXCEPT ![c].at = "starting", ![c].session = s]
       ELSE Returns(c)
    /\ UNCHANGED <<clock, owner, handoff, linked, told>>

EngineAnswers(c) ==
    /\ call[c].at = "starting" /\ session[call[c].session] # "starting"
    /\ IF session[call[c].session] = "open" THEN Goes(c, "insert") ELSE Returns(c)
    /\ UNCHANGED <<engineVars, owner, handoff, linked, told>>

InsertOwner(c) ==
    LET s == call[c].session IN
    /\ call[c].at = "insert"
    /\ owner' = [owner EXCEPT ![s] = c]
    /\ IF call[c].scrape = NoScrape
       THEN Returns(c) /\ told' = told \cup {s}
       ELSE Goes(c, "link") /\ UNCHANGED told
    /\ UNCHANGED <<engineVars, handoff, linked>>

(* A later hand-off of the same scrape takes the place of an earlier one.  *)
Link(c) ==
    LET s == call[c].session IN
    /\ call[c].at = "link"
    /\ linked' = [linked EXCEPT ![call[c].scrape] = s]
    /\ told' = told \cup {s}
    /\ Returns(c)
    /\ UNCHANGED <<engineVars, owner, handoff>>

-----------------------------------------------------------------------------
(* Use and deletion: first the owner, then the engine, then the table.     *)

Ask(c, s, at) ==
    /\ call[c] = NoCall /\ owner[s] = c
    /\ call' = [call EXCEPT ![c] = Calling(at, s, NoScrape)]
    /\ UNCHANGED <<engineVars, owner, handoff, linked, told>>

Execute(c, s) == Ask(c, s, "execute")
Delete(c, s) == Ask(c, s, "delete")
InteractDelete(c, h) ==
    /\ handoff[h] # "none" /\ linked[h] # NoSession
    /\ Ask(c, linked[h], "delete")

(* The lookup cleans up first; the execution then waits for the lock of    *)
(* its session, and only its start counts as activity.                     *)
EngineFinds(c) ==
    LET s == call[c].session IN
    /\ call[c].at = "execute"
    /\ session' = Reaped
    /\ IF Reaped[s] \in {"starting", "open"} THEN Goes(c, "queued") ELSE Returns(c)
    /\ UNCHANGED <<clock, owner, handoff, linked, told>>

Busy(s) == \E c \in Clients : call[c].at = "running" /\ call[c].session = s

BadTouched(k) == "fresh"

(* last_activity moves, expires_at does not.                               *)
Touched(k) == IF k = "idle" THEN "fresh" ELSE k

EngineRuns(c) ==
    LET s == call[c].session IN
    /\ call[c].at = "queued" /\ ~Busy(s)
    /\ clock' = [clock EXCEPT ![s] = Touched(@)]
    /\ Goes(c, "running")
    /\ UNCHANGED <<session, owner, handoff, linked, told>>

EngineFinishes(c) ==
    /\ call[c].at = "running"
    /\ Returns(c)
    /\ UNCHANGED <<engineVars, owner, handoff, linked, told>>

(* A session the engine no longer has is a 404, and stays in the table.    *)
EngineDeletes(c) ==
    LET s == call[c].session IN
    /\ call[c].at = "delete"
    /\ IF IsLive(s)
       THEN session' = [session EXCEPT ![s] = "closed"] /\ Goes(c, "forget")
       ELSE UNCHANGED session /\ Returns(c)
    /\ UNCHANGED <<clock, owner, handoff, linked, told>>

BadMayForget(c) == call[c].at \in {"delete", "forget"}
MayForget(c) == call[c].at = "forget"

Forget(c) ==
    /\ MayForget(c)
    /\ owner' = [owner EXCEPT ![call[c].session] = NoClient]
    /\ Returns(c)
    /\ UNCHANGED <<engineVars, handoff, linked, told>>

(* The engine cannot be reached, or the client hangs up and its handler is *)
(* dropped at whatever await it had reached.                               *)
CallFails(c) ==
    /\ call[c] # NoCall
    /\ Returns(c)
    /\ UNCHANGED <<engineVars, owner, handoff, linked, told>>

(* A rendered /v2/scrape leaves its hand-off.                              *)
ScrapeRendered(h) ==
    /\ handoff[h] = "none"
    /\ handoff' = [handoff EXCEPT ![h] = "kept"]
    /\ UNCHANGED <<engineVars, owner, linked, call, told>>

HandoffAges(h) ==
    /\ handoff[h] = "kept"
    /\ handoff' = [handoff EXCEPT ![h] = "old"]
    /\ UNCHANGED <<engineVars, owner, linked, call, told>>

(* What an API process knows when it starts.                               *)
NoOwners == [s \in Sessions |-> NoClient]
NoHandoffs == [h \in Scrapes |-> "none"]
NoLinks == [h \in Scrapes |-> NoSession]
NoCalls == [c \in Clients |-> NoCall]

ApiRestart ==
    /\ apiVars # <<NoOwners, NoHandoffs, NoLinks, NoCalls, {}>>
    /\ owner' = NoOwners /\ handoff' = NoHandoffs /\ linked' = NoLinks
    /\ call' = NoCalls /\ told' = {}
    /\ UNCHANGED engineVars

SessionsInit ==
    /\ session = [s \in Sessions |-> "unused"]
    /\ clock = [s \in Sessions |-> "fresh"]
    /\ owner = NoOwners /\ handoff = NoHandoffs /\ linked = NoLinks
    /\ call = NoCalls /\ told = {}

SessionsNext ==
    \/ Cleanup \/ EngineRestart \/ ApiRestart
    \/ \E s \in Sessions : GoesIdle(s) \/ Expires(s) \/ Starts(s)
    \/ \E h \in Scrapes : ScrapeRendered(h) \/ HandoffAges(h)
    \/ \E c \in Clients :
          \/ Create(c) \/ EngineAnswers(c) \/ InsertOwner(c) \/ Link(c)
          \/ EngineFinds(c) \/ EngineRuns(c) \/ EngineFinishes(c)
          \/ EngineDeletes(c) \/ Forget(c) \/ CallFails(c)
          \/ \E s \in Sessions : EngineCreates(c, s) \/ Execute(c, s) \/ Delete(c, s)
          \/ \E h \in Scrapes : Interact(c, h) \/ InteractDelete(c, h)

SessionsSpec == SessionsInit /\ [][SessionsNext]_sessionVars

(* The cleanup loop of the engine, and the clock.                          *)
SessionsFairness ==
    /\ WF_sessionVars(Cleanup)
    /\ \A s \in Sessions : WF_sessionVars(Expires(s))

-----------------------------------------------------------------------------
(* While the API process lives, whoever was given a session can use and    *)
(* delete it until the engine drops it: a delete that fails half way, a    *)
(* client that hangs up or a second delete never strands it                *)
(* (firecrawl_v2_browser_delete, require_browser_owner).                   *)
ToldSessionsOwned == \A s \in told : IsLive(s) => owner[s] # NoClient

(* Every session is closed in the end, also one whose creator hung up, and *)
(* one that outlived the API process that knew its owner                   *)
(* (BrowserSessionStore.cleanup).                                          *)
SessionsClose == \A s \in Sessions : IsLive(s) ~> ~IsLive(s)
=============================================================================
