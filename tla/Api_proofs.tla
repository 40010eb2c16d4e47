----------------------------- MODULE Api_proofs -----------------------------
(***************************************************************************)
(* The tables an API process keeps in memory: an upload is parsed once,    *)
(* whoever was given a browser session can use and delete it until the     *)
(* engine drops it, and an API key keeps its limits.  For any number of    *)
(* clients, uploads, sessions, hand-offs and keys, any interleaving of     *)
(* their requests, hang-ups and restarts.                                  *)
(***************************************************************************)
EXTENDS ParseUploads, BrowserSessions, RateLimiter, Subsequences_proofs,
        SequenceTheorems, FiniteSetTheorems, TLAPS

-----------------------------------------------------------------------------
(* Uploads.                                                                *)

(* An upload that was taken out has left the table, where a reference is   *)
(* made once.                                                              *)
UploadsInv ==
    /\ uploads = [u \in Uploads |-> uploads[u]]
    /\ takes \in [Uploads -> Nat]
    /\ \A u \in Uploads : takes[u] = 0 \/ (takes[u] = 1 /\ uploads[u] = "absent")

(* An upload is handed to at most one parse.                               *)
THEOREM TakenTheorem == UploadsSpec => []TakenOnce
<1>1. UploadsInit => UploadsInv
  BY DEF UploadsInit, UploadsInv
<1>2. UploadsInv /\ [UploadsNext]_uploadVars => UploadsInv'
  <2> SUFFICES ASSUME UploadsInv, [UploadsNext]_uploadVars PROVE UploadsInv'
    OBVIOUS
  <2>1. ASSUME NEW u \in Uploads,
               \/ MakeReference(u) \/ ReferenceExpires(u)
               \/ \E d \in Documents : Put(u, d)
        PROVE  UploadsInv'
    BY <2>1 DEF MakeReference, ReferenceExpires, Put, Discard, UploadsInv
  <2>2. ASSUME NEW u \in Uploads, NEW p \in Parsers, Take(p, u) PROVE UploadsInv'
    BY <2>2 DEF Take, Taken, Discard, UploadsInv
  <2>3. ASSUME NEW p \in Parsers,
               \/ \E d \in Documents : TakeBody(p, d)
               \/ \E o \in Options : Parse(p, o)
        PROVE  UploadsInv'
    BY <2>3 DEF TakeBody, Parse, UploadsInv
  <2>4. CASE UploadsRestart
    BY <2>4 DEF UploadsRestart, UploadsInv
  <2>5. CASE UNCHANGED uploadVars
    BY <2>5 DEF uploadVars, UploadsInv
  <2>6. QED
    BY <2>1, <2>2, <2>3, <2>4, <2>5 DEF UploadsNext
<1>3. UploadsInv => TakenOnce
  <2> SUFFICES ASSUME UploadsInv, NEW u \in Uploads PROVE takes[u] <= 1
    BY DEF TakenOnce
  <2>1. takes[u] \in {0, 1}
    BY DEF UploadsInv
  <2>2. QED
    BY <2>1
<1>4. QED
  BY <1>1, <1>2, <1>3, PTL DEF UploadsSpec

-----------------------------------------------------------------------------
(* Browser sessions.                                                       *)

(* The type of every variable.  A call that is past its POST names its     *)
(* session, and one that links names its scrape.                           *)
Steps == {"none", "post", "starting", "insert", "link", "execute", "queued",
          "running", "delete", "forget"}
CallType == [at : Steps, session : Sessions \cup {NoSession}, scrape : Scrapes \cup {NoScrape}]
SessionStates == {"unused", "starting", "open", "closed"}

SessionsTypeOK ==
    /\ session \in [Sessions -> SessionStates]
    /\ clock \in [Sessions -> {"fresh", "idle", "expired"}]
    /\ owner \in [Sessions -> Clients \cup {NoClient}]
    /\ handoff \in [Scrapes -> {"none", "kept", "old"}]
    /\ linked \in [Scrapes -> Sessions \cup {NoSession}]
    /\ call \in [Clients -> CallType]
    /\ told \subseteq Sessions
    /\ \A c \in Clients :
          /\ call[c].at \notin {"none", "post"} => call[c].session \in Sessions
          /\ call[c].at = "link" => call[c].scrape \in Scrapes

(* What makes ToldSessionsOwned inductive.  A session whose id a handler   *)
(* holds exists; one that waits for its hand-off has its owner; and one    *)
(* that is about to be forgotten was closed, which is for ever.            *)
SessionsInv ==
    /\ \A s \in told : session[s] # "unused"
    /\ \A c \in Clients :
          /\ call[c].at \in {"starting", "insert", "link"} => session[call[c].session] # "unused"
          /\ call[c].at = "link" /\ IsLive(call[c].session) => owner[call[c].session] # NoClient
          /\ call[c].at = "forget" => session[call[c].session] = "closed"
    /\ ToldSessionsOwned

-----------------------------------------------------------------------------
(* How a request of a client moves on. *)
LEMMA CallMoves ==
  ASSUME NEW r \in CallType
  PROVE  /\ NoCall \in CallType
         /\ \A at \in Steps : /\ [r EXCEPT !.at = at] \in CallType
                              /\ [r EXCEPT !.at = at].at = at
                              /\ [r EXCEPT !.at = at].session = r.session
                              /\ [r EXCEPT !.at = at].scrape = r.scrape
         /\ \A s \in Sessions : [r EXCEPT !.at = "starting", !.session = s] \in CallType
         /\ \A at \in Steps, s \in Sessions \cup {NoSession}, h \in Scrapes \cup {NoScrape} :
               Calling(at, s, h) \in CallType
  BY DEF CallType, NoCall, Calling, Steps

(* cleanup closes sessions and does nothing else to them. *)
LEMMA ReapedStates ==
  ASSUME SessionsTypeOK
  PROVE  /\ Reaped \in [Sessions -> SessionStates]
         /\ \A s \in Sessions : Reaped[s] = session[s] \/ (IsLive(s) /\ Reaped[s] = "closed")
  BY DEF SessionsTypeOK, Reaped, Reapable, IsLive, SessionStates

(* A request that moves on, with tables that keep their types.             *)
LEMMA CallChange ==
  ASSUME SessionsTypeOK, NEW c \in Clients, NEW r \in CallType,
         r.at \notin {"none", "post"} => r.session \in Sessions,
         r.at = "link" => r.scrape \in Scrapes,
         call' = [call EXCEPT ![c] = r],
         session' \in [Sessions -> SessionStates],
         clock' \in [Sessions -> {"fresh", "idle", "expired"}],
         owner' \in [Sessions -> Clients \cup {NoClient}],
         UNCHANGED handoff, linked' \in [Scrapes -> Sessions \cup {NoSession}],
         told' \subseteq Sessions
  PROVE  SessionsTypeOK'
<1>1. /\ call' \in [Clients -> CallType] /\ call'[c] = r
      /\ \A d \in Clients : d # c => call'[d] = call[d]
  BY DEF SessionsTypeOK
<1>2. QED
  BY <1>1 DEF SessionsTypeOK

(* The types hold in every behaviour. *)
THEOREM SessionsTypeCorrect == SessionsSpec => []SessionsTypeOK
<1> USE SessionsAssumption
<1>1. SessionsInit => SessionsTypeOK
  BY DEF SessionsInit, SessionsTypeOK, NoOwners, NoHandoffs, NoLinks, NoCalls, NoCall,
         CallType, Steps, SessionStates
<1>2. SessionsTypeOK /\ [SessionsNext]_sessionVars => SessionsTypeOK'
  <2> SUFFICES ASSUME SessionsTypeOK, [SessionsNext]_sessionVars PROVE SessionsTypeOK'
    OBVIOUS
  <2>1. /\ \A c \in Clients : call[c] \in CallType
        /\ Reaped \in [Sessions -> SessionStates]
    BY ReapedStates DEF SessionsTypeOK
  <2>2. CASE Cleanup
    BY <2>1, <2>2 DEF Cleanup, SessionsTypeOK, apiVars
  <2>3. CASE EngineRestart
    BY <2>3 DEF EngineRestart, SessionsTypeOK, SessionStates, apiVars
  <2>4. CASE ApiRestart
    BY <2>4 DEF ApiRestart, SessionsTypeOK, engineVars, NoOwners, NoHandoffs, NoLinks, NoCalls,
                NoCall, CallType, Steps
  <2>5. ASSUME NEW s \in Sessions, GoesIdle(s) \/ Expires(s) \/ Starts(s) PROVE SessionsTypeOK'
    BY <2>5 DEF GoesIdle, Expires, Starts, SessionsTypeOK, SessionStates, apiVars
  <2>6. ASSUME NEW h \in Scrapes, ScrapeRendered(h) \/ HandoffAges(h) PROVE SessionsTypeOK'
    BY <2>6 DEF ScrapeRendered, HandoffAges, SessionsTypeOK, engineVars
  <2>7. ASSUME NEW c \in Clients,
               \/ Create(c) \/ EngineAnswers(c) \/ InsertOwner(c) \/ Link(c)
               \/ EngineFinds(c) \/ EngineRuns(c) \/ EngineFinishes(c)
               \/ EngineDeletes(c) \/ Forget(c) \/ CallFails(c)
               \/ \E s \in Sessions : EngineCreates(c, s) \/ Execute(c, s) \/ Delete(c, s)
               \/ \E h \in Scrapes : Interact(c, h) \/ InteractDelete(c, h)
        PROVE  SessionsTypeOK'
    <3>1. CASE \/ Create(c) \/ \E h \in Scrapes : Interact(c, h)
      <4>1. PICK h \in Scrapes \cup {NoScrape} :
               call' = [call EXCEPT ![c] = Calling("post", NoSession, h)]
        BY <3>1 DEF Create, Interact
      <4>2. Calling("post", NoSession, h) \in CallType /\ Calling("post", NoSession, h).at = "post"
        BY DEF Calling, CallType, Steps
      <4>3. UNCHANGED <<engineVars, owner, handoff, linked, told>>
        BY <3>1 DEF Create, Interact
      <4>4. QED
        BY <4>1, <4>2, <4>3, CallChange DEF SessionsTypeOK, engineVars
    <3>2. CASE \/ \E s \in Sessions : Execute(c, s) \/ Delete(c, s)
               \/ \E h \in Scrapes : InteractDelete(c, h)
      <4>1. PICK s \in Sessions, at \in {"execute", "delete"} : Ask(c, s, at)
        BY <3>2 DEF Execute, Delete, InteractDelete, SessionsTypeOK
      <4>2. QED
        <5>1. /\ Calling(at, s, NoScrape) \in CallType /\ Calling(at, s, NoScrape).at = at
              /\ Calling(at, s, NoScrape).session = s
          BY DEF Calling, CallType, Steps
        <5>2. QED
          BY <4>1, <5>1, CallChange DEF Ask, SessionsTypeOK, engineVars
    <3>3. CASE Returns(c) /\ UNCHANGED <<clock, owner, handoff, linked, told>>
               /\ session' \in [Sessions -> SessionStates]
      BY <2>1, <3>3, CallMoves, CallChange, NoCall.at = "none" DEF Returns, NoCall, SessionsTypeOK
    <3>4. CASE \E s \in Sessions : EngineCreates(c, s)
      <4>1. PICK s \in Sessions : EngineCreates(c, s)
        BY <3>4
      <4>2. CASE HasRoom(Reaped)
        <5> DEFINE r == [call[c] EXCEPT !.at = "starting", !.session = s]
        <5>1. r \in CallType /\ r.at = "starting" /\ r.session = s
          BY <2>1 DEF CallType, Steps
        <5>2. call' = [call EXCEPT ![c] = r]
          BY <4>1, <4>2 DEF EngineCreates, SessionsTypeOK
        <5>3. session' \in [Sessions -> SessionStates]
          BY <2>1, <4>1, <4>2 DEF EngineCreates, SessionStates
        <5>4. UNCHANGED <<clock, owner, handoff, linked, told>>
          BY <4>1 DEF EngineCreates
        <5> HIDE DEF r
        <5>5. QED
          BY <5>1, <5>2, <5>3, <5>4, CallChange DEF SessionsTypeOK
      <4>3. CASE ~HasRoom(Reaped)
        BY <2>1, <3>3, <4>1, <4>3 DEF EngineCreates
      <4>4. QED
        BY <4>2, <4>3
    <3>5. ASSUME NEW at \in Steps \ {"none", "post"}, Goes(c, at),
                 call[c].at \notin {"none", "post"},
                 at = "link" => call[c].scrape \in Scrapes,
                 UNCHANGED <<handoff, linked>>,
                 session' \in [Sessions -> SessionStates],
                 clock' \in [Sessions -> {"fresh", "idle", "expired"}],
                 owner' \in [Sessions -> Clients \cup {NoClient}],
                 told' = told
          PROVE  SessionsTypeOK'
      <4> DEFINE r == [call[c] EXCEPT !.at = at]
      <4>1. /\ r \in CallType /\ r.at = at
            /\ r.session = call[c].session /\ r.scrape = call[c].scrape
        BY <2>1, CallMoves
      <4>2. call' = [call EXCEPT ![c] = r]
        BY <3>5 DEF Goes, SessionsTypeOK
      <4>3. call[c].session \in Sessions
        BY <3>5 DEF SessionsTypeOK
      <4> HIDE DEF r
      <4>4. QED
        BY <3>5, <4>1, <4>2, <4>3, CallChange DEF SessionsTypeOK
    <3>6. CASE EngineAnswers(c)
      BY <3>3, <3>5, <3>6 DEF EngineAnswers, Steps, SessionsTypeOK, engineVars
    <3>7. CASE InsertOwner(c)
      <4>1. call[c].session \in Sessions /\ call[c].scrape \in Scrapes \cup {NoScrape}
        BY <2>1, <3>7 DEF InsertOwner, SessionsTypeOK, CallType
      <4>2. owner' \in [Sessions -> Clients \cup {NoClient}]
        BY <3>7 DEF InsertOwner, SessionsTypeOK
      <4>3. CASE call[c].scrape = NoScrape
        <5>1. told' \subseteq Sessions /\ Returns(c) /\ UNCHANGED <<engineVars, handoff, linked>>
          BY <3>7, <4>1, <4>3 DEF InsertOwner, SessionsTypeOK
        <5>2. NoCall \in CallType /\ NoCall.at = "none"
          BY <2>1, CallMoves DEF NoCall
        <5>3. QED
          BY <4>2, <5>1, <5>2, CallChange DEF Returns, SessionsTypeOK, engineVars
      <4>4. CASE call[c].scrape # NoScrape
        BY <3>5, <3>7, <4>1, <4>2, <4>4 DEF InsertOwner, Steps, SessionsTypeOK, engineVars
      <4>5. QED
        BY <4>3, <4>4
    <3>8. CASE Link(c)
      <4>1. call[c].session \in Sessions
        BY <3>8 DEF Link, SessionsTypeOK
      <4>2. QED
        <5>1. told' \subseteq Sessions /\ linked' \in [Scrapes -> Sessions \cup {NoSession}]
          BY <3>8, <4>1 DEF Link, SessionsTypeOK
        <5>2. NoCall \in CallType /\ NoCall.at = "none"
          BY <2>1, CallMoves DEF NoCall
        <5>3. QED
          BY <3>8, <5>1, <5>2, CallChange DEF Link, Returns, SessionsTypeOK, engineVars
    <3>9. CASE EngineFinds(c)
      BY <2>1, <3>3, <3>5, <3>9 DEF EngineFinds, Steps, SessionsTypeOK
    <3>10. CASE EngineRuns(c)
      <4>1. clock' \in [Sessions -> {"fresh", "idle", "expired"}]
        BY <3>10 DEF EngineRuns, Touched, SessionsTypeOK
      <4>2. QED
        BY <3>5, <3>10, <4>1 DEF EngineRuns, Steps, SessionsTypeOK
    <3>11. CASE EngineFinishes(c) \/ CallFails(c)
      BY <3>3, <3>11 DEF EngineFinishes, CallFails, SessionsTypeOK, engineVars
    <3>12. CASE EngineDeletes(c)
      <4>1. session' \in [Sessions -> SessionStates]
        BY <3>12 DEF EngineDeletes, SessionsTypeOK, SessionStates
      <4>2. QED
        BY <3>3, <3>5, <3>12, <4>1 DEF EngineDeletes, Steps, SessionsTypeOK
    <3>13. CASE Forget(c)
      BY <2>1, <3>13, CallMoves DEF Forget, MayForget, Returns, NoCall, SessionsTypeOK, engineVars
    <3>14. QED
      BY <2>7, <3>1, <3>2, <3>4, <3>6, <3>7, <3>8, <3>9, <3>10, <3>11, <3>12, <3>13
  <2>8. CASE UNCHANGED sessionVars
    BY <2>8 DEF sessionVars, engineVars, apiVars, SessionsTypeOK
  <2>9. QED
    BY <2>2, <2>3, <2>4, <2>5, <2>6, <2>7, <2>8 DEF SessionsNext
<1>3. QED
  BY <1>1, <1>2, PTL DEF SessionsSpec

-----------------------------------------------------------------------------
(* A session is created once and closed once.                              *)
LEMMA SessionsAge ==
  ASSUME SessionsTypeOK, [SessionsNext]_sessionVars, NEW s \in Sessions
  PROVE  /\ session[s] = "closed" => session'[s] = "closed"
         /\ session[s] # "unused" => session'[s] # "unused"
         /\ session[s] # "unused" /\ IsLive(s)' => IsLive(s)
<1>1. Reaped \in [Sessions -> SessionStates] /\ (Reaped[s] = session[s] \/ (IsLive(s) /\ Reaped[s] = "closed"))
  BY ReapedStates
<1>2. \/ session' = session
      \/ session' = Reaped
      \/ \E x \in Sessions : /\ session[x] = "unused"
                              /\ session' = [Reaped EXCEPT ![x] = "starting"]
      \/ \E x \in Sessions, end \in {"open", "closed"} :
            session[x] = "starting" /\ session' = [session EXCEPT ![x] = end]
      \/ session' = [x \in Sessions |-> IF IsLive(x) THEN "closed" ELSE session[x]]
      \/ \E x \in Sessions : IsLive(x) /\ session' = [session EXCEPT ![x] = "closed"]
  BY DEF SessionsNext, sessionVars, engineVars, apiVars, SessionsTypeOK,
         Cleanup, EngineRestart, ApiRestart, GoesIdle, Expires, Starts, ScrapeRendered, HandoffAges,
         Create, EngineAnswers, InsertOwner, Link, EngineFinds, EngineRuns, EngineFinishes,
         EngineDeletes, Forget, CallFails, EngineCreates, Execute, Delete, Interact,
         InteractDelete, Ask
<1>3. QED
  BY <1>1, <1>2 DEF IsLive, SessionsTypeOK, SessionStates

(* SessionsInv holds initially and every step keeps it. *)
LEMMA SessionsStep == SessionsTypeOK /\ SessionsInv /\ [SessionsNext]_sessionVars => SessionsInv'
<1> SUFFICES ASSUME SessionsTypeOK, SessionsInv, [SessionsNext]_sessionVars PROVE SessionsInv'
  OBVIOUS
<1> USE SessionsAssumption
<1>1. \A s \in Sessions :
         /\ session[s] = "closed" => session'[s] = "closed"
         /\ session[s] # "unused" => session'[s] # "unused"
         /\ session[s] # "unused" /\ IsLive(s)' => IsLive(s)
  BY SessionsAge
<1>2. told \subseteq Sessions /\ \A c \in Clients : call[c] \in CallType
                                /\ (call[c].at \notin {"none", "post"} => call[c].session \in Sessions)
  BY DEF SessionsTypeOK
(* The steps of the engine by itself, and the idling of hand-offs.         *)
<1>3. ASSUME UNCHANGED <<owner, call, told>> PROVE SessionsInv'
  BY <1>1, <1>3, <1>2 DEF SessionsInv, ToldSessionsOwned
<1>4. CASE ApiRestart
  BY <1>4 DEF ApiRestart, NoCalls, NoCall, SessionsInv, ToldSessionsOwned
(* A request that ends, or moves to a point about which nothing is said.   *)
<1>5. ASSUME NEW c \in Clients, UNCHANGED <<owner, told>>,
             \A d \in Clients : d # c => call'[d] = call[d],
             call'[c].at \notin {"starting", "insert", "link", "forget"}
      PROVE  SessionsInv'
  BY <1>1, <1>5, <1>2 DEF SessionsInv, ToldSessionsOwned
<1>6. ASSUME NEW c \in Clients, NEW s \in Sessions, EngineCreates(c, s) PROVE SessionsInv'
  <2>1. CASE HasRoom(Reaped)
    <3>1. session'[s] = "starting" /\ call'[c].at = "starting" /\ call'[c].session = s
      BY <1>6, <2>1, ReapedStates, <1>2 DEF EngineCreates, SessionsTypeOK, CallType
    <3>2. \A d \in Clients : d # c => call'[d] = call[d]
      BY <1>6, <2>1 DEF EngineCreates, SessionsTypeOK
    <3>3. UNCHANGED <<owner, told>>
      BY <1>6 DEF EngineCreates
    <3>4. QED
      BY <1>1, <1>2, <3>1, <3>2, <3>3 DEF SessionsInv, ToldSessionsOwned
  <2>2. CASE ~HasRoom(Reaped)
    BY <1>5, <1>6, <2>2 DEF EngineCreates, Returns, NoCall, SessionsTypeOK
  <2>3. QED
    BY <2>1, <2>2
<1>7. ASSUME NEW c \in Clients, EngineAnswers(c) PROVE SessionsInv'
  <2>1. CASE session[call[c].session] = "open"
    <3>1. call'[c].at = "insert" /\ call'[c].session = call[c].session
      BY <1>7, <2>1, <1>2 DEF EngineAnswers, Goes, SessionsTypeOK, CallType
    <3>2. \A d \in Clients : d # c => call'[d] = call[d]
      BY <1>7, <2>1 DEF EngineAnswers, Goes, SessionsTypeOK
    <3>3. UNCHANGED <<owner, told>> /\ call[c].at = "starting"
      BY <1>7 DEF EngineAnswers
    <3>4. QED
      BY <1>1, <1>2, <3>1, <3>2, <3>3 DEF SessionsInv, ToldSessionsOwned
  <2>2. CASE session[call[c].session] # "open"
    BY <1>5, <1>7, <2>2 DEF EngineAnswers, Returns, NoCall, SessionsTypeOK
  <2>3. QED
    BY <2>1, <2>2
<1>8. ASSUME NEW c \in Clients, InsertOwner(c) PROVE SessionsInv'
  <2> DEFINE s == call[c].session
  <2>1. /\ s \in Sessions /\ session[s] # "unused" /\ c # NoClient
        /\ owner'[s] = c /\ \A x \in Sessions : x # s => owner'[x] = owner[x]
        /\ told' \subseteq told \cup {s}
        /\ \A d \in Clients : d # c => call'[d] = call[d]
    BY <1>8, <1>2 DEF InsertOwner, Goes, Returns, SessionsTypeOK, SessionsInv
  <2>2. \/ call'[c].at = "none"
        \/ call'[c].at = "link" /\ call'[c].session = s
    BY <1>8, <1>2 DEF InsertOwner, Goes, Returns, NoCall, SessionsTypeOK, CallType
  <2> HIDE DEF s
  <2>3. QED
    BY <1>1, <1>2, <2>1, <2>2 DEF SessionsInv, ToldSessionsOwned
<1>9. ASSUME NEW c \in Clients, Link(c) PROVE SessionsInv'
  <2>1. /\ call[c].at = "link" /\ told' = told \cup {call[c].session}
        /\ UNCHANGED owner /\ call'[c].at = "none"
        /\ \A d \in Clients : d # c => call'[d] = call[d]
    BY <1>9 DEF Link, Returns, NoCall, SessionsTypeOK
  <2>2. QED
    BY <1>1, <1>2, <2>1 DEF SessionsInv, ToldSessionsOwned
<1>10. ASSUME NEW c \in Clients, EngineDeletes(c) PROVE SessionsInv'
  <2>1. CASE IsLive(call[c].session)
    <3>1. /\ call'[c].at = "forget" /\ call'[c].session = call[c].session
          /\ session'[call[c].session] = "closed"
      BY <1>10, <2>1, <1>2 DEF EngineDeletes, Goes, SessionsTypeOK, CallType
    <3>2. (\A d \in Clients : d # c => call'[d] = call[d]) /\ UNCHANGED <<owner, told>>
      BY <1>10, <2>1 DEF EngineDeletes, Goes, SessionsTypeOK
    <3>3. QED
      BY <1>1, <1>2, <3>1, <3>2 DEF SessionsInv, ToldSessionsOwned
  <2>2. CASE ~IsLive(call[c].session)
    BY <1>5, <1>10, <2>2 DEF EngineDeletes, Returns, NoCall, SessionsTypeOK
  <2>3. QED
    BY <2>1, <2>2
<1>11. ASSUME NEW c \in Clients, Forget(c) PROVE SessionsInv'
  <2> DEFINE s == call[c].session
  <2>1. s \in Sessions /\ session[s] = "closed"
    BY <1>11, <1>2 DEF Forget, MayForget, SessionsInv
  <2>2. session'[s] = "closed"
    BY <1>11, <2>1 DEF Forget, engineVars
  <2>3. call'[c].at = "none" /\ \A d \in Clients : d # c => call'[d] = call[d]
    BY <1>11 DEF Forget, Returns, NoCall, SessionsTypeOK
  <2>4. UNCHANGED <<session, told>> /\ \A x \in Sessions : x # s => owner'[x] = owner[x]
    BY <1>11 DEF Forget, engineVars, SessionsTypeOK
  <2>5. QED
    BY <1>2, <2>1, <2>2, <2>3, <2>4 DEF SessionsInv, ToldSessionsOwned, IsLive
<1>12. ASSUME NEW c \in Clients,
              \/ Create(c) \/ EngineFinds(c) \/ EngineRuns(c) \/ EngineFinishes(c) \/ CallFails(c)
              \/ \E s \in Sessions : Execute(c, s) \/ Delete(c, s)
              \/ \E h \in Scrapes : Interact(c, h) \/ InteractDelete(c, h)
       PROVE  SessionsInv'
  <2>1. UNCHANGED <<owner, told>>
    BY <1>12 DEF Create, EngineFinds, EngineRuns, EngineFinishes, CallFails, Execute, Delete,
                 Interact, InteractDelete, Ask
  <2>2. \A d \in Clients : d # c => call'[d] = call[d]
    BY <1>12 DEF Create, EngineFinds, EngineRuns, EngineFinishes, CallFails, Execute, Delete,
                 Interact, InteractDelete, Ask, Goes, Returns, SessionsTypeOK
  <2>3. call'[c].at \in {"none", "post", "queued", "running", "execute", "delete"}
    BY <1>12, <1>2 DEF Create, EngineFinds, EngineRuns, EngineFinishes, CallFails, Execute, Delete,
                 Interact, InteractDelete, Ask, Goes, Returns, NoCall, Calling, SessionsTypeOK,
                 CallType
  <2>4. QED
    BY <1>5, <2>1, <2>2, <2>3
<1>13. QED
  BY <1>3, <1>4, <1>6, <1>7, <1>8, <1>9, <1>10, <1>11, <1>12
     DEF SessionsNext, sessionVars, engineVars, apiVars, Cleanup, EngineRestart, GoesIdle,
         Expires, Starts, ScrapeRendered, HandoffAges

(* Whoever was given a session can use and delete it until the engine      *)
(* drops it.                                                               *)
THEOREM SessionsTheorem == SessionsSpec => []ToldSessionsOwned
<1>1. SessionsInit => SessionsInv
  BY DEF SessionsInit, NoCalls, NoCall, SessionsInv, ToldSessionsOwned
<1>2. SessionsInv => ToldSessionsOwned
  BY DEF SessionsInv
<1>3. QED
  BY <1>1, <1>2, SessionsTypeCorrect, SessionsStep, PTL DEF SessionsSpec

-----------------------------------------------------------------------------
(* The limits of a key: permits and entries.                               *)

(* An entry of the table is a record of three fields. *)
IsEntry(e) == e = [requests |-> e.requests, active |-> e.active, seen |-> e.seen]

(* The table holds entries, and the number of active requests of a key is  *)
(* the number of its permits.                                              *)
LimiterInv ==
    /\ permits \in [ApiKeys -> Nat]
    /\ entries = [k \in DOMAIN entries |-> entries[k]]
    /\ \A k \in DOMAIN entries : IsEntry(entries[k])
    /\ ActiveExact

(* What the prune drops has no permit out, and what it leaves of the entry *)
(* of a key has the right number of active requests.                       *)
LEMMA EntryActive ==
  ASSUME LimiterInv, NEW k \in ApiKeys, NEW t
  PROVE  /\ IsEntry(EntryOf(k, t))
         /\ EntryOf(k, t).active = permits[k]
         /\ k \notin Retained(t) => permits[k] = 0
<1>1. k \in DOMAIN entries /\ k \notin Retained(t) => permits[k] = 0
  BY DEF LimiterInv, ActiveExact, Retained, Kept
<1>2. QED
  BY <1>1 DEF LimiterInv, ActiveExact, EntryOf, EmptyEntry, IsEntry, Retained

(* Writing the pruned table with an entry of the right number back.        *)
LEMMA TableWritten ==
  ASSUME LimiterInv, NEW k \in ApiKeys, NEW t, NEW entry, IsEntry(entry),
         permits' = [permits EXCEPT ![k] = entry.active], entry.active \in Nat,
         entries' = Table(k, t, entry)
  PROVE  LimiterInv'
<1>1. /\ DOMAIN entries' = Retained(t) \cup {k} /\ entries'[k] = entry
      /\ \A x \in Retained(t) \ {k} : entries'[x] = entries[x]
      /\ entries' = [x \in DOMAIN entries' |-> entries'[x]]
  BY DEF Table
<1>2. Retained(t) \subseteq DOMAIN entries
  BY DEF Retained
<1>3. permits' \in [ApiKeys -> Nat] /\ permits'[k] = entry.active
      /\ \A x \in ApiKeys \ {k} : permits'[x] = permits[x]
  BY DEF LimiterInv
<1>4. ActiveExact'
  BY <1>1, <1>2, <1>3, EntryActive DEF LimiterInv, ActiveExact
<1>5. QED
  BY <1>1, <1>2, <1>3, <1>4 DEF LimiterInv

(* Counting a request out of an entry changes two of its fields. *)
LEMMA EntryReleased ==
  ASSUME NEW e, IsEntry(e), NEW active, NEW seen
  PROVE  [e EXCEPT !.active = active, !.seen = seen]
            = [requests |-> e.requests, active |-> active, seen |-> seen]
<1>1. PICK x, y, z : e = [requests |-> x, active |-> y, seen |-> z]
  BY DEF IsEntry
<1> DEFINE f == [e EXCEPT !.active = active]
<1>2. f = [requests |-> x, active |-> active, seen |-> z]
  BY <1>1
<1>3. [e EXCEPT !.active = active, !.seen = seen] = [f EXCEPT !.seen = seen]
  OBVIOUS
<1> HIDE DEF f
<1>4. [f EXCEPT !.seen = seen] = [requests |-> x, active |-> active, seen |-> seen]
  BY <1>2
<1>5. e.requests = x
  BY <1>1
<1>6. QED
  BY <1>3, <1>4, <1>5

(* The active count of a key is exact, for any number of keys and requests,*)
(* any limits and any times at which clocks are read and locks taken.      *)
THEOREM ActiveTheorem == LimiterSpec => []ActiveExact
<1>1. LimiterInit => LimiterInv
  BY DEF LimiterInit, LimiterInv, ActiveExact
<1>2. LimiterInv /\ [LimiterNext]_limiterVars => LimiterInv'
  <2> SUFFICES ASSUME LimiterInv, [LimiterNext]_limiterVars PROVE LimiterInv'
    OBVIOUS
  <2>1. ASSUME NEW k \in ApiKeys, NEW t, Admit(k, t) PROVE LimiterInv'
    <3> DEFINE old == EntryOf(k, t)
               entry == [requests |-> Append(old.requests, t), active |-> old.active + 1, seen |-> t]
    <3>1. IsEntry(entry) /\ entry.active = permits[k] + 1 /\ permits[k] \in Nat
      BY EntryActive DEF IsEntry, LimiterInv
    <3>2. entries' = Table(k, t, entry) /\ permits' = [permits EXCEPT ![k] = permits[k] + 1]
      BY <2>1 DEF Admit
    <3> HIDE DEF entry
    <3>3. permits' = [permits EXCEPT ![k] = entry.active] /\ entry.active \in Nat
      BY <3>1, <3>2
    <3>4. QED
      BY <3>1, <3>2, <3>3, TableWritten
  <2>2. ASSUME NEW k \in ApiKeys, NEW t, RefuseBusy(k, t) \/ RefuseRate(k, t) PROVE LimiterInv'
    <3>1. entries' = Table(k, t, EntryOf(k, t)) /\ permits' = permits
      BY <2>2 DEF RefuseBusy, RefuseRate
    <3>2. /\ IsEntry(EntryOf(k, t)) /\ EntryOf(k, t).active = permits[k]
          /\ permits' = [permits EXCEPT ![k] = permits[k]] /\ permits[k] \in Nat
      BY <3>1, EntryActive DEF LimiterInv
    <3>3. QED
      BY <3>1, <3>2, TableWritten
  <2>3. ASSUME NEW k \in ApiKeys, Release(k) PROVE LimiterInv'
    <3>1. /\ permits[k] \in Nat \ {0}
          /\ k \in DOMAIN entries /\ entries[k].active = permits[k] /\ IsEntry(entries[k])
      BY <2>3 DEF Release, LimiterInv, ActiveExact
    <3> DEFINE entry == [requests |-> entries[k].requests, active |-> permits[k] - 1, seen |-> now]
    <3>2. entries' = [entries EXCEPT ![k] = entry]
      <4> DEFINE e == entries[k]
                 less == IF e.active = 0 THEN 0 ELSE e.active - 1
      <4>1. entries' = [entries EXCEPT ![k].active = less, ![k].seen = now]
        BY <2>3, <3>1 DEF Release, LimiterInv
      <4>2. less = permits[k] - 1
        BY <3>1
      <4>3. e = [requests |-> e.requests, active |-> e.active, seen |-> e.seen]
        BY <3>1 DEF IsEntry
      <4> HIDE DEF less
      <4>4. entries' = [entries EXCEPT ![k] = [e EXCEPT !.active = less, !.seen = now]]
        BY <3>1, <4>1 DEF LimiterInv
      <4>5. [e EXCEPT !.active = less, !.seen = now] = entry
        BY <3>1, <4>2, EntryReleased
      <4>6. QED
        BY <4>4, <4>5
    <3>3. IsEntry(entry) /\ entry.active = permits[k] - 1
      BY DEF IsEntry
    <3>4. permits' = [permits EXCEPT ![k] = permits[k] - 1]
      BY <2>3 DEF Release
    <3> HIDE DEF entry
    <3>5. /\ DOMAIN entries' = DOMAIN entries /\ entries'[k] = entry
          /\ \A x \in DOMAIN entries \ {k} : entries'[x] = entries[x]
          /\ entries' = [x \in DOMAIN entries' |-> entries'[x]]
      BY <3>1, <3>2 DEF LimiterInv
    <3>6. QED
      BY <3>1, <3>3, <3>4, <3>5 DEF LimiterInv, ActiveExact
  <2>4. ASSUME UNCHANGED <<entries, permits>> PROVE LimiterInv'
    BY <2>4 DEF LimiterInv, ActiveExact
  <2>5. QED
    BY <2>1, <2>2, <2>3, <2>4 DEF LimiterNext, Tick, limiterVars
<1>3. LimiterInv => ActiveExact
  BY DEF LimiterInv
<1>4. QED
  BY <1>1, <1>2, <1>3, PTL DEF LimiterSpec

-----------------------------------------------------------------------------
(* The window of a key: its admissions and its entry.                      *)

LEMMA DivBelow ==
  ASSUME NEW a \in Nat, NEW b \in Nat, b > 0
  PROVE  (a \div b) \in Nat /\ (a \div b) * b <= a
  OBVIOUS

(* The larger of two numbers. *)
LEMMA MaxOfTwo ==
  ASSUME NEW a \in Int, NEW b \in Int
  PROVE  /\ Max({a, b}) \in {a, b}
         /\ Max({a, b}) >= a /\ Max({a, b}) >= b
<1>1. \E x \in {a, b} : \A y \in {a, b} : x >= y
  <2>1. CASE a >= b
    BY <2>1
  <2>2. CASE b >= a
    BY <2>2
  <2>3. QED
    BY <2>1, <2>2
<1>2. QED
  BY <1>1 DEF Max

(* What Since leaves of times it has dropped at the front only: all it     *)
(* dropped is at least `size` old, and the first it leaves is not.         *)
LEMMA SinceSuffix ==
  ASSUME NEW times \in Seq(Nat), NEW t \in Nat, NEW size \in Nat
  PROVE  \E d \in 0 .. Len(times) :
            /\ Since(times, t, size) \in Seq(Nat)
            /\ Len(Since(times, t, size)) = Len(times) - d
            /\ \A i \in 1 .. Len(times) - d : Since(times, t, size)[i] = times[d + i]
            /\ \A i \in 1 .. d : t - times[i] >= size
            /\ d < Len(times) => t - times[d + 1] < size
<1> DEFINE recent == {i \in DOMAIN times : t - times[i] < size}
           n == Len(times)
<1>1. n \in Nat /\ DOMAIN times = 1 .. n /\ \A i \in 1 .. n : times[i] \in Nat
  OBVIOUS
<1>2. CASE recent = {}
  <2>1. Since(times, t, size) = << >>
    BY <1>2 DEF Since
  <2>2. \A i \in 1 .. n : t - times[i] >= size
    BY <1>1, <1>2
  <2>3. n \in 0 .. n /\ n - n = 0 /\ ~(n < n) /\ 1 .. 0 = {}
    BY <1>1
  <2>4. << >> \in Seq(Nat) /\ Len(<< >>) = 0
    OBVIOUS
  <2>5. QED
    BY <2>1, <2>2, <2>3, <2>4
<1>3. CASE recent # {}
  <2> DEFINE m == Min(recent)
             s == Since(times, t, size)
  <2>1. recent \subseteq Nat
    BY <1>1
  <2>2. m \in recent /\ \A i \in recent : m <= i
    BY <1>3, <2>1, LeastElement DEF Min
  <2>3. s = SubSeq(times, m, n)
    BY <1>3 DEF Since
  <2>4. m \in 1 .. n /\ t - times[m] < size
    BY <1>1, <2>2
  <2>5. \A i \in 1 .. m - 1 : t - times[i] >= size
    <3> SUFFICES ASSUME NEW i \in 1 .. m - 1 PROVE t - times[i] >= size
      OBVIOUS
    <3> HIDE DEF m
    <3>1. i \in DOMAIN times /\ i < m /\ times[i] \in Nat
      BY <1>1, <2>4
    <3>2. i \notin recent
      BY <2>1, <2>2, <3>1
    <3>3. QED
      BY <3>1, <3>2
  <2> HIDE DEF m, s, recent
  <2>6. /\ s \in Seq(Nat) /\ Len(s) = n - m + 1
        /\ \A i \in 1 .. n - m + 1 : s[i] = times[m + i - 1]
    <3>1. \A i \in m .. n : times[i] \in Nat
      BY <1>1, <2>4
    <3>2. m \in Int /\ n \in Int /\ m <= n
      BY <1>1, <2>4
    <3>3. QED
      BY <2>3, <3>1, <3>2, SubSeqProperties
  <2> DEFINE d == m - 1
  <2>7. d \in 0 .. n /\ d + 1 = m /\ n - d = n - m + 1
    BY <1>1, <2>4
  <2>8. \A i \in 1 .. n - d : s[i] = times[d + i]
    <3>1. \A i \in 1 .. n - d : m + i - 1 = d + i
      BY <2>4, <1>1
    <3>2. QED
      BY <2>6, <2>7, <3>1
  <2> HIDE DEF d
  <2>9. \A i \in 1 .. d : t - times[i] >= size
    BY <2>5 DEF d
  <2>10. QED
    BY <2>4, <2>6, <2>7, <2>8, <2>9 DEF s
<1>4. QED
  BY <1>2, <1>3


RequestsOf(k) == IF k \in DOMAIN entries THEN entries[k].requests ELSE << >>

(* The requests of an entry still cover, at its end, every admission that  *)
(* is less than Window - Lag old, each under a time at most Lag before it. *)
Covers(requests, times, moment) ==
    /\ requests \in Seq(Nat) /\ times \in Seq(Nat)
    /\ Len(times) <= Len(requests) /\ Len(requests) <= RequestsPerMinute
    /\ \A i \in 1 .. Len(requests) : requests[i] <= moment
    /\ \A i \in 1 .. Len(times) :
          /\ times[i] <= moment /\ moment < times[i] + Window - Lag
          /\ requests[Len(requests) - Len(times) + i] <= times[i]
          /\ times[i] - Lag <= requests[Len(requests) - Len(times) + i]
    /\ \A i, j \in 1 .. Len(times) : i <= j => times[i] <= times[j]

(* A key that is still to come back finds room then. *)
Opens(requests, time) ==
    time # Never =>
        /\ time \in Nat
        /\ Len(requests) < RequestsPerMinute \/ requests[1] + Window <= time

(* A key is seen no longer than Lag before an admission. *)
SeenSince(seen, times) ==
    seen \in Nat /\ \A i \in 1 .. Len(times) : times[i] <= seen + Lag

WindowInv ==
    /\ now \in Nat
    /\ admitted = [k \in ApiKeys |-> admitted[k]]
    /\ promised = [k \in ApiKeys |-> promised[k]]
    /\ entries = [k \in DOMAIN entries |-> entries[k]]
    /\ \A k \in DOMAIN entries : IsEntry(entries[k])
    /\ \A k \in ApiKeys :
          /\ Covers(RequestsOf(k), admitted[k], now)
          /\ Opens(RequestsOf(k), promised[k])
          /\ k \in DOMAIN entries => SeenSince(entries[k].seen, admitted[k])

LEMMA LimiterNumbers ==
    /\ RequestsPerMinute \in Nat \ {0} /\ Window \in Nat \ {0} /\ Retention \in Nat
    /\ Lag \in Nat /\ Lag < Window /\ Window + Lag <= Retention /\ Never \notin Nat
  BY LimiterAssumption DEF Window, Retention

(* What leaves the window at the front is too old for an admission. *)
LEMMA PopKeeps ==
  ASSUME NEW requests, NEW times, NEW moment \in Nat, Covers(requests, times, moment),
         NEW t \in Nat, t <= moment
  PROVE  /\ Covers(Current(requests, t), times, moment)
         /\ Current(requests, t) = requests \/ Len(Current(requests, t)) < RequestsPerMinute
         /\ Current(requests, t) # << >> => t - Current(requests, t)[1] < Window
<1> DEFINE n == Len(requests)
           g == Len(requests) - Len(times)
           s == Current(requests, t)
<1>1. requests \in Seq(Nat) /\ times \in Seq(Nat) /\ n \in Nat /\ Len(times) \in Nat
      /\ g \in Nat /\ n <= RequestsPerMinute
  BY DEF Covers
<1>2. PICK d \in 0 .. n :
            /\ s \in Seq(Nat) /\ Len(s) = n - d
            /\ \A i \in 1 .. n - d : s[i] = requests[d + i]
            /\ \A i \in 1 .. d : t - requests[i] >= Window
            /\ d < n => t - requests[d + 1] < Window
  BY <1>1, LimiterNumbers, SinceSuffix DEF Current
<1>3. /\ \A i \in 1 .. n : requests[i] \in Nat /\ requests[i] <= moment
      /\ \A i \in 1 .. Len(times) :
            /\ times[i] \in Nat /\ times[i] <= moment /\ moment < times[i] + Window - Lag
            /\ requests[g + i] <= times[i] /\ times[i] - Lag <= requests[g + i]
      /\ Len(times) = n - g
  <2>1. /\ \A i \in 1 .. n : requests[i] \in Nat
        /\ \A i \in 1 .. Len(times) : times[i] \in Nat
        /\ Len(times) = n - g
    BY <1>1
  <2>2. /\ \A i \in 1 .. n : requests[i] <= moment
        /\ \A i \in 1 .. Len(times) :
              /\ times[i] <= moment /\ moment < times[i] + Window - Lag
              /\ requests[g + i] <= times[i] /\ times[i] - Lag <= requests[g + i]
    BY Zenon DEF Covers
  <2>3. QED
    BY <2>1, <2>2
<1>4. n \in Nat /\ g \in Nat /\ Len(times) \in Nat /\ Len(times) = n - g
  BY <1>1
<1>5. Len(s) = n - d /\ d \in Nat /\ d <= n
  BY <1>1, <1>2
<1> HIDE DEF s, n, g
<1>6. d <= g
  <2> SUFFICES ASSUME d > g PROVE FALSE
    BY <1>1
  <2>1. g + 1 \in 1 .. d /\ g + 1 \in 1 .. n /\ 1 \in 1 .. Len(times)
    BY <1>4, <1>5
  <2>2. t - requests[g + 1] >= Window /\ requests[g + 1] \in Nat
    BY <1>2, <1>3, <2>1
  <2>3. moment < times[1] + Window - Lag /\ times[1] - Lag <= requests[g + 1] /\ times[1] \in Nat
    BY <1>3, <2>1
  <2>4. QED
    BY <2>2, <2>3, LimiterNumbers
<1>7. \A i \in 1 .. Len(times) : s[Len(s) - Len(times) + i] = requests[g + i]
  <2> SUFFICES ASSUME NEW i \in 1 .. Len(times)
               PROVE  s[Len(s) - Len(times) + i] = requests[g + i]
    OBVIOUS
  <2>1. Len(s) - Len(times) + i \in 1 .. n - d /\ d + (Len(s) - Len(times) + i) = g + i
    BY <1>4, <1>5, <1>6
  <2>2. QED
    BY <1>2, <2>1
<1>8. \A i \in 1 .. Len(s) : s[i] <= moment
  <2> SUFFICES ASSUME NEW i \in 1 .. Len(s) PROVE s[i] <= moment
    OBVIOUS
  <2>1. d + i \in 1 .. n /\ s[i] = requests[d + i]
    BY <1>1, <1>2
  <2>2. QED
    BY <1>3, <2>1
<1>9. Covers(s, times, moment)
  <2>1. Len(times) <= Len(s) /\ Len(s) <= RequestsPerMinute
    BY <1>1, <1>2, <1>6, <1>3, LimiterNumbers
  <2>2. \A i, j \in 1 .. Len(times) : i <= j => times[i] <= times[j]
    BY DEF Covers
  <2>3. QED
    BY <1>1, <1>2, <1>7, <1>8, <1>3, <2>1, <2>2 DEF Covers
<1>10. s = requests \/ Len(s) < RequestsPerMinute
  <2>1. CASE d = 0
    <3>1. \A i \in 1 .. Len(s) : s[i] = requests[i]
      BY <1>1, <1>2, <2>1
    <3>2. Len(s) = Len(requests)
      BY <1>1, <1>2, <2>1 DEF n
    <3>3. QED
      BY <1>1, <1>2, <3>1, <3>2, SeqEqual
  <2>2. CASE d # 0
    BY <1>1, <1>2, <2>2, LimiterNumbers
  <2>3. QED
    BY <2>1, <2>2
<1>11. s # << >> => t - s[1] < Window
  <2> SUFFICES ASSUME s # << >> PROVE t - s[1] < Window
    OBVIOUS
  <2>1. Len(s) > 0
    BY <1>2
  <2>2. d < n /\ s[1] = requests[d + 1]
    BY <1>1, <1>2, <2>1
  <2>3. QED
    BY <1>2, <2>2
<1>12. QED
  BY <1>9, <1>10, <1>11 DEF s

(* Whom the prune forgets has no admission that counts. *)
LEMMA PruneKeeps ==
  ASSUME WindowInv, NEW k \in ApiKeys, NEW t \in ReadTimes,
         k \in DOMAIN entries, k \notin Retained(t)
  PROVE  admitted[k] = << >>
<1>1. /\ entries[k].seen \in Nat /\ admitted[k] \in Seq(Nat)
      /\ \A i \in 1 .. Len(admitted[k]) : admitted[k][i] <= entries[k].seen + Lag
                                         /\ now < admitted[k][i] + Window - Lag
  BY DEF WindowInv, SeenSince, Covers
<1>2. t - entries[k].seen >= Retention
  BY <1>1, LimiterNumbers DEF Retained, Kept, ReadTimes, WindowInv
<1>3. 1 \in 1 .. Len(admitted[k]) => FALSE
  <2> SUFFICES ASSUME 1 \in 1 .. Len(admitted[k]) PROVE FALSE
    OBVIOUS
  <2>1. admitted[k][1] \in Nat /\ t \in Nat /\ now \in Nat /\ t <= now
    BY <1>1, LimiterNumbers DEF ReadTimes, WindowInv
  <2>2. admitted[k][1] <= entries[k].seen + Lag /\ now < admitted[k][1] + Window - Lag
    BY <1>1
  <2> DEFINE a == admitted[k][1]
             seen == entries[k].seen
  <2>3. /\ a \in Nat /\ seen \in Nat /\ a <= seen + Lag /\ now < a + Window - Lag
        /\ t - seen >= Retention
    BY <1>1, <1>2, <2>1, <2>2
  <2> HIDE DEF a, seen
  <2>4. QED
    BY <2>1, <2>3, LimiterNumbers
<1>4. QED
  BY <1>1, <1>3

LEMMA CoversNothing ==
  ASSUME NEW moment
  PROVE  Covers(<< >>, << >>, moment)
  BY LimiterNumbers DEF Covers

(* The entry a request finds after the prune and the pops. *)
LEMMA EntryFound ==
  ASSUME WindowInv, NEW k \in ApiKeys, NEW t \in ReadTimes
  PROVE  /\ IsEntry(EntryOf(k, t))
         /\ Covers(EntryOf(k, t).requests, admitted[k], now)
         /\ EntryOf(k, t).requests = RequestsOf(k) \/ Len(EntryOf(k, t).requests) < RequestsPerMinute
         /\ EntryOf(k, t).requests # << >> => t - EntryOf(k, t).requests[1] < Window
         /\ k \in Retained(t) => EntryOf(k, t).seen = entries[k].seen /\ k \in DOMAIN entries
         /\ k \notin Retained(t) => /\ EntryOf(k, t).active = 0
                                   /\ Len(EntryOf(k, t).requests) < RequestsPerMinute
<1> DEFINE old == IF k \in Retained(t) THEN entries[k] ELSE EmptyEntry
<1>1. t \in Nat /\ t <= now /\ now \in Nat
  BY LimiterNumbers DEF ReadTimes, WindowInv
<1>2. IsEntry(old) /\ k \in Retained(t) => k \in DOMAIN entries
  BY DEF IsEntry, EmptyEntry, Retained, WindowInv
<1>3. k \in Retained(t) => old = entries[k] /\ old.requests = RequestsOf(k)
  BY <1>2 DEF RequestsOf, Retained
<1>4. k \notin Retained(t) => old.requests = << >> /\ old.active = 0 /\ admitted[k] = << >>
  <2> SUFFICES ASSUME k \notin Retained(t)
               PROVE  old.requests = << >> /\ old.active = 0 /\ admitted[k] = << >>
    OBVIOUS
  <2>1. CASE k \in DOMAIN entries
    BY <2>1, PruneKeeps DEF EmptyEntry
  <2>2. CASE k \notin DOMAIN entries
    <3>1. Covers(<< >>, admitted[k], now)
      BY <2>2 DEF WindowInv, RequestsOf
    <3>2. admitted[k] \in Seq(Nat) /\ Len(admitted[k]) <= Len(<< >>) /\ Len(<< >>) = 0
      BY <3>1 DEF Covers
    <3>3. QED
      BY <3>2 DEF EmptyEntry
  <2>3. QED
    BY <2>1, <2>2
<1>5. Covers(old.requests, admitted[k], now)
  <2>1. k \notin Retained(t) => Covers(old.requests, admitted[k], now)
    BY <1>4, CoversNothing
  <2>2. QED
    BY <1>3, <2>1 DEF WindowInv
<1>6. /\ IsEntry(EntryOf(k, t))
      /\ EntryOf(k, t).requests = Current(old.requests, t)
      /\ EntryOf(k, t).active = old.active /\ EntryOf(k, t).seen = old.seen
  <2>1. EntryOf(k, t) = [old EXCEPT !.requests = Current(old.requests, t)]
    BY DEF EntryOf
  <2>2. old = [requests |-> old.requests, active |-> old.active, seen |-> old.seen]
    BY DEF IsEntry, EmptyEntry, Retained, WindowInv
  <2> HIDE DEF old
  <2>3. QED
    BY <2>1, <2>2 DEF IsEntry
<1> HIDE DEF old
<1>7. /\ Covers(Current(old.requests, t), admitted[k], now)
      /\ Current(old.requests, t) = old.requests \/ Len(Current(old.requests, t)) < RequestsPerMinute
      /\ Current(old.requests, t) # << >> => t - Current(old.requests, t)[1] < Window
  BY <1>1, <1>5, PopKeeps
<1>8. k \notin Retained(t) => Len(Current(old.requests, t)) < RequestsPerMinute
  <2>1. old.requests = << >> => Len(old.requests) = 0
    OBVIOUS
  <2>2. QED
    BY <1>4, <1>7, <2>1, LimiterNumbers
<1>9. QED
  BY <1>2, <1>3, <1>4, <1>6, <1>7, <1>8 DEF Retained

(* Writing the entry of k back leaves the other keys as they are, or       *)
(* forgotten with nothing to remember.                                     *)
LEMMA WindowWritten ==
  ASSUME WindowInv, NEW k \in ApiKeys, NEW t \in ReadTimes, NEW entry, NEW times, NEW time,
         IsEntry(entry), entries' = Table(k, t, entry), now' = now,
         admitted' = [admitted EXCEPT ![k] = times], promised' = [promised EXCEPT ![k] = time],
         Covers(entry.requests, times, now), Opens(entry.requests, time),
         SeenSince(entry.seen, times)
  PROVE  WindowInv'
<1>1. /\ DOMAIN entries' = Retained(t) \cup {k} /\ entries'[k] = entry
      /\ \A x \in Retained(t) \ {k} : entries'[x] = entries[x]
      /\ entries' = [x \in DOMAIN entries' |-> entries'[x]]
  BY DEF Table
<1>2. Retained(t) \subseteq DOMAIN entries
  BY DEF Retained
<1>3. /\ admitted' = [x \in ApiKeys |-> admitted'[x]] /\ promised' = [x \in ApiKeys |-> promised'[x]]
      /\ admitted'[k] = times /\ promised'[k] = time
      /\ \A x \in ApiKeys \ {k} : admitted'[x] = admitted[x] /\ promised'[x] = promised[x]
  BY DEF WindowInv
<1>4. \A x \in DOMAIN entries' : IsEntry(entries'[x])
  BY <1>1, <1>2 DEF WindowInv
<1>5. RequestsOf(k)' = entry.requests
  BY <1>1 DEF RequestsOf
<1>6. ASSUME NEW x \in ApiKeys \ {k}
      PROVE  /\ Covers(RequestsOf(x)', admitted'[x], now)
             /\ Opens(RequestsOf(x)', promised'[x])
             /\ x \in DOMAIN entries' => SeenSince(entries'[x].seen, admitted'[x])
  <2>1. CASE x \in Retained(t)
    <3>1. RequestsOf(x)' = RequestsOf(x) /\ entries'[x] = entries[x]
      BY <1>1, <1>2, <2>1 DEF RequestsOf
    <3>2. QED
      BY <1>2, <1>3, <2>1, <3>1 DEF WindowInv
  <2>2. CASE x \notin Retained(t)
    <3>1. x \notin DOMAIN entries' /\ RequestsOf(x)' = << >>
      BY <1>1, <2>2 DEF RequestsOf
    <3>2. x \notin DOMAIN entries => RequestsOf(x) = << >>
      BY DEF RequestsOf
    <3>3. x \in DOMAIN entries => admitted[x] = << >>
      BY <2>2, PruneKeeps
    <3>4. Covers(<< >>, admitted[x], now)
      <4>1. CASE x \in DOMAIN entries
        BY <3>3, <4>1, CoversNothing
      <4>2. CASE x \notin DOMAIN entries
        BY <3>2, <4>2 DEF WindowInv
      <4>3. QED
        BY <4>1, <4>2
    <3>5. Opens(<< >>, promised[x])
      BY LimiterNumbers DEF WindowInv, Opens
    <3>6. QED
      BY <1>3, <3>1, <3>4, <3>5
  <2>3. QED
    BY <2>1, <2>2
<1>7. /\ Covers(RequestsOf(k)', admitted'[k], now) /\ Opens(RequestsOf(k)', promised'[k])
      /\ SeenSince(entries'[k].seen, admitted'[k])
  BY <1>1, <1>3, <1>5
<1>8. \A x \in ApiKeys :
         /\ Covers(RequestsOf(x)', admitted'[x], now')
         /\ Opens(RequestsOf(x)', promised'[x])
         /\ x \in DOMAIN entries' => SeenSince(entries'[x].seen, admitted'[x])
  <2> SUFFICES ASSUME NEW x \in ApiKeys
               PROVE  /\ Covers(RequestsOf(x)', admitted'[x], now)
                      /\ Opens(RequestsOf(x)', promised'[x])
                      /\ x \in DOMAIN entries' => SeenSince(entries'[x].seen, admitted'[x])
    OBVIOUS
  <2>1. CASE x = k
    BY <1>7, <2>1
  <2>2. CASE x # k
    BY <1>6, <2>2
  <2>3. QED
    BY <2>1, <2>2
<1>9. now' \in Nat
  BY DEF WindowInv
<1>10. QED
  BY <1>1, <1>3, <1>4, <1>8, <1>9 DEF WindowInv

(* Whole seconds, rounded up and counted from the front request, reach the *)
(* end of its window.                                                      *)
LEMMA RetryReaches ==
  ASSUME NEW moment \in Nat, NEW t \in Nat, NEW first \in Nat, t <= moment, first <= moment,
         NEW wait, wait = Max({1, WindowSeconds - Max({0, t - first}) \div TicksPerSecond})
  PROVE  /\ moment + wait * TicksPerSecond \in Nat
         /\ first + Window <= moment + wait * TicksPerSecond
<1> DEFINE e == Max({0, t - first})
           d == e \div TicksPerSecond
<1>1. TicksPerSecond \in Nat /\ TicksPerSecond > 0 /\ WindowSeconds \in Nat
  BY LimiterAssumption
<1>2. e \in Nat /\ (e = t - first \/ (e = 0 /\ t <= first))
  <2>1. t - first \in Int /\ 0 \in Int
    OBVIOUS
  <2>2. e \in {0, t - first} /\ e >= 0 /\ e >= t - first
    BY <2>1, MaxOfTwo
  <2>3. QED
    BY <2>2
<1> HIDE DEF e
<1>3. d \in Nat /\ d * TicksPerSecond <= e
  BY <1>1, <1>2, DivBelow
<1> HIDE DEF d
<1>4. wait \in Int /\ wait >= 1 /\ wait >= WindowSeconds - d
  <2>1. wait = Max({1, WindowSeconds - d}) /\ 1 \in Int /\ WindowSeconds - d \in Int
    BY <1>1, <1>3 DEF d, e
  <2>2. wait \in {1, WindowSeconds - d} /\ wait >= 1 /\ wait >= WindowSeconds - d
    BY <2>1, MaxOfTwo
  <2>3. QED
    BY <2>1, <2>2
<1>5. wait * TicksPerSecond >= (WindowSeconds - d) * TicksPerSecond
  BY <1>1, <1>3, <1>4
<1>6. (WindowSeconds - d) * TicksPerSecond = Window - d * TicksPerSecond
  BY <1>1, <1>3 DEF Window
<1>7. wait * TicksPerSecond \in Nat /\ d * TicksPerSecond \in Nat /\ Window \in Nat
  BY <1>1, <1>3, <1>4, LimiterNumbers
<1>8. QED
  BY <1>2, <1>3, <1>5, <1>6, <1>7

(* An admission enters the entry and the history together. *)
LEMMA AdmissionCovered ==
  ASSUME NEW requests, NEW times, NEW moment \in Nat, Covers(requests, times, moment),
         Len(requests) < RequestsPerMinute,
         NEW t \in Nat, t <= moment, moment - Lag <= t
  PROVE  /\ Covers(Append(requests, t), Append(times, moment), moment)
         /\ SeenSince(t, Append(times, moment))
<1> DEFINE n == Len(requests)
           l == Len(times)
           r == Append(requests, t)
           s == Append(times, moment)
<1>1. /\ requests \in Seq(Nat) /\ times \in Seq(Nat)
      /\ n \in Nat /\ l \in Nat /\ l <= n /\ n <= RequestsPerMinute
  BY DEF Covers
<1>2. /\ \A i \in 1 .. n : requests[i] <= moment
      /\ \A i \in 1 .. l :
            /\ times[i] \in Nat /\ times[i] <= moment /\ moment < times[i] + Window - Lag
            /\ requests[n - l + i] <= times[i] /\ times[i] - Lag <= requests[n - l + i]
      /\ \A i, j \in 1 .. l : i <= j => times[i] <= times[j]
  <2>1. /\ \A i \in 1 .. l : times[i] \in Nat
        /\ \A i \in 1 .. n : requests[i] \in Nat
    BY <1>1
  <2>2. /\ \A i \in 1 .. n : requests[i] <= moment
        /\ \A i, j \in 1 .. l : i <= j => times[i] <= times[j]
    BY Zenon DEF Covers
  <2>3. \A i \in 1 .. l :
           /\ times[i] <= moment /\ moment < times[i] + Window - Lag
           /\ requests[n - l + i] <= times[i] /\ times[i] - Lag <= requests[n - l + i]
    BY Zenon DEF Covers
  <2>4. QED
    BY Zenon, <2>1, <2>2, <2>3
<1>3. /\ r \in Seq(Nat) /\ Len(r) = n + 1 /\ r[n + 1] = t /\ \A i \in 1 .. n : r[i] = requests[i]
      /\ s \in Seq(Nat) /\ Len(s) = l + 1 /\ s[l + 1] = moment /\ \A i \in 1 .. l : s[i] = times[i]
  BY <1>1
<1> HIDE DEF r, s, n, l
<1>4. /\ \A i \in 1 .. n + 1 : i = n + 1 \/ i \in 1 .. n
      /\ \A i \in 1 .. l + 1 : i = l + 1 \/ i \in 1 .. l
      /\ (n + 1) - (l + 1) = n - l
  BY <1>1
<1>5. \A i \in 1 .. l + 1 :
         /\ s[i] <= moment /\ moment < s[i] + Window - Lag
         /\ r[n - l + i] <= s[i] /\ s[i] - Lag <= r[n - l + i]
         /\ s[i] <= t + Lag
  <2> SUFFICES ASSUME NEW i \in 1 .. l + 1
               PROVE  /\ s[i] <= moment /\ moment < s[i] + Window - Lag
                      /\ r[n - l + i] <= s[i] /\ s[i] - Lag <= r[n - l + i]
                      /\ s[i] <= t + Lag
    OBVIOUS
  <2>1. CASE i = l + 1
    <3>1. n - l + i = n + 1
      BY <1>1, <2>1
    <3>2. s[i] = moment /\ r[n - l + i] = t
      BY <1>3, <2>1, <3>1
    <3>3. QED
      BY <3>2, LimiterNumbers
  <2>2. CASE i \in 1 .. l
    <3>1. n - l + i \in 1 .. n
      BY <1>1, <2>2
    <3>2. s[i] = times[i] /\ r[n - l + i] = requests[n - l + i] /\ times[i] \in Nat
      BY <1>2, <1>3, <2>2, <3>1
    <3>3. times[i] <= moment /\ times[i] <= t + Lag
      BY <1>2, <2>2, LimiterNumbers
    <3>4. QED
      BY <1>2, <2>2, <3>2, <3>3
  <2>3. QED
    BY <1>4, <2>1, <2>2
<1>6. \A i \in 1 .. n + 1 : r[i] <= moment
  BY <1>2, <1>3, <1>4
<1>7. \A i, j \in 1 .. l + 1 : i <= j => s[i] <= s[j]
  <2> SUFFICES ASSUME NEW i \in 1 .. l + 1, NEW j \in 1 .. l + 1, i <= j PROVE s[i] <= s[j]
    OBVIOUS
  <2>1. CASE j = l + 1
    BY <1>3, <1>5, <2>1
  <2>2. CASE j \in 1 .. l
    <3>1. i \in 1 .. l
      BY <1>1, <2>2
    <3>2. QED
      BY <1>2, <1>3, <2>2, <3>1
  <2>3. QED
    BY <1>4, <2>1, <2>2
<1>8. Len(s) <= Len(r) /\ Len(r) <= RequestsPerMinute
  BY <1>1, <1>3, LimiterNumbers DEF n
<1>9. Covers(r, s, moment)
  BY <1>3, <1>4, <1>5, <1>6, <1>7, <1>8 DEF Covers
<1>10. SeenSince(t, s)
  BY <1>3, <1>5 DEF SeenSince
<1>11. QED
  BY <1>9, <1>10 DEF r, s

(* What Since forgets as time passes is the oldest of the history. *)
LEMMA TimePasses ==
  ASSUME NEW requests, NEW times, NEW moment \in Nat, Covers(requests, times, moment)
  PROVE  /\ Covers(requests, Since(times, moment + 1, Window - Lag), moment + 1)
         /\ \A seen : SeenSince(seen, times) =>
                          SeenSince(seen, Since(times, moment + 1, Window - Lag))
<1> DEFINE n == Len(requests)
           l == Len(times)
           s == Since(times, moment + 1, Window - Lag)
<1>1. /\ requests \in Seq(Nat) /\ times \in Seq(Nat)
      /\ n \in Nat /\ l \in Nat /\ l <= n /\ n <= RequestsPerMinute
  BY DEF Covers
<1>2. /\ \A i \in 1 .. n : requests[i] \in Nat /\ requests[i] <= moment
      /\ \A i \in 1 .. l :
            /\ times[i] \in Nat /\ times[i] <= moment
            /\ requests[n - l + i] <= times[i] /\ times[i] - Lag <= requests[n - l + i]
      /\ \A i, j \in 1 .. l : i <= j => times[i] <= times[j]
  <2>1. /\ \A i \in 1 .. l : times[i] \in Nat
        /\ \A i \in 1 .. n : requests[i] \in Nat
    BY <1>1
  <2>2. /\ \A i \in 1 .. n : requests[i] <= moment
        /\ \A i, j \in 1 .. l : i <= j => times[i] <= times[j]
    BY Zenon DEF Covers
  <2>3. \A i \in 1 .. l :
           /\ times[i] <= moment /\ moment < times[i] + Window - Lag
           /\ requests[n - l + i] <= times[i] /\ times[i] - Lag <= requests[n - l + i]
    BY Zenon DEF Covers
  <2>4. QED
    BY Zenon, <2>1, <2>2, <2>3
<1>3. moment + 1 \in Nat /\ Window - Lag \in Nat
  BY LimiterNumbers
<1>4. PICK d \in 0 .. l :
            /\ s \in Seq(Nat) /\ Len(s) = l - d
            /\ \A i \in 1 .. l - d : s[i] = times[d + i]
            /\ d < l => (moment + 1) - times[d + 1] < Window - Lag
  BY <1>1, <1>3, SinceSuffix
<1>5. d \in Nat /\ d <= l
  BY <1>1
<1> HIDE DEF s, n, l
<1>6. \A i \in 1 .. l - d :
         /\ d + i \in 1 .. l /\ s[i] = times[d + i]
         /\ n - (l - d) + i = n - l + (d + i)
         /\ moment + 1 < s[i] + Window - Lag
  <2> SUFFICES ASSUME NEW i \in 1 .. l - d
               PROVE  /\ d + i \in 1 .. l /\ s[i] = times[d + i]
                      /\ n - (l - d) + i = n - l + (d + i)
                      /\ moment + 1 < s[i] + Window - Lag
    OBVIOUS
  <2>1. /\ d + i \in 1 .. l /\ d + 1 \in 1 .. l /\ d + 1 <= d + i /\ d < l
        /\ n - (l - d) + i = n - l + (d + i)
    BY <1>1, <1>5
  <2>2. s[i] = times[d + i]
    BY <1>4
  <2>3. times[d + 1] \in Nat /\ times[d + i] \in Nat /\ times[d + 1] <= times[d + i]
    BY <1>2, <2>1
  <2>4. (moment + 1) - times[d + 1] < Window - Lag
    BY <1>4, <2>1
  <2>5. moment + 1 < times[d + i] + Window - Lag
    BY <2>3, <2>4, LimiterNumbers
  <2>6. QED
    BY <2>1, <2>2, <2>5
<1>7. \A i \in 1 .. l - d :
         /\ s[i] \in Nat /\ s[i] <= moment + 1
         /\ requests[n - (l - d) + i] <= s[i] /\ s[i] - Lag <= requests[n - (l - d) + i]
  <2> SUFFICES ASSUME NEW i \in 1 .. l - d
               PROVE  /\ s[i] \in Nat /\ s[i] <= moment + 1
                      /\ requests[n - (l - d) + i] <= s[i] /\ s[i] - Lag <= requests[n - (l - d) + i]
    OBVIOUS
  <2>1. d + i \in 1 .. l /\ s[i] = times[d + i] /\ n - (l - d) + i = n - l + (d + i)
    BY <1>6
  <2>2. /\ times[d + i] \in Nat /\ times[d + i] <= moment
        /\ requests[n - l + (d + i)] <= times[d + i] /\ times[d + i] - Lag <= requests[n - l + (d + i)]
    BY <1>2, <2>1
  <2>3. QED
    BY <2>1, <2>2
<1>8. \A i, j \in 1 .. l - d : i <= j => s[i] <= s[j]
  <2> SUFFICES ASSUME NEW i \in 1 .. l - d, NEW j \in 1 .. l - d, i <= j PROVE s[i] <= s[j]
    OBVIOUS
  <2>1. d + i \in 1 .. l /\ d + j \in 1 .. l /\ d + i <= d + j
    BY <1>5, <1>6
  <2>2. QED
    BY <1>2, <1>6, <2>1
<1>9. l - d <= n /\ l - d \in Nat
  BY <1>1, <1>5
<1>10. \A i \in 1 .. n : requests[i] <= moment + 1
  BY <1>2
<1>11. Covers(requests, s, moment + 1)
  BY <1>1, <1>4, <1>6, <1>7, <1>8, <1>9, <1>10 DEF Covers, n
<1>12. ASSUME NEW seen, SeenSince(seen, times) PROVE SeenSince(seen, s)
  BY <1>4, <1>6, <1>12 DEF SeenSince, l
<1>13. QED
  BY <1>11, <1>12 DEF s

(* The history, the entries and the promises, for any number of keys and   *)
(* requests and at any times.                                              *)
LEMMA WindowInvariant == LimiterSpec => []WindowInv
<1>1. LimiterInit => WindowInv
  <2> SUFFICES ASSUME LimiterInit PROVE WindowInv
    OBVIOUS
  <2>1. \A k \in ApiKeys : RequestsOf(k) = << >> /\ admitted[k] = << >> /\ promised[k] = Never
    BY DEF LimiterInit, RequestsOf
  <2>2. \A k \in ApiKeys : Opens(RequestsOf(k), promised[k]) /\ Covers(RequestsOf(k), admitted[k], now)
    BY <2>1, CoversNothing DEF Opens
  <2>3. DOMAIN entries = {} /\ entries = [k \in {} |-> entries[k]]
    BY DEF LimiterInit
  <2>4. QED
    BY <2>1, <2>2, <2>3 DEF LimiterInit, WindowInv
<1>2. WindowInv /\ [LimiterNext]_limiterVars => WindowInv'
  <2> SUFFICES ASSUME WindowInv, [LimiterNext]_limiterVars PROVE WindowInv'
    OBVIOUS
  <2>1. now \in Nat
    BY DEF WindowInv
  <2>2. ASSUME NEW k \in ApiKeys, NEW t \in ReadTimes, Admit(k, t) PROVE WindowInv'
    <3> DEFINE old == EntryOf(k, t)
               entry == [requests |-> Append(old.requests, t), active |-> old.active + 1, seen |-> t]
               times == Append(admitted[k], now)
    <3>1. IsEntry(entry) /\ entry.requests = Append(old.requests, t) /\ entry.seen = t
      BY DEF IsEntry
    <3>2. /\ Len(old.requests) < RequestsPerMinute /\ entries' = Table(k, t, entry) /\ now' = now
          /\ admitted' = [admitted EXCEPT ![k] = times] /\ promised' = [promised EXCEPT ![k] = Never]
      BY <2>2 DEF Admit, WindowInv
    <3> HIDE DEF entry
    <3>3. Covers(old.requests, admitted[k], now)
      BY EntryFound
    <3>4. t \in Nat /\ t <= now /\ now - Lag <= t
      BY <2>1, LimiterNumbers DEF ReadTimes
    <3>5. Covers(entry.requests, times, now) /\ SeenSince(entry.seen, times)
      BY <2>1, <3>1, <3>2, <3>3, <3>4, AdmissionCovered
    <3>6. Opens(entry.requests, Never)
      BY DEF Opens
    <3> HIDE DEF times
    <3>7. QED
      BY <3>1, <3>2, <3>5, <3>6, WindowWritten
  <2>3. ASSUME NEW k \in ApiKeys, NEW t \in ReadTimes, RefuseBusy(k, t) \/ RefuseRate(k, t)
        PROVE  WindowInv'
    <3> DEFINE old == EntryOf(k, t)
    <3>1. /\ entries' = Table(k, t, old) /\ now' = now
          /\ admitted' = [admitted EXCEPT ![k] = admitted[k]]
      BY <2>3 DEF RefuseBusy, RefuseRate, WindowInv
    <3>2. /\ IsEntry(old) /\ Covers(old.requests, admitted[k], now)
          /\ old.requests = RequestsOf(k) \/ Len(old.requests) < RequestsPerMinute
          /\ k \in Retained(t) => old.seen = entries[k].seen /\ k \in DOMAIN entries
          /\ k \notin Retained(t) => old.active = 0 /\ Len(old.requests) < RequestsPerMinute
      BY EntryFound
    <3>3. k \in Retained(t)
      <4>1. Len(old.requests) \in Nat
        BY <3>2 DEF Covers
      <4>2. QED
        BY <2>3, <3>2, <4>1, LimiterAssumption DEF RefuseBusy, RefuseRate
    <3>4. SeenSince(old.seen, admitted[k])
      BY <3>2, <3>3 DEF WindowInv
    <3>5. CASE RefuseBusy(k, t)
      <4>1. promised' = [promised EXCEPT ![k] = promised[k]]
        BY <3>5 DEF RefuseBusy, WindowInv
      <4>2. Opens(old.requests, promised[k])
        BY <3>2 DEF Opens, WindowInv
      <4> HIDE DEF old
      <4>3. QED
        BY <3>1, <3>2, <3>4, <4>1, <4>2, WindowWritten
    <3>6. CASE RefuseRate(k, t)
      <4> DEFINE time == now + RetryAfter(k, t) * TicksPerSecond
      <4>1. promised' = [promised EXCEPT ![k] = time] /\ Len(old.requests) >= RequestsPerMinute
        BY <3>6 DEF RefuseRate
      <4>2. old.requests \in Seq(Nat) /\ 1 \in 1 .. Len(old.requests)
        BY <3>2, <4>1, LimiterNumbers DEF Covers
      <4>3. old.requests[1] \in Nat /\ old.requests[1] <= now /\ Head(old.requests) = old.requests[1]
        BY <3>2, <4>2 DEF Covers
      <4>4. t \in Nat /\ t <= now
        BY <2>1, LimiterNumbers DEF ReadTimes
      <4>5. time \in Nat /\ old.requests[1] + Window <= time
        BY <2>1, <4>3, <4>4, RetryReaches DEF RetryAfter
      <4>6. Opens(old.requests, time)
        BY <4>5 DEF Opens
      <4> HIDE DEF old, time
      <4>7. QED
        BY <3>1, <3>2, <3>4, <4>1, <4>6, WindowWritten
    <3>7. QED
      BY <2>3, <3>5, <3>6
  <2>4. ASSUME NEW k \in ApiKeys, Release(k) PROVE WindowInv'
    <3>1. UNCHANGED <<now, admitted, promised>>
      BY <2>4 DEF Release
    <3>2. CASE k \notin DOMAIN entries
      <4>1. entries' = entries
        BY <2>4, <3>2 DEF Release
      <4>2. QED
        BY <3>1, <4>1 DEF WindowInv, RequestsOf
    <3>3. CASE k \in DOMAIN entries
      <4> DEFINE e == entries[k]
                 less == IF e.active = 0 THEN 0 ELSE e.active - 1
                 entry == [requests |-> e.requests, active |-> less, seen |-> now]
      <4>1. entries' = [entries EXCEPT ![k].active = less, ![k].seen = now]
        BY <2>4, <3>3 DEF Release, WindowInv
      <4>2. IsEntry(e)
        BY <3>3 DEF WindowInv
      <4> HIDE DEF less
      <4>3. entries' = [entries EXCEPT ![k] = [e EXCEPT !.active = less, !.seen = now]]
        BY <3>3, <4>1 DEF WindowInv
      <4>4. [e EXCEPT !.active = less, !.seen = now] = entry
        BY <4>2, EntryReleased
      <4>5. IsEntry(entry) /\ entry.requests = e.requests /\ entry.seen = now
        BY DEF IsEntry
      <4>6. entries' = [entries EXCEPT ![k] = entry]
        BY <4>3, <4>4
      <4> HIDE DEF entry
      <4>7. /\ DOMAIN entries' = DOMAIN entries /\ entries'[k] = entry
            /\ \A x \in DOMAIN entries \ {k} : entries'[x] = entries[x]
            /\ entries' = [x \in DOMAIN entries' |-> entries'[x]]
        BY <3>3, <4>6 DEF WindowInv
      <4>8. \A x \in ApiKeys : RequestsOf(x)' = RequestsOf(x)
        BY <3>3, <4>5, <4>7 DEF RequestsOf
      <4>9. SeenSince(now, admitted[k])
        <5>1. Covers(RequestsOf(k), admitted[k], now)
          BY DEF WindowInv
        <5>2. admitted[k] \in Seq(Nat) /\ \A i \in 1 .. Len(admitted[k]) : admitted[k][i] <= now
          BY <5>1 DEF Covers
        <5>3. QED
          BY <2>1, <5>2, LimiterNumbers DEF SeenSince
      <4>10. \A x \in ApiKeys : x \in DOMAIN entries' => SeenSince(entries'[x].seen, admitted[x])
        BY <4>5, <4>7, <4>9 DEF WindowInv
      <4>11. \A x \in DOMAIN entries' : IsEntry(entries'[x])
        BY <4>5, <4>7 DEF WindowInv
      <4>12. QED
        BY <3>1, <4>7, <4>8, <4>10, <4>11 DEF WindowInv
    <3>4. QED
      BY <3>2, <3>3
  <2>5. ASSUME Tick PROVE WindowInv'
    <3>1. /\ now' = now + 1 /\ UNCHANGED <<entries, promised>>
          /\ admitted' = [k \in ApiKeys |-> Since(admitted[k], now + 1, Window - Lag)]
      BY <2>5 DEF Tick
    <3>2. \A k \in ApiKeys : RequestsOf(k)' = RequestsOf(k)
      BY <3>1 DEF RequestsOf
    <3>3. ASSUME NEW k \in ApiKeys
          PROVE  /\ Covers(RequestsOf(k), admitted'[k], now')
                 /\ k \in DOMAIN entries => SeenSince(entries[k].seen, admitted'[k])
      BY <2>1, <3>1, TimePasses DEF WindowInv
    <3>4. QED
      BY <3>1, <3>2, <3>3 DEF WindowInv
  <2>6. ASSUME UNCHANGED limiterVars PROVE WindowInv'
    BY <2>6 DEF limiterVars, WindowInv, RequestsOf
  <2>7. QED
    BY <2>2, <2>3, <2>4, <2>5, <2>6 DEF LimiterNext
<1>3. QED
  BY <1>1, <1>2, PTL DEF LimiterSpec

(* No key is admitted more often than its rate within a window: every      *)
(* admission of the window still stands in the entry.                      *)
THEOREM WindowTheorem == LimiterSpec => []WindowHeld
<1>1. WindowInv => WindowHeld
  <2> SUFFICES ASSUME WindowInv, NEW k \in ApiKeys PROVE Len(admitted[k]) <= RequestsPerMinute
    BY DEF WindowHeld
  <2>1. Covers(RequestsOf(k), admitted[k], now)
    BY DEF WindowInv
  <2>2. QED
    BY <2>1, LimiterNumbers DEF Covers
<1>2. QED
  BY <1>1, WindowInvariant, PTL

(* Waiting for Retry-After is enough: the front request has left then.     *)
THEOREM RetryAfterTheorem == LimiterSpec => []RetryAfterSuffices
<1>1. WindowInv => RetryAfterSuffices
  <2> SUFFICES ASSUME WindowInv, NEW k \in ApiKeys, promised[k] # Never, now >= promised[k]
               PROVE  Len(EntryOf(k, now).requests) < RequestsPerMinute
    BY DEF RetryAfterSuffices
  <2> DEFINE requests == EntryOf(k, now).requests
  <2>1. now \in ReadTimes /\ now \in Nat
    BY LimiterNumbers DEF ReadTimes, WindowInv
  <2>2. /\ Covers(requests, admitted[k], now)
        /\ requests = RequestsOf(k) \/ Len(requests) < RequestsPerMinute
        /\ requests # << >> => now - requests[1] < Window
    BY <2>1, EntryFound
  <2>3. /\ promised[k] \in Nat
        /\ Len(RequestsOf(k)) < RequestsPerMinute \/ RequestsOf(k)[1] + Window <= promised[k]
    BY DEF WindowInv, Opens
  <2> HIDE DEF requests
  <2>4. CASE requests = << >>
    BY <2>4, LimiterNumbers DEF requests
  <2>5. CASE requests # << >> /\ requests = RequestsOf(k)
    <3>1. now - requests[1] < Window /\ requests \in Seq(Nat) /\ requests[1] \in Nat
      BY <2>2, <2>5 DEF Covers
    <3>2. ~(RequestsOf(k)[1] + Window <= promised[k])
      BY <2>1, <2>3, <2>5, <3>1, LimiterNumbers
    <3>3. QED
      BY <2>3, <2>5, <3>2 DEF requests
  <2>6. QED
    BY <2>2, <2>4, <2>5 DEF requests
<1>2. QED
  BY <1>1, WindowInvariant, PTL
=============================================================================
