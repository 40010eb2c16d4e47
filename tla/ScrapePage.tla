----------------------------- MODULE ScrapePage -----------------------------
(***************************************************************************)
(* One scrape (apps/api/src/web_extract.rs): the shared scrape cache of    *)
(* apps/api/src/cache.rs is asked first, then Bee Engine, plain HTTP or    *)
(* both at once, and the better page is kept, stored and answered.         *)
(* Scrapes of API handlers, workers, searches and agents run at the same   *)
(* time over one cache.                                                    *)
(*                                                                         *)
(* A page is what later decisions read of it: who made it, its quality,    *)
(* whether it has an image and browser state, whether browser actions      *)
(* shaped it, and the outcomes reported for the engines.                   *)
(***************************************************************************)
EXTENDS Naturals, FiniteSets

CONSTANTS
    Scrapes,   \* running calls of scrape_with_cache
    Targets,   \* the URL and the other fields that shape a page, as wait_for_ms
    Engines,   \* the URLs of BEE_ENGINE_URLS
    TlsClient, \* whether BEECRAWL_TLS_CLIENT_URL is set
    NoPage

VARIABLES
    request,  \* what each scrape asks for
    at,       \* how far it is
    tried,    \* the engines its rendering has tried in vain
    tls,      \* whether its TLS client fetch is still ahead
    pending,  \* the engines still at work, of "bee_engine" and "http"
    failed,   \* the engines that failed
    pages,    \* the pages that came back
    page,     \* the page it goes on with
    cached,   \* the scrapes served from the cache
    cache,    \* scrape_cache, by key
    fresh,    \* the keys fetched within the maximum age
    lapsed    \* the keys past expires_at

scrapeVars == <<request, at, tried, tls, pending, failed, pages, page, cached, cache, fresh, lapsed>>

RequestType == [mode : {"auto", "always", "never"}, target : Targets,
                image : BOOLEAN, actions : BOOLEAN]

(* cache_key: neither the formats nor the actions are part of it.          *)
CacheKey(q) == <<q.target, q.mode>>
CacheKeys == {CacheKey(q) : q \in RequestType}

-----------------------------------------------------------------------------
(* scrape_page: which engines a request runs.                              *)
Plan(q) ==
    CASE q.mode = "never" -> {"http"}
      [] q.mode = "always" \/ (q.mode = "auto" /\ (q.image \/ q.actions)) -> {"bee_engine"}
      [] OTHER -> {"bee_engine", "http"}

BadUsable(q) ==
    ~q.actions /\ cache[CacheKey(q)] # NoPage /\ CacheKey(q) \in fresh \ lapsed

(* CacheStore::get, which a request with actions does not ask.             *)
Usable(q) ==
    LET k == CacheKey(q) IN
    /\ ~q.actions
    /\ cache[k] # NoPage /\ k \in fresh /\ k \notin lapsed
    /\ q.image => cache[k].image

(* A row keeps the page, not what was reported of the engines.             *)
FromCache(p) == [p EXCEPT !.outcomes = {}, !.fallback = TRUE, !.state = FALSE]

LookupHits(r) ==
    /\ at[r] = "lookup" /\ Usable(request[r])
    /\ page' = [page EXCEPT ![r] = FromCache(cache[CacheKey(request[r])])]
    /\ cached' = cached \cup {r}
    /\ at' = [at EXCEPT ![r] = "check"]
    /\ UNCHANGED <<request, tried, tls, pending, failed, pages, cache, fresh, lapsed>>

(* No row, or a database that does not answer.                             *)
LookupMisses(r) ==
    /\ at[r] = "lookup"
    /\ at' = [at EXCEPT ![r] = "run"]
    /\ pending' = [pending EXCEPT ![r] = Plan(request[r])]
    /\ UNCHANGED <<request, tried, tls, failed, pages, page, cached, cache, fresh, lapsed>>

Running(r, engine) == at[r] = "run" /\ engine \in pending[r]

Succeeds(r, engine, p) ==
    /\ pages' = [pages EXCEPT ![r] = @ \cup {p}]
    /\ pending' = [pending EXCEPT ![r] = @ \ {engine}]
    /\ UNCHANGED failed

Fails(r, engine) ==
    /\ failed' = [failed EXCEPT ![r] = @ \cup {engine}]
    /\ pending' = [pending EXCEPT ![r] = @ \ {engine}]
    /\ UNCHANGED pages

(* content_quality_score: two qualities are enough for better and worse.   *)
Scores == {1, 2}

(* ranked_engine_urls asks for the free capacity of each engine now: the   *)
(* order can be any.                                                       *)
Untried(r) == Engines \ tried[r]

(* render_page: a failed render goes on to the next engine.                *)
RenderAt(r, e) ==
    /\ Running(r, "bee_engine") /\ e \in Untried(r)
    /\ \/ /\ \E score \in Scores,
                image \in IF request[r].image \/ request[r].actions
                         THEN BOOLEAN ELSE {FALSE} :
                Succeeds(r, "bee_engine",
                    [engine |-> "bee_engine", score |-> score, image |-> image,
                     state |-> TRUE, acted |-> request[r].actions, fallback |-> FALSE,
                     outcomes |-> {<<"bee_engine", "success">>}])
          /\ UNCHANGED tried
       \/ /\ tried' = [tried EXCEPT ![r] = @ \cup {e}]
          /\ IF Untried(r) = {e} THEN Fails(r, "bee_engine")
             ELSE UNCHANGED <<pending, failed, pages>>
    /\ UNCHANGED <<request, at, tls, page, cached, cache, fresh, lapsed>>

FetchedBy(engine, failures, score) ==
    [engine |-> engine, score |-> score, image |-> FALSE, state |-> FALSE,
     acted |-> FALSE, fallback |-> failures # {},
     outcomes |-> {<<engine, "success">>} \cup {<<f, "failed">> : f \in failures}]

(* fetch_page_with_tls: a failure of the TLS client falls back to the      *)
(* static fetch and is reported with its page.                             *)
FetchWithTls(r) ==
    /\ Running(r, "http") /\ tls[r]
    /\ tls' = [tls EXCEPT ![r] = FALSE]
    /\ \/ UNCHANGED <<pending, failed, pages>>
       \/ \E score \in Scores : Succeeds(r, "http", FetchedBy("tls_client", {}, score))
    /\ UNCHANGED <<request, at, tried, page, cached, cache, fresh, lapsed>>

(* Redirects, each checked, then a page or an error.                       *)
FetchStatic(r) ==
    /\ Running(r, "http") /\ ~tls[r]
    /\ \/ Fails(r, "http")
       \/ \E score \in Scores :
             Succeeds(r, "http", FetchedBy("http_static",
                         IF TlsClient THEN {"tls_client"} ELSE {}, score))
    /\ UNCHANGED <<request, at, tried, tls, page, cached, cache, fresh, lapsed>>

-----------------------------------------------------------------------------
(* select_best_engine and score_single_page.                               *)

BadBetter(a, b) == a.score < b.score \/ (a.score = b.score /\ a.engine = "bee_engine")

(* The sort by score is stable and the rendered page comes first.          *)
Better(a, b) == a.score > b.score \/ (a.score = b.score /\ a.engine = "bee_engine")

Relabelled(p, status) ==
    {<<o[1], IF o[2] = "success" THEN status ELSE o[2]>> : o \in p.outcomes}

Best(r) == CHOOSE p \in pages[r] : \A q \in pages[r] \ {p} : Better(p, q)

Beaten(r) == UNION {Relabelled(p, "rejected") : p \in pages[r] \ {Best(r)}}

(* What became of every engine.                                            *)
Reports(r) == Relabelled(Best(r), "selected") \cup Beaten(r) \cup (failed[r] \X {"failed"})

Chosen(r) ==
    [Best(r) EXCEPT !.outcomes = Reports(r),
                    !.fallback = \E o \in Reports(r) : o[2] = "failed"]

Select(r) ==
    /\ at[r] = "run" /\ pending[r] = {}
    /\ IF pages[r] # {}
       THEN /\ page' = [page EXCEPT ![r] = Chosen(r)]
            /\ at' = [at EXCEPT ![r] = "check"]
       ELSE at' = [at EXCEPT ![r] = "failed"] /\ UNCHANGED page
    /\ UNCHANGED <<request, tried, tls, pending, failed, pages, cached, cache, fresh, lapsed>>

(* The content the request asks for may turn out empty, or its selectors   *)
(* wrong; otherwise a page that was not in the cache goes there.           *)
Check(r) ==
    /\ at[r] = "check"
    /\ \E next \in {"failed", IF r \in cached THEN "answer" ELSE "put"} :
          at' = [at EXCEPT ![r] = next]
    /\ UNCHANGED <<request, tried, tls, pending, failed, pages, page, cached, cache, fresh, lapsed>>

(* The upsert can fail unnoticed.                                          *)
Put(r) ==
    LET k == CacheKey(request[r]) IN
    /\ at[r] = "put"
    /\ \/ /\ cache' = [cache EXCEPT ![k] = page[r]]
          /\ fresh' = fresh \cup {k} /\ lapsed' = lapsed \ {k}
       \/ UNCHANGED <<cache, fresh, lapsed>>
    /\ at' = [at EXCEPT ![r] = "answer"]
    /\ UNCHANGED <<request, tried, tls, pending, failed, pages, page, cached>>

(* An image that was asked for and did not come is an error, after the put.*)
HasImage(r) == request[r].image => page[r].image

Answer(r) ==
    /\ at[r] = "answer"
    /\ at' = [at EXCEPT ![r] = IF HasImage(r) THEN "answered" ELSE "failed"]
    /\ UNCHANGED <<request, tried, tls, pending, failed, pages, page, cached, cache, fresh, lapsed>>

-----------------------------------------------------------------------------
(* Time, and the workers' cleanup.                                         *)

GoesStale(k) ==
    /\ k \in fresh
    /\ fresh' = fresh \ {k}
    /\ UNCHANGED <<request, at, tried, tls, pending, failed, pages, page, cached, cache, lapsed>>

Lapses(k) ==
    /\ cache[k] # NoPage /\ k \notin lapsed
    /\ lapsed' = lapsed \cup {k}
    /\ UNCHANGED <<request, at, tried, tls, pending, failed, pages, page, cached, cache, fresh>>

CacheCleanup ==
    /\ lapsed # {}
    /\ cache' = [k \in CacheKeys |-> IF k \in lapsed THEN NoPage ELSE cache[k]]
    /\ fresh' = fresh \ lapsed /\ lapsed' = {}
    /\ UNCHANGED <<request, at, tried, tls, pending, failed, pages, page, cached>>

ScrapeInit ==
    /\ request \in [Scrapes -> RequestType]
    /\ at = [r \in Scrapes |-> "lookup"]
    /\ tried = [r \in Scrapes |-> {}]
    /\ tls = [r \in Scrapes |-> TlsClient]
    /\ pending = [r \in Scrapes |-> {}]
    /\ failed = [r \in Scrapes |-> {}]
    /\ pages = [r \in Scrapes |-> {}]
    /\ page = [r \in Scrapes |-> NoPage]
    /\ cached = {}
    /\ cache = [k \in CacheKeys |-> NoPage]
    /\ fresh = {} /\ lapsed = {}

ScrapeNext ==
    \/ \E r \in Scrapes :
          \/ LookupHits(r) \/ LookupMisses(r)
          \/ \E e \in Engines : RenderAt(r, e)
          \/ FetchWithTls(r) \/ FetchStatic(r)
          \/ Select(r) \/ Check(r) \/ Put(r) \/ Answer(r)
    \/ \E k \in CacheKeys : GoesStale(k) \/ Lapses(k)
    \/ CacheCleanup

ScrapeSpec == ScrapeInit /\ [][ScrapeNext]_scrapeVars

-----------------------------------------------------------------------------
(* What the cache serves is a page the request could have got itself: made *)
(* by an engine its mode allows, and never a page without the image it     *)
(* asks for, which would fail it although a fresh scrape would not         *)
(* (cache_key, CacheStore::get, the upsert that can take an image away).   *)
CachedPagePossible ==
    \A r \in cached :
        /\ request[r].mode = "never" => page[r].engine # "bee_engine"
        /\ request[r].mode = "always" => page[r].engine = "bee_engine"
        /\ HasImage(r)

(* A fresh page is reported truly, in whichever order the two engines came *)
(* back: exactly one engine is selected, it made the page, no other        *)
(* candidate was better, and every engine that ran is accounted for        *)
(* (select_best_engine, score_single_page).                                *)
SelectionSound ==
    \A r \in Scrapes \ cached :
        at[r] \in {"check", "put", "answer", "answered"} =>
            LET reported(status) == {o[1] : o \in {x \in page[r].outcomes : x[2] = status}}
            IN
            /\ reported("selected") = {page[r].engine}
            /\ \A p \in pages[r] :
                  /\ p.score <= page[r].score
                  /\ p.engine \in reported("selected") \cup reported("rejected")
            /\ failed[r] \subseteq reported("failed")
            /\ page[r].fallback <=> reported("failed") # {}
=============================================================================
