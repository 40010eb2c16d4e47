------------------------------- MODULE Search -------------------------------
(***************************************************************************)
(* POST /v2/search (apps/api/src/routes.rs, search.rs): the web results of *)
(* SearXNG or DuckDuckGo are cut to the limit, filtered by domain and then *)
(* scraped, one after the other or up to Width at once in any order; news  *)
(* and images are asked for before the scrape options are looked at.       *)
(***************************************************************************)
EXTENDS Naturals, FiniteSets, SequencesExt, Subsequences

CONSTANTS
    Urls,      \* what a provider can return
    DomainOf,  \* the domain of a URL
    Answers,   \* the result lists of a provider
    Queries,   \* the requests: see QueryType
    Searxng,   \* whether BEECRAWL_SEARXNG_ENDPOINT is set
    Width,     \* scrapes at once (8)
    Unsaid

Domains == {DomainOf[u] : u \in Urls}

(* `valid` are the checks before any provider is asked, `sound` those of   *)
(* the scrape options, which only a search of the web reaches.  A request  *)
(* can have `options` that name no format: they are checked, and nothing   *)
(* is scraped.                                                             *)
QueryType == [valid : BOOLEAN, sound : BOOLEAN,
              web : BOOLEAN, news : BOOLEAN, images : BOOLEAN,
              limit : Nat \ {0}, include : SUBSET Domains, exclude : SUBSET Domains,
              options : BOOLEAN, scrape : BOOLEAN, async : BOOLEAN]

ASSUME SearchAssumption ==
    /\ Width \in Nat \ {0} /\ Queries \subseteq QueryType
    /\ \A q \in Queries : q.scrape => q.options
    /\ \A list \in Answers : list \in Seq(Urls)
    /\ Unsaid \notin {"markdown", "error"}

VARIABLES
    query,    \* the request
    phase,    \* how far the handler is
    offered,  \* the answer of the provider that was used
    hits,     \* the results that are left of it
    active,   \* the indexes being scraped
    scraped,  \* the indexes whose scrape ended, in that order
    outcome,  \* per index: "markdown" or an error, once its scrape ended
    reply     \* the answer of the handler

searchVars == <<query, phase, offered, hits, active, scraped, outcome, reply>>

-----------------------------------------------------------------------------
Rejected(q) == ~q.valid \/ (q.include # {} /\ q.exclude # {})

AfterImages(q) == IF q.web THEN "options" ELSE "reply"
AfterNews(q) == IF q.images THEN "images" ELSE AfterImages(q)

Receive ==
    /\ phase = "received"
    /\ phase' = IF Rejected(query) THEN "refused"
                ELSE IF query.news THEN "news" ELSE AfterNews(query)
    /\ UNCHANGED <<query, offered, hits, active, scraped, outcome, reply>>

(* News and images: one more provider each, whose failure is an empty list.*)
AskNews ==
    /\ phase = "news"
    /\ phase' = AfterNews(query)
    /\ UNCHANGED <<query, offered, hits, active, scraped, outcome, reply>>

AskImages ==
    /\ phase = "images"
    /\ phase' = AfterImages(query)
    /\ UNCHANGED <<query, offered, hits, active, scraped, outcome, reply>>

(* validate_browser_actions, validate_firecrawl_scrape_options, proxy.     *)
CheckOptions ==
    /\ phase = "options"
    /\ phase' = IF query.options /\ ~query.sound THEN "refused"
                ELSE IF Searxng THEN "searxng" ELSE "duckduckgo"
    /\ UNCHANGED <<query, offered, hits, active, scraped, outcome, reply>>

(* domain_allowed; a domain matches its subdomains too.                    *)
Allowed(u) ==
    /\ query.include = {} \/ DomainOf[u] \in query.include
    /\ DomainOf[u] \notin query.exclude

Cut(list, n) == IF Len(list) <= n THEN list ELSE SubSeq(list, 1, n)

Wanted(list) == Only(Cut(list, query.limit), {u \in Urls : Allowed(u)})

(* search: the provider has cut its list to the limit, then the domains    *)
(* are filtered: fewer results than the limit can be left.                 *)
Use(list) ==
    /\ offered' = list
    /\ hits' = Wanted(list)
    /\ phase' = IF query.scrape THEN "scrape" ELSE "reply"
    /\ outcome' = [i \in DOMAIN hits' |-> Unsaid]

(* An empty or failed answer of SearXNG goes on to DuckDuckGo.             *)
AskSearxng(list) ==
    /\ phase = "searxng"
    /\ IF list = << >>
       THEN phase' = "duckduckgo" /\ UNCHANGED <<offered, hits, outcome>>
       ELSE Use(list)
    /\ UNCHANGED <<query, active, scraped, reply>>

AskDuckduckgo(list) ==
    /\ phase = "duckduckgo"
    /\ Use(list)
    /\ UNCHANGED <<query, active, scraped, reply>>

-----------------------------------------------------------------------------
(* The scrapes.                                                            *)

Ended == ToSet(scraped)
Waiting == DOMAIN hits \ (active \cup Ended)

(* buffer_unordered takes the results in order; the loop takes the next    *)
(* when one has ended.                                                     *)
MayStart(i) ==
    /\ i \in Waiting /\ \A k \in Waiting : i <= k
    /\ Cardinality(active) < IF query.async THEN Width ELSE 1

StartScrape(i) ==
    /\ phase = "scrape" /\ MayStart(i)
    /\ active' = active \cup {i}
    /\ UNCHANGED <<query, phase, offered, hits, scraped, outcome, reply>>

(* A failed scrape is an error of its result only.                         *)
EndScrape(i, how) ==
    /\ phase = "scrape" /\ i \in active
    /\ active' = active \ {i}
    /\ scraped' = Append(scraped, i)
    /\ outcome' = [outcome EXCEPT ![i] = how]
    /\ UNCHANGED <<query, phase, offered, hits, reply>>

ScrapesEnd ==
    /\ phase = "scrape" /\ Ended = DOMAIN hits
    /\ phase' = "reply"
    /\ UNCHANGED <<query, offered, hits, active, scraped, outcome, reply>>

BadOrder(indexes) == indexes

(* sort_by_key of what came back unordered.                                *)
Order(indexes) ==
    LET places == DOMAIN indexes
        turns == {turn \in [places -> places] : IsInjective(turn)}
        sorting == CHOOSE turn \in turns :
                      \A i, k \in places : i < k => indexes[turn[i]] <= indexes[turn[k]]
    IN [n \in places |-> indexes[sorting[n]]]

Entry(i) == [url |-> hits[i], outcome |-> outcome[i]]

Reply ==
    /\ phase = "reply"
    /\ LET order == IF query.scrape THEN Order(scraped) ELSE [i \in DOMAIN hits |-> i]
       IN reply' = [n \in DOMAIN order |-> Entry(order[n])]
    /\ phase' = "replied"
    /\ UNCHANGED <<query, offered, hits, active, scraped, outcome>>

SearchInit ==
    /\ query \in Queries
    /\ phase = "received"
    /\ offered = << >> /\ hits = << >>
    /\ active = {} /\ scraped = << >> /\ outcome = << >>
    /\ reply = Unsaid

SearchNext ==
    \/ Receive \/ AskNews \/ AskImages \/ CheckOptions
    \/ \E list \in Answers : AskSearxng(list) \/ AskDuckduckgo(list)
    \/ \E i \in DOMAIN hits :
          StartScrape(i) \/ \E how \in {"markdown", "error"} : EndScrape(i, how)
    \/ ScrapesEnd \/ Reply

SearchSpec == SearchInit /\ [][SearchNext]_searchVars

-----------------------------------------------------------------------------
(* However the scrapes overlap and end, the reply lists the allowed ones   *)
(* of the first `limit` results in the provider's order, each once and     *)
(* with the outcome of its own scrape; asynchronous scraping answers what  *)
(* scraping one by one would (search, scrape_result).                      *)
ReplyInProviderOrder ==
    phase = "replied" =>
        /\ query.web => [n \in DOMAIN reply |-> reply[n].url] = Wanted(offered)
        /\ ~query.web => reply = << >>
        /\ \A n \in DOMAIN reply :
              reply[n].outcome = outcome[n] /\ (query.scrape <=> outcome[n] # Unsaid)
=============================================================================
