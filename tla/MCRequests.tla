----------------------------- MODULE MCRequests ------------------------------
(***************************************************************************)
(* Instances of what happens around one request, in one run: it passes the *)
(* limits of its key, it becomes a job, a page is scraped, a search is     *)
(* answered, a robots.txt file is asked, the links of a crawl are          *)
(* discovered.  The six share nothing; each behaves while the others keep  *)
(* an initial state.                                                       *)
(***************************************************************************)
EXTENDS RateLimiter, JobRequests, ScrapePage, Search, Robots, SiteLinks

VARIABLE subject

-----------------------------------------------------------------------------
(* Requests: usual values, and one field at a time at its edges.           *)
Bare == [route |-> "v2crawl", key |-> NoKey, urls |-> <<"u">>, limit |-> 2, depth |-> 2,
         concurrency |-> Omitted, delay |-> Omitted, retries |-> 0, seconds |-> 0, wait |-> 0,
         options |-> Omitted, faults |-> {}, patterns |-> TRUE]

Plain == [timeout |-> Omitted, first |-> 0, waits |-> << >>]
Keyed == [Bare EXCEPT !.key = CHOOSE k \in Keys : TRUE, !.options = Plain]
Native == [Bare EXCEPT !.route = "crawl", !.concurrency = 1, !.delay = 0, !.seconds = 1]
Batch == [Native EXCEPT !.route = "batch"]
Batch2 == [Bare EXCEPT !.route = "v2batch"]

Faults == {"json", "key", "sitemap", "zeroDataRetention", "webhook", "scrape", "proxy", "formats"}
Edges == {0, 1, IntMax, IntMax + 1, 2 * IntMax + 2, BigMax + 1, UMax}

Requests ==
    {Bare, Keyed, Batch2}
    \cup {[Keyed EXCEPT !.patterns = FALSE], [Keyed EXCEPT !.urls = <<"malformed">>]}
    \cup {[Keyed EXCEPT !.faults = {f}] : f \in Faults}
    \cup {[Batch2 EXCEPT !.faults = {"key", "sitemap"}], [Native EXCEPT !.faults = {"json"}]}
    \cup {[Keyed EXCEPT !.limit = n] : n \in Edges}
    \cup {[Keyed EXCEPT !.concurrency = n] : n \in {0, IntMax + 1}}
    \cup {[Keyed EXCEPT !.delay = n] : n \in {0, 1, MaxDelay + 1}}
    \cup {[Bare EXCEPT !.options = [timeout |-> t, first |-> f, waits |-> w]] :
             t \in {MinTimeout - 1, MaxTimeout}, f \in {0, MaxTimeout},
             w \in {<< >>, <<1>>, <<UMax, 1>>}}
    \cup {[Native EXCEPT !.depth = n] : n \in Edges}
    \cup {[Native EXCEPT !.concurrency = n] : n \in Edges}
    \cup {[Native EXCEPT !.retries = n] : n \in Edges}
    \cup {[Native EXCEPT !.delay = n] : n \in {1, UMax}}
    \cup {[Batch EXCEPT !.urls = u] : u \in {<< >>, <<"u", "u">>, <<"u", "v">>, <<"u", "v", "x">>}}

(* Races for a key, and each other request for itself.                     *)
MCWorkloads ==
    {{Keyed, [Keyed EXCEPT !.limit = BigMax + 1], [Keyed EXCEPT !.route = "v2batch"]}}
    \cup {{q} : q \in Requests}

-----------------------------------------------------------------------------
(* Searches: three results of two domains.                                 *)
MCDomainOf == [u \in Urls |-> IF u = "a1" THEN "a" ELSE "b"]

MCAnswers == {<< >>, <<"b1">>, <<"a1", "b1", "b2">>, <<"b1", "a1", "b2">>}

MCQueries ==
    {[valid |-> v, sound |-> s, web |-> w, news |-> n, images |-> g, limit |-> l, include |-> i,
      exclude |-> e, options |-> o # "none", scrape |-> o = "formats", async |-> as] :
        v \in BOOLEAN, s \in BOOLEAN, w \in BOOLEAN, n \in BOOLEAN, g \in BOOLEAN, l \in {2, 3},
        i \in {{}, {"b"}}, e \in {{}, {"a"}}, o \in {"none", "bare", "formats"}, as \in BOOLEAN}

-----------------------------------------------------------------------------
(* Robots: paths over two characters, patterns of up to three pieces.      *)
Pieces == {<< >>, <<"a">>, <<"a", "/">>}
MCRobotPaths == {<<"/">> \o tail : tail \in UNION {[1 .. n -> {"a", "/"}] : n \in 0 .. 3}}
MCAgentSize == [a \in {"*", "bee"} |-> IF a = "*" THEN 0 ELSE 3]

Patterns(stars) ==
    {[pieces |-> <<first>> \o rest, anchored |-> end] :
        first \in {<< >>, <<"/">>, <<"/", "a">>},
        rest \in UNION {[1 .. n -> Pieces] : n \in 0 .. stars}, end \in BOOLEAN}

Allow(p) == [allow |-> TRUE, pattern |-> p]
Disallow(p) == [allow |-> FALSE, pattern |-> p]
Everything == [pieces |-> <<(<<"/">>)>>, anchored |-> FALSE]
Agent(names, rules) == [agents |-> names, rules |-> rules]

MCFiles ==
    {{Agent({"*"}, {Disallow(p)}), Agent({"other"}, {Allow(Everything)})} : p \in Patterns(2)}
    \cup {{Agent({"*"}, {Disallow(Everything)}),
           Agent({"bee", "*"}, {Allow(p), Disallow(Everything)})} : p \in Patterns(1)}
    \cup {{Agent({"*", "bee"}, {Disallow(p)}), Agent({"bee"}, {Allow(Everything)}),
           Agent({"*"}, {Allow(p)})} : p \in Patterns(1)}
    \cup {{Agent({"other"}, {Disallow(Everything)})}}

-----------------------------------------------------------------------------
(* Links: a host, its subdomain and another host; nested paths.            *)
MCSubdomain == {<<"sub", "host">>}
MCPrefix == {<<"root", "root">>, <<"root", "docs">>, <<"root", "page">>,
             <<"docs", "docs">>, <<"docs", "page">>, <<"page", "page">>}

Link(h, p) == [host |-> h, path |-> p, query |-> FALSE, hash |-> "none",
               form |-> "plain", web |-> TRUE]
MCStart == Link("host", "docs")
Anchor == [Link("host", "page") EXCEPT !.hash = "anchor", !.query = TRUE]

MCListings ==
    {{}, {[Link("host", "docs") EXCEPT !.web = FALSE]},
     {Link("host", "page"), Anchor, [Link("host", "page") EXCEPT !.form = "alias"]},
     {Link("host", "page"), [Link("host", "page") EXCEPT !.hash = "route"]},
     {Link("sub", "page"), Link("host", "root"), Link("other", "docs")},
     {Link("sub", "root"), Link("other", "root"), Anchor}}

MCPolicies ==
    {[subdomains |-> s, external |-> x, entire |-> e, ignoreQuery |-> d, dedupe |-> d,
      sitemap |-> m, paths |-> p] :
        s \in BOOLEAN, x \in BOOLEAN, e \in BOOLEAN, d \in BOOLEAN, m \in {"include", "only"},
        p \in {Paths, {"docs", "root"}}}

-----------------------------------------------------------------------------
ours == <<subject, limiterVars, requestVars, scrapeVars, searchVars, robotsVars, linkVars>>

Some(S) == {CHOOSE x \in S : TRUE}
If(what, S) == IF subject = what THEN S ELSE Some(S)

MCInit ==
    /\ subject \in {"limits", "request", "scrape", "search", "robots", "links"}
    /\ asked \in If("request", Workloads)
    /\ request \in If("scrape", [Scrapes -> RequestType])
    /\ query \in If("search", Queries)
    /\ file \in If("robots", Files)
    /\ path \in If("robots", RobotPaths) /\ site \in If("robots", {"private", "silent", "read"})
    /\ policy \in If("links", Policies)
    /\ LimiterInit /\ RequestsInit /\ ScrapeInit /\ SearchInit /\ RobotsInit /\ LinksInit

MCNext ==
    /\ UNCHANGED subject
    /\ \/ subject = "limits" /\ LimiterNext
          /\ UNCHANGED <<requestVars, scrapeVars, searchVars, robotsVars, linkVars>>
       \/ subject = "request" /\ RequestsNext
          /\ UNCHANGED <<limiterVars, scrapeVars, searchVars, robotsVars, linkVars>>
       \/ subject = "scrape" /\ ScrapeNext
          /\ UNCHANGED <<limiterVars, requestVars, searchVars, robotsVars, linkVars>>
       \/ subject = "search" /\ SearchNext
          /\ UNCHANGED <<limiterVars, requestVars, scrapeVars, robotsVars, linkVars>>
       \/ subject = "robots" /\ RobotsNext
          /\ UNCHANGED <<limiterVars, requestVars, scrapeVars, searchVars, linkVars>>
       \/ subject = "links" /\ LinksNext
          /\ UNCHANGED <<limiterVars, requestVars, scrapeVars, searchVars, robotsVars>>

MCSpec == MCInit /\ [][MCNext]_ours

RequestSymmetry ==
    Permutations(ApiKeys) \cup Permutations(Scrapes) \cup Permutations(Engines)
=============================================================================
