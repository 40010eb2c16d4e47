----------------------------- MODULE SiteLinks ------------------------------
(***************************************************************************)
(* Which pages a crawl can reach: the discovery of links on a page         *)
(* (map_site of apps/api/src/web_extract.rs), the path patterns, and the   *)
(* INSERTs of finish_success.  Discovery knows only the page it starts     *)
(* from, not the crawl: host and path of a link are compared with those of *)
(* the page the link was found on.                                         *)
(*                                                                         *)
(* A site lists its links in any order, so what was listed is a set, and   *)
(* the cuts to the limit are a choice of a subset.                         *)
(***************************************************************************)
EXTENDS Naturals, FiniteSets

CONSTANTS
    Hosts, Paths,
    Subdomain,  \* <<h, g>>: host h ends with "." followed by host g
    Prefix,     \* <<p, q>>: path q starts with path p
    Listings,   \* what a page and the sitemap can list: sets of links, see LinkType
    Start,      \* the normalized URL of the request
    Policies,   \* the options of a crawl: see PolicyType
    PageLimit, MaxDepth

LinkType == [host : Hosts, path : Paths, query : BOOLEAN,
             hash : {"none", "anchor", "route"},
             form : {"plain", "alias"},   \* http, www, trailing slash, index document
             web : BOOLEAN]               \* whether the scheme is http or https

PolicyType == [subdomains : BOOLEAN, external : BOOLEAN, entire : BOOLEAN,
               ignoreQuery : BOOLEAN, dedupe : BOOLEAN,
               sitemap : {"skip", "include", "only"},
               paths : SUBSET Paths]      \* those the patterns let pass

ASSUME LinksAssumption ==
    /\ Listings \subseteq SUBSET LinkType /\ Start \in LinkType
    /\ Policies \subseteq PolicyType
    /\ PageLimit \in Nat \ {0} /\ MaxDepth \in Nat
    /\ \A p \in Paths : <<p, p>> \in Prefix
    /\ \A p, q, r \in Paths : <<p, q>> \in Prefix /\ <<q, r>> \in Prefix => <<p, r>> \in Prefix
    /\ \A f, g, h \in Hosts :
          <<f, g>> \in Subdomain /\ <<g, h>> \in Subdomain => <<f, h>> \in Subdomain

VARIABLES
    policy,  \* the options of the crawl
    found,   \* the URLs of its tasks
    depth,   \* their depth
    done     \* the pages whose task has ended

linkVars == <<policy, found, depth, done>>

-----------------------------------------------------------------------------
(* canonicalize_link: fragments go, unless they are routes.                *)
Canonical(l) ==
    [l EXCEPT !.hash = IF @ = "anchor" THEN "none" ELSE @,
              !.query = @ /\ ~policy.ignoreQuery]

SameSite(base, u) ==
    \/ u.host = base.host
    \/ policy.subdomains /\ <<u.host, base.host>> \in Subdomain

BadInScope(base, u) ==
    /\ policy.external \/ SameSite(base, u)
    /\ ~policy.entire /\ SameSite(base, u) => <<u.path, base.path>> \in Prefix

(* filter_links, without a search term.                                    *)
InScope(base, u) ==
    /\ policy.external \/ SameSite(base, u)
    /\ ~policy.entire /\ SameSite(base, u) => <<base.path, u.path>> \in Prefix

(* discover_links: a sitemap or a page that cannot be read lists nothing,  *)
(* and a page without a link left stands for itself.                       *)
Discovered(base, listed) ==
    LET inScope == {u \in {Canonical(l) : l \in {x \in listed : x.web}} : InScope(base, u)}
    IN IF inScope = {} THEN {base} ELSE inScope

(* url_allowed_by_patterns.                                                *)
PatternsAllow(u) == u.path \in policy.paths

(* process_task: a crawl page above the depth limit is mapped, deeper      *)
(* pages without their sitemap, and not at all when there is only that.    *)
Mapped(p) == depth[p] < MaxDepth /\ ~(policy.sitemap = "only" /\ depth[p] > 0)

(* crawl_dedup_key.                                                        *)
DedupKey(u) == IF policy.dedupe THEN [u EXCEPT !.form = "plain"] ELSE u

(* The page was scraped; of its links those get a task that come before    *)
(* the limits are reached and do not conflict with another.                *)
Crawl(p, listed, fresh) ==
    /\ p \in found \ done /\ PatternsAllow(p)
    /\ fresh \subseteq {u \in Discovered(p, listed) : PatternsAllow(u)} \ found
    /\ fresh # {} => Mapped(p)
    /\ Cardinality(found \cup fresh) <= PageLimit
    /\ \A u \in fresh, v \in found \cup fresh : u # v => DedupKey(u) # DedupKey(v)
    /\ found' = found \cup fresh
    /\ depth' = [u \in found \cup fresh |-> IF u \in found THEN depth[u] ELSE depth[p] + 1]
    /\ done' = done \cup {p}
    /\ UNCHANGED policy

(* The scrape failed for good, or the patterns exclude the page itself.    *)
Fail(p) ==
    /\ p \in found \ done
    /\ done' = done \cup {p}
    /\ UNCHANGED <<policy, found, depth>>

LinksInit ==
    /\ policy \in Policies
    /\ found = {Start}
    /\ depth = [u \in {Start} |-> 0]
    /\ done = {}

LinksNext ==
    \E p \in found :
       \/ \E listed \in Listings :
             \E fresh \in SUBSET Discovered(p, listed) : Crawl(p, listed, fresh)
       \/ Fail(p)

LinksSpec == LinksInit /\ [][LinksNext]_linkVars

-----------------------------------------------------------------------------
(* The crawl stays in the scope of its request, although every page is     *)
(* compared with the page before it only: under the host of the start (or  *)
(* its subdomains) unless external links are allowed, under its path too   *)
(* unless the entire domain is, and no page after the first is one the     *)
(* patterns exclude (filter_links, url_allowed_by_patterns).               *)
ScopeHeld ==
    \A u \in found :
        /\ ~policy.external => SameSite(Start, u)
        /\ ~policy.external /\ ~policy.entire => <<Start.path, u.path>> \in Prefix
        /\ u = Start \/ PatternsAllow(u)
=============================================================================
