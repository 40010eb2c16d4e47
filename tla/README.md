# BeeCrawl: specifications, model checking and proofs

TLA+ models of BeeCrawl, with the TLC configurations that check them and TLAPS
proofs of what matters most. Line numbers refer to this repository.

## 1. Inventory of the system

BeeCrawl is a web scraping service. An **API** process (`apps/api/src`) serves
HTTP; **worker** processes (`apps/api/src/bin`, two replicas in the Helm chart)
run the crawl queue and the workflow queue; **Bee Engine**
(`apps/bee-engine`, Python) renders pages with Playwright; PostgreSQL is the
only state that API and workers share. CLI and SDKs are clients.

| Component | State | Operations | What is hard | What makes it correct |
|---|---|---|---|---|
| Crawl and batch queue, `crawl.rs` | `crawl_jobs`, `crawl_tasks`, `idempotency_keys`; per worker one claimed task | enqueue, enqueue_batch, cancel, claim_task, finish_success, finish_failure, cleanup_expired | overlapping claims under READ COMMITTED, leases that lapse under a live worker, crashes, cancellation racing all of it | a job completes exactly when no task is open; outcomes are written once; page limit, delay and cancellation hold; concurrency cap |
| Webhook delivery, `webhook.rs` and `crawl.rs` | three `webhook_*_at` columns | claim an event, post it | claim and post are separate, any worker may claim | an event is posted at most once and tells the truth |
| Job status and watcher, `crawl.rs` get, `routes.rs` watch_firecrawl_job | documents already sent, per socket | poll, catch up, send documents, done | status, counts and rows come from three statements; OFFSET paging over a moving order | every document once, all of them before done |
| Job requests, `routes.rs`, `models.rs`, `crawl.rs` | `idempotency_keys`, the new job | validate, default, convert, reserve a key, insert | races for a key, casts between widths, defaults in two places | one job per key; a stored job can run; documented defaults are accepted |
| Rate limiter, `limits.rs` | per key: start times, active count, last seen | try_acquire, drop of a permit, pruning | a clock read before the lock, permits outliving their entry, whole seconds | never more starts in a window, the active count is exact, Retry-After is enough |
| Parse upload references, `routes.rs` | map of references in memory | create, PUT, take, parse | expiry, single use, concurrent PUT and use | a reference is consumed once, only when complete |
| Browser sessions and hand-off, `routes.rs`, `sessions.py` | owners, hand-offs; sessions in the engine | create, execute, delete, interact, cleanup | two tables in two processes, clients that hang up, expiry during an execution | who was told a session owns it; every session closes |
| Scrape cache, `cache.rs`, `web_extract.rs` | `scrape_cache` | get, put, cleanup | what belongs in the key, staleness, overlapping upserts | a hit answers the request that was asked |
| Scrape engine selection, `web_extract.rs` | none | fetch, render, compare, fall back | partial failure, either order of answers | the better page wins and every engine is reported |
| Robots policy, URL filters, dedup keys, `web_extract.rs`, `crawl.rs` | none | match rules, filter links, compare URLs | wildcards, ties, scope relative to the page a link is on | agreement with what the rules mean; a crawl stays in its scope |
| Search, `search.rs`, `routes.rs` | none | ask providers, filter, scrape, order | concurrent scrapes that end in any order | the reply is in the provider's order, outcomes at their results |
| Agent workflows, `workflows.rs` | `agent_jobs` | create, claim, process, cancel | no lease, late cancel | a job ends; budget respected |
| Monitors, `workflows.rs` | `monitors`, `monitor_checks` | create, update, schedule, check, notify | overlapping checks, crash in a check | checks diff against their predecessor |
| Bee Engine jobs, `jobs.py`, `app.py` | map of jobs | enqueue, get, delete, run | delete or re-submit while running, timeouts | a job does not stay at processing |
| Bee Engine pool, `browser.py` | page slots, contexts | render | a cancelled render, anywhere | the slot comes back |
| CLI, `apps/cli/src` | configuration file | login, wait, configure | one process at a time | - |
| LLM, PDF, metrics, document parser, routes and response models, SDKs, web site | none shared | one call each | - | - |

Interactions: API and workers meet only in PostgreSQL rows; a worker calls the
scraper (`scrape_with_cache`), which calls Bee Engine over HTTP and the cache
table; workers post webhooks; the watcher polls the queue's tables; the API
keeps who owns a session of Bee Engine, which does not know it.

`PROJECT.json` lists the components with their status and, under `hazards`,
every place where this code is hard to test, with the property that covers it or
the reason none does.

## 2. The plan

Written:

1. `CrawlQueue` - the queue, its workers and its webhooks; `CrawlQueueProps`,
   its properties; `MCCrawlQueue`, its instances; `CrawlQueue_proofs`.
   `JobFinish` - the two transactions that end a task, statement by statement;
   `JobFinish_proofs`.
2. `CrawlJob` - the abstract job a client sees, implemented by `CrawlQueue`, by
   `JobFinish`, and by the job that the readers of `JobWatcher` read.
3. `Workflows` - agent jobs and monitors, the second loop of a worker;
   `WorkflowsProps`, `Workflows_proofs`. `MCWorkflows` runs it, and `MCWorkers`
   with `JobFinish`: how workers end what they took.
4. `JobWatcher` - how a client reads a job; `JobWatcherProps`, `MCJobWatcher`,
   `JobWatcher_proofs`.
5. `ParseUploads`, `BrowserSessions`, `EngineJobs` - what an API process and its
   engine keep in memory; `MCApi`, `Api_proofs`.
6. `RateLimiter`, `JobRequests`, `ScrapePage`, `Search`, `Robots`, `SiteLinks` -
   what happens around one request; `MCRequests`. The limiter is proved about in
   `Api_proofs`, requests and scrapes in `Requests_proofs`, the other three in
   `Sites_proofs`.
7. `Subsequences` - the parts of a sequence that queues, lists of results and
   documents are filtered to; `Subsequences_proofs`.

Left, in this order: the contexts of the browser pool; the native `/search`
response; the configuration file of the CLI; the other clients of the SDKs.

## 3. The models

### The queue

`CrawlQueue` has one variable per group of columns and one action per
transaction, or per step of a worker between two transactions.

| Model | Code |
|---|---|
| `status`, `cancelled`, `started`, `completed`, `cooling`, `expired` | columns of `crawl_jobs`; `cooling` is `last_task_started_at + delay > now()`, `expired` is `expires_at <= now()` |
| `tasks` | `crawl_tasks`; a page is a `(crawl_id, url)` pair, which the schema makes unique. `lapsed` is `lease_expires_at < now()`, `due` is `next_attempt_at <= now()`, `error` is `error_code IS NOT NULL`, `notified` is `webhook_delivered_at IS NOT NULL` |
| `token` | `lease_token`; the UUID is fresh per claim and a process holds one task at a time, so the process stands for its token |
| `pc`, `held` | where a worker is in `run_worker_forever` / `process_task`, and its `ClaimedTask` |
| `candidates`, `older` | the snapshot of a claim statement that is running, and which claim has the earlier `now()` |
| `received` | the events that reached the webhook receiver |

**The claim is two actions.** `claim_task` is one SQL statement, but it is not
atomic under READ COMMITTED. `BeginClaim` evaluates its WHERE clause in the
statement's snapshot, the lease count included. `ClaimTask` locks one candidate
(`FOR UPDATE ... SKIP LOCKED`). If the task or job row changed in between,
PostgreSQL re-evaluates the conditions on the *locked rows* only; `AfterClaim`,
`Cancel`, `FinishSuccess` and `FinishFailure` remove from `candidates` what that
recheck rejects. The count is a subquery over other rows and stays as it was.
A claim that began before another's `now()` also fails the recheck of
`last_task_started_at`, even with delay 0, hence `older`. One timing assumption
is made: a claim statement takes less time than a positive `delay_ms`.

**Everything else is one step**: both finishes hold the job row `FOR UPDATE`, so
the count against `page_limit`, the inserted links and `complete_if_drained` are
one action. That this is right is the subject of `JobFinish`. `fresh` in
`FinishSuccess` is the set of links that really insert a row; which links a page
shows is arbitrary, so any set without conflicts that fits the page limit is
possible. Idempotency keys are left to `JobRequests`, where the transaction that
reserves one is taken apart.

**The finish, taken apart.** `JobFinish` is one job whose workers run
`finish_success` and `finish_failure` one statement at a time: `LockJob` is the
`SELECT ... FOR UPDATE`, `UpdateTask` the conditional UPDATE of the task,
`InsertLink` one turn of the loop over the links, `Drain` is
`complete_if_drained`, and then `Commit`. `rows` is what is committed, `tx[w].own`
what the open transaction of a worker wrote, and `View(w)` what its statements
see: both together. A worker that finds its lease gone leaves without a trace, and
`RollBack` may come at any statement. A claim passes over a locked job, a cancel
and the cleanup wait for it. `BadMayLockShared` is the code without
`FOR UPDATE`. The task's `attempts`, leases' times, the claim's snapshot and the
webhooks are in `CrawlQueue` only.

**Failures.** A worker may crash anywhere (`Crash`, also between the claim and
the post of an event), exits when a job row vanished under it (`JobGone`) and is
restarted. A lease may lapse at any time, also while its worker is alive: 90
seconds are never renewed and a scrape makes several calls that may take that
long together. A webhook post may fail.

**Abstractions.** `attempts` stops at `max_retries + 1`, since only
`attempts <= max_retries` is ever asked. The scrape is its verdict: success with
links, a retryable failure, or another failure (also robots and path filters).
The page payload, webhook signing, and the per-webhook event filter (an event
that is filtered is claimed and not posted, like a failed post) are left out.
The claim's ORDER BY is a free choice among the candidates.

`CrawlJob` is what a client may rely on: pages are found, each gets one
outcome, the job completes with the last one, cancelling stops discovery but
lets a page in flight record its outcome, deletion removes everything.

### Workflows

`Workflows` has one action per statement of `workflows.rs`, or per step of a
worker between two.

| Model | Code |
|---|---|
| `agents` | `agent_jobs`; `late` is history: sources fetched after the cancel |
| `monitors` | `monitors`; `due` is `next_run_at <= now()`, `hook` is `webhook IS NOT NULL`, `wants` is that `create_monitor` has not run its second statement yet |
| `checks` | `monitor_checks`; `rank` orders the completed ones by `finished_at`, `base` is the check the diffs compare with, `since` is history: the highest rank at the claim |
| `pc`, `work` | where a worker is in `process_once`, and what it has in memory: the item, the URLs left and sources so far of an agent job, the predecessor and webhook of a check |
| `received` | the `monitor.*` events that reached their receiver |

The three claims are one action each, unlike the claim of the crawl queue: what
they ask is asked of the row they lock and asked again after the lock. A claim
may find nothing although a row is open (`NoAgentOpen`, `NoCheckOpen`,
`NothingDue` have no such guard), because `SKIP LOCKED` passes over locked rows.
There is no lease: `Crash` leaves the item `running`. Both loops share a process
(`worker.rs`), so `Crash` also stands for a database error, or an exit, of either.

Abstractions: the URLs of an agent job are a number, any up to its budget (the
search may fail, and the API takes any list of seeds); a fetch gives a source,
page or error alike; a check's texts and diffs are the identity of the check
they come from. `ORDER BY created_at` is a free choice. `now()` of two checks
completed at the same moment is taken in commit order. `webhook_delivered_at` is
written and never read, and left out. A check id is a row: `Checks` bounds the
checks of a behaviour.

### Reading a job

`JobWatcher` reduces the job to what the statements of `CrawlStore::get` see.

| Model | Code |
|---|---|
| `status` | `crawl_jobs.status` |
| `row`, `order` | `crawl_tasks` and their order by `finished_at`. A finishing transaction stamps its row with `now()`, its begin (`BeginFinish`), and shows it at its commit (`CommitFinish`, `GiveUpFinish`): a row can appear before rows that were already read |
| `step`, `seen`, `counted`, `offset`, `data` | the reader between two statements: `ReadStatus`, `ReadCounts` and `ReadRows` are the three statements of `get` |
| `DocumentsOf` | the documents of the pages read so far; a row that moved between two reads can be among them twice |
| `catchup`, `documents` | what a socket of `watch_firecrawl_job` sent; `Unsent` is its set `sent`, `Stops` its last round |
| `role` | a watcher, the poll loop of the Rust SDK (`BeeCrawlClient::poll`), or the answer of a cancel |

Any statement may fail, a client may disconnect, another may cancel, retention
may delete the job between two statements. The job owes the readers nothing: it
may stop. `get_errors` and `get_active` are one statement each and left out.

The job itself is that of `CrawlQueue` without leases and retries. That it was
not simplified too far is `JobAsPromised`: under the mapping of
`JobWatcherProps` (a row that is finishing is still pending, its outcome exists
from the commit on) it takes the steps of `CrawlJob`, the abstract job that
`CrawlQueue` implements as well.

### Tables in memory

`MCApi` runs three modules side by side. They share no key and no lock, so each
behaviour looks at the traffic of one (`traffic`) instead of the product.

`ParseUploads`: `uploads` and `stored` are `parse_uploads`; `Take` is
`take_parse_upload`, which finds and removes an upload under one lock; `Parse` is
what `parse_document_response` does after it. `Answers` says who may answer: the
process (`local`), the engine, or a refusal. A PDF the process cannot read is
refused, not sent on. A document is whether it is a PDF and readable, and which
of its pages have text.

`BrowserSessions`: `session` and `clock` are the engine's, `owner`, `handoff` and
`linked` the API's, and `call` is what the API is doing for a client: a handler
checks the owner, calls the engine, then updates its table, one action each.
`CallFails` drops a handler at any await, which is what a client that hangs up
does; both processes restart; `Cleanup` may close a session that is starting or
executing. An API restart forgets the owners: the session is unreachable until it
expires.

`EngineJobs`: `engineJobs` is the `JobStore`, `render` a call of `run_sync` with
its way through the `BrowserPool`; `TimesOut` is its `wait_for`, also while the
call waits for a slot or opens a page. The contexts are not in the model.

### Around a request

`MCRequests` runs six modules the same way (`subject`).

`RateLimiter` has ticks, several to a second, since Retry-After is in whole
seconds. `try_acquire` reads the clock before it takes the lock: a request enters
the table with a time up to `Lag` ticks old, in any order. `Retained` is
`states.retain`, `Current` the `pop_front` loop, which stops at the first start
still in the window (`Since`, a recursive function). `admitted` and `promised` are
history.

`JobRequests` is a request on its way to a row, for `/crawl`, `/batch/scrape` and
their v2 routes: `Decoded` and `Passed` are what the routes check and convert,
`ValidJob` what the store checks, `RowOf` the casts, `ChecksPass` the constraints
of the table, which three migrations add (`JobChecks`, `RetryChecks`,
`ThrottleChecks`). Integers keep their widths at a smaller scale (`usize` up to
`2 * BigMax + 1`, `BIGINT` up to `BigMax`, `INTEGER` up to `IntMax`). The
transaction is three actions: a key inserted by one that has not committed makes
others wait (`HoldsKey`), and `Breaks` rolls back. `faults` are the fields that a
check of form refuses; of those checks only the refusal is modelled.

`ScrapePage` is `scrape_with_cache`: `Usable` the cache's SELECT, `Plan` the
engines of `scrape_page`, `RenderAt` the tries of `render_page`, `FetchWithTls` and
`FetchStatic` plain HTTP, `Chosen` the selection, `Put` the upsert, which may
fail unnoticed. A page is who made it, its quality (two values give better, equal
and worse), its image and browser state, and the reported outcomes. `fresh` and
`lapsed` are `fetched_at` against the maximum age, and `expires_at`.

`Search` is `firecrawl_v2_search`: news and images first, then SearXNG with
DuckDuckGo behind it, the cut to the limit *before* the domain filter (`Wanted`),
and scrapes one by one or `Width` at once, in any order of ending; `Order` is the
sort by index at the end. A query has scrape options or not (`options`), which are
checked before anything is scraped, and wants pages scraped or not (`scrape`).

`Robots` is `robots_allows`. A pattern is the sequence of the pieces between its
stars, at least one, and whether it ended in `$`; `Offset` walks them as the code
does (`After` over one piece).
`site` is whether the URL is public and the file can be read: a URL that is not is
refused, a file that cannot be read allows everything (`Verdict`).
`Means` and `Excluded` are the reference: *some* placement of the pieces exists,
and no allowing rule is as long. They are about the path of the page alone. The
code asks a second time with a slash behind the path (`Allows`), so that
`Disallow: /docs/` also refuses `/docs`, and `RulesObeyed` says what this may do:
a page the file excludes is never scraped, and a page that is refused is excluded
or has a rule that tells it from the directory of that name (`TellsDirectory`).
That exception is not harmless, see finding 4. Parsing of the file is left out.

`SiteLinks` is the discovery of links and what `finish_success` inserts of them:
`InScope` compares a link with the page it was found on, since `map_site` does
not know the crawl's start. A host and a path are model values with the relations
the filters ask for. `Listings` is what a page or sitemap can show, in any order;
a cut to the limit is a choice.

## 4. What the runs check

Every run: `tlc -config <cfg> <module>`.

| Run | Module, cfg | Instance | Shows |
|---|---|---|---|
| `crawl` | `MCCrawlQueue`, `MCCrawl` | 1 crawl, 4 pages (two are aliases), limit 2, depth 2, cap 2, 1 retry, 2 workers | `TypeOK`, `CompletedIffDrained`, `LeaseHolderDecides`, `CancelStopsWork`, and `ImplementsJob`: `CrawlQueue` implements `CrawlJob` |
| `crawl_jobs` | `MCCrawlQueue`, `MCCrawlJobs` | three worlds on 2 workers: a crawl with a webhook, one with a delay, a batch of 3 | `NoDuplicateEvent`, `CompletedEventSound`, `OvershootBounded`, `DelayedJobsKeepCap`, `DelaySpacesStarts` |
| `crawl_settles` | `MCCrawlQueue`, `MCCrawlSettles` | 1 crawl, 2 pages, 1 retry, 2 workers, fairness | `EventuallySettles`: every accepted job ends |
| `job_watcher` | `MCJobWatcher` | 3 pages, pages of 1 row, 1 reader of any kind, fairness | `DoneIsComplete`, `NoDocumentTwice`, `FinalAnswersExact`, `JobAsPromised`: the job refines `CrawlJob`; `ReadersEnd` |
| `api` | `MCApi` | 1 upload, 2 parses; 2 clients, 2 sessions, 1 hand-off, room for 1 session; 2 renders, 2 ids, 1 slot; fairness | `TakenOnce`, `ToldSessionsOwned`, `SessionsClose`, `JobsSettle` |
| `requests` | `MCRequests` | the six subjects of section 3, bounds below | `WindowHeld`, `ActiveExact`, `RetryAfterSuffices`, `OneJobPerKey`, `RowsRunnable`, `CachedPagePossible`, `SelectionSound`, `ReplyInProviderOrder`, `RulesObeyed`, `ScopeHeld` |
| `workers` | `MCWorkers` | 2 workers with 2 agent jobs of budget 2, fairness; or with the tasks of 1 crawl job of 6 pages (two are aliases), limit 4 | `AgentsEnd`: agent jobs end; `FinishesAsOne`: the statements of concurrent finishes implement `CrawlJob`; `LinksKept` |
| `workflows` | `MCWorkflows` | 2 workers with 2 agent jobs of budget 2, or with 1 monitor and 3 checks | `WorkflowTypeOK`, `OneWorkerPerItem`, `BudgetHeld`, `CancelIsPrompt`, `AgentsEndOnce`, `BaselineIsRecent`, `EventsMatchRecords` |
| `cap_exceeded` | `MCCrawlQueue`, `MCCrawlCapExact` | a batch of 3, `max_concurrency` 1, 2 workers | finding 1 below |
| `retries_spent_by_crashes` | `MCCrawlQueue`, `MCCrawlRetries` | 1 crawl, 1 page, 1 worker, 1 retry | finding 2 below |
| `crawl_defaults` | `MCRequests`, `MCCrawlDefaults` | as `requests` | finding 3 below |
| `anchored_allow` | `MCRequests`, `MCAnchoredAllow` | as `requests` | finding 4 below |

The largest, `requests`, has about 1.2 million distinct states, `crawl_jobs` 0.5
million, `job_watcher` 0.4 million, `api` and `workers` 0.2 million each.

**Bounds of the queue and the workflows.** Two workers give a lease holder and
one that lost its lease, two overlapping claims, and two finishes in either
order; four pages with a limit of two make the limit bind with a choice. One
retry distinguishes first, retried and last attempts; `crawl_jobs` has none,
since its properties do not ask for attempts. Nothing else bounds the state:
crashes, restarts, lease losses and reclaims may happen any number of times.
Worker symmetry is used in the safety runs only. For workflows, a budget of two
gives a cancellation before, between and after the fetches; three checks on two
workers give a check that overlaps two others and one that is claimed between
their ends.

**Bounds of `workers`.** An agent job and a crawl job share no row, so a behaviour
is about one kind (`kind`). In the crawl job the seed finds two pages, which leaves one place of four.
The two are then finished at once, by two workers, and find four pages between
them that are new: one of them is a second spelling of another, so both workers
can want the last place for different pages or for the same one. They also link
back to pages that have a row.
The run may stop: a deleted job leaves nothing to do.

**Bounds of the readers.** Pages of one row and three rows give a first, a middle
and a last page, and a row that moves from one to another between two reads.
Readers do not see each other, so one is enough.

**Bounds of `api`.** An upload id is used once, so one is enough for two parses
that race; two clients for one place make a creation fail; a closed session's id
is not used again, so the second session is what comes after the first. Two ids
for two renders give a reused and a deleted id while a task runs.

**Bounds of `requests`.** Two keys, 2 requests in a window of 2 s, 1 at a time, 2
ticks to the second, retention 3 s, `Lag` 1 and `Horizon` 6: a run sees a window
close and a key pruned. `BigMax` 15 and `IntMax` 3 with every field at 0, 1, the
maxima of both widths, and just above them. Two callers for one key and two job
ids, both refused and broken requests among them. Two scrapes of one target over
two engines: a second target or scrape would only be a second cache row or a
repetition. Searches of three URLs in two domains. All robots patterns of up to
two stars whose pieces have at most two characters, on all paths of up to four.
Three hosts and three nested paths, a page limit of 4 and depth 2: a chain of
three pages. Symmetry of keys, scrapes and engines.

**Fairness** (`FairSpec` of `CrawlQueueProps`, for `crawl_settles`). Weak fairness of each worker's
own step: every await ends, since each HTTP call has a timeout. Weak fairness of
restarting: workers run as a Kubernetes Deployment. Weak fairness of time: lease,
retry delay and job delay run out. Strong fairness of `ClaimTask`: a candidate
skipped as locked is not locked for ever. No fairness of clients, crashes or
retention. `EventuallySettles` has the premise `Calm`: from some time on no
process dies and no lease lapses under a live holder. Without it the code does
livelock on a page that always outlives its lease: `max_retries` is asked only
when a failure is recorded.

`workers` uses the same assumptions on the workers of agent jobs: weak fairness of each worker's
step and of its restart, strong fairness of claiming a given job, which is the
oldest at some time, since ids of a behaviour are finite. `AgentsEnd` is for
behaviours in which processes stop dying, and excepts the jobs whose worker did
die: without a lease nobody takes them over.

`job_watcher`: weak fairness of a reader's own step; statements and sleeps end.
The job may stop, so `ReadersEnd` is about what follows its end. `api`:
`SessionsFairness` is the engine's cleanup loop and the clock, and no client;
`EngineFairness` is the timers and the steps after them, and not the render
itself, which may hang.

**Mutants.** Operators named `Bad...` are plausible mistakes in the operator
after them (a dropped recheck, an off-by-one in the page limit, completing
before inserting links, a lock that is not taken, ...). `PROJECT.json` pairs each property with one that
breaks it.

## 5. Findings

1. *The concurrency cap is not atomic across workers.*
   `docs/firecrawl-compatibility.mdx:104-106` says "`maxConcurrency` caps active
   task leases per crawl or batch job. Both limits are enforced atomically by
   the shared PostgreSQL queue across worker processes." The claim
   (`crawl.rs:412`) counts leases in its snapshot and does not count again after
   locking. Run `cap_exceeded`: two claims begin, both commit, two leases under a
   cap of 1. The damage is bounded (`OvershootBounded`), and jobs with a delay
   keep the cap (`DelayedJobsKeepCap`) because the delay *is* rechecked.
2. *Crashes spend retries.* `README.md:105-106` says "`maxRetries` controls retry
   attempts after the first failed scrape". `attempts` counts claims, so a page
   whose first worker died can fail finally on its first failed scrape
   (`crawl.rs:556`). Run `retries_spent_by_crashes`.
3. *A crawl without scrape options is refused.* `POST /v2/crawl` takes
   `scrape_options.unwrap_or_default()` (`routes.rs:1032`), and
   `FirecrawlV2ScrapeOptions` derives `Default` (`models.rs:276`): the timeout is 0
   and `validate_browser_actions` answers 400. `models.rs:281` says of the field
   `#[serde(default = "default_timeout_milliseconds")]`, thirty seconds, and
   `docs/firecrawl-compatibility.mdx:90-92` describes what a crawl without options
   does. The batch route builds its default itself. Run `crawl_defaults`.
4. *An `Allow` that ends in `$` lets nothing through.* `web_extract.rs:2040` asserts
   `robots_text_allows(robots, &url("/bee/feed"), "BeeBot/1.0")` of a file with
   `Disallow: /bee` and `Allow: /bee/feed$`. That function does allow it, but
   `robots_allows` asks it again with a slash behind the path
   (`web_extract.rs:437-441`), which that `Allow` does not fit, and the page is
   refused. Run `anchored_allow` shows it with `Disallow: /` and `Allow: /a$`.

**Observations**, met while modelling, that no run states as a property:

- A watcher of a cancelled job gets done without the documents of pages still in
  flight (`routes.rs:1229-1258`; `DoneIsComplete` is about completed jobs).
- A pattern with `*` and `$` is matched greedily: `/*a$` does not match `/aa`
  (`web_extract.rs:519-547`). `RulesObeyed` leaves out the files in which one
  pattern has both, and no others.
- A page taken after browser actions is stored under a key without them and may
  answer a request that has none (`web_extract.rs:107`). A cached page is reported
  with the fallback flag set and without browser state, so its hand-off has no
  cookies.
- A slow scrape can replace a newer row of the cache with its older page.
- An upload is used up although its parse fails.
- `parse_document_response` answers an `auto` request for Markdown in the process
  as soon as the PDF yields any text, with `ocrPages` 0 (`routes.rs:950`), and only
  the engine has OCR: scanned pages of a mixed document are left out, while
  `README.md:215-218` promises "`auto` applying OCR to pages without usable
  embedded text".
- `process_agent` writes `sources` and `used` in its last statement only
  (`workflows.rs:393`, `:408`), while `docs/firecrawl-compatibility.mdx:223-224`
  says that source documents "remain visible while the job runs".
- `BrowserPool.render` leaves a context open when `add_init_script`, `route` or
  `new_page` fails or is cancelled (`browser.py:57-65`). The cleanup loop of the
  engine ends for good if closing a context raises. A session whose execution
  outlasts `activity_ttl` is closed under it. `browser_owners` keeps sessions that
  expired.
- A deleted engine job reappears when its task ends, and an id that is used again
  may get the older result (`jobs.py:62`).
- The scope of a link is that of the page it is on, so each step down narrows what
  the next may reach (`crawl.rs:690-693`); a sitemap's URL drops the port; lists
  are cut to the limit before they are filtered, so aliases and foreign links
  crowd out pages, and a search may return fewer results than it could.
- The native routes cast without a check: `maxConcurrency` 2^32 + 1 is stored as 1.
  Only the constraints of the table refuse zero and negative values.
- A page event may follow the completed event (`crawl.rs:760`); the event of a
  page may carry the document of a worker that lost its lease (`crawl.rs:728`).
- A steady stream of agent jobs starves the monitor checks (`workflows.rs:320`),
  and a claimed check or agent job whose worker dies stays running for ever.

## 6. What is proved

**The queue**: for any finite number of pages and workers, any jobs and any limits, from one
assumption, `QueueAssumption` in `CrawlQueue`: pages and workers are finite,
every page has a job, `page_limit` and `max_concurrency` are at least 1 (the API
refuses 0), and the `No...` constants are outside their sets. Nothing is assumed
about `DedupKey`.

**`CrawlQueue_proofs`.** `TypeOK` first, with the fact that a worker holds a page
exactly while it processes a task. Then `CompletedIffDrained`, which is not
inductive: a finish sets the status by looking at one job's open tasks, and what
it may conclude depends on what can still be claimed. `QueueInv` adds
- `CancelRecorded`: the finish tests `cancel_requested`, the property the status;
- `TasksHaveJobs`: an accepted job starts with no left-over tasks;
- `LeasedJobsStarted`: a finish under a valid lease is about a job that has
  started and is not completed;
- `CandidatesOpen`: a running claim, which sets the job to `scraping` without
  looking, still aims at an open task of a job that has not ended. This is what
  the row locks and the recheck buy; without it a completed job is revived.

`JobSteps` then says once what a step may do to a job, and `CancelStopsWork` is
read off it, and so is `JobsEndOnce`: no run checks that one by itself, since it
follows from `ImplementsJob`.

The claims come next. A worker *contends* for a job while its running claim
has a candidate of it. `ClaimSteps`: every step loses leases and contenders, adds
a contender while the job is below its cap, or turns one contender into one
lease. So leases + contenders stay below cap + workers (`OvershootBounded`); a
claim of a delayed job leaves no contender, so its cap holds exactly
(`DelayedJobsKeepCap`); and no candidate belongs to a cooling job
(`DelaySpacesStarts`).

*The job a client sees.* `PageSteps` gives the five things a step can do to a page,
hence `LeaseHolderDecides`; `FoundSteps` counts the three inserting transactions
(`PageLimitKept`, which the mapping needs); `ClientStep` maps every step to a step of `CrawlJob` or to
a stutter, using all of the invariants, hence `ImplementsJob`.

Then the events. An event is *sealed* once it was claimed or its job was
deleted. Sealing is for ever (`MarkSteps`), only an unsealed event is claimed,
and posting ends the claim (`EventSteps`), hence `NoDuplicateEvent`; and a job is
marked completed only after it completed, hence `CompletedEventSound`.

**`JobFinish_proofs`.** From `FinishAssumption`: finitely many pages, any links,
keys and workers, and a positive limit. The argument is the lock. `LockInv`: only
its holder has written anything, and read a cancel flag that is still the flag,
since a cancel waits. So nothing else changes a row while it is held
(`OthersLeave`), and what the holder sees is what the table will be at its commit
(`OwnInv`: it has its task to itself and wrote, besides, rows for pages that have
none; `InsertSees`). Three things follow, none of which holds without the lock.
The count a link is inserted against includes what every other worker inserted, so
the limit holds for the sum (`LimitInv`). A link that was tried has a row or met a
full table, and stays so until the commit, as rows only come (`Tried`, `LinksStep`),
hence `LinksKept`. And the drain test sees the last outcome of all (`DrainInv`), so
each commit is one `Record` of `CrawlJob` and completes the job exactly when it is
the last (`ClientRecord`); the other statements change nothing a client sees. Hence
`FinishesAsOne`.

**`Workflows_proofs`.** From `WorkflowAssumption`: budgets are positive (the
table's CHECK), agent and check ids differ, and checks are finite in number; any
number of workers. `WorkflowTypeOK` first. Then `OneWorkerPerItem`, `BudgetHeld`
and `CancelIsPrompt` together (`AgentInvariant`), which need each other: that a
held job is running keeps the claims away from it, so only its holder fetches for
it, and a second fetch after the cancel would have to come from that holder, who
asks before each. `QuietStep` disposes of the steps that take, end and fetch
nothing. `AgentsEndOnce` follows: the final UPDATE has no condition, but its
worker holds the job, so the job is running. `EventsMatchRecords` needs that a
worker which is about to post recorded its check, and that a recorded check
changes only by being deleted with its monitor. `BaselineIsRecent` needs that the
completed checks have the ranks 1 to n, each once, so that a check completed
later has a higher rank than all that were there at a claim; and that the base a
worker read was the last one at its claim or later, and of the same monitor.

**`Subsequences_proofs`.** What a recursive function computes is proved by
induction without the induction theorems of the library, which take an operator
as a parameter: `SetInduction` says that a *set* of naturals that holds 0 and with
every n also n + 1 holds all of them, from `LeastElement`. That a recursive
function has the value its body says is shown that way (`PickedRecursion`): the
set of the n up to which such a function exists is all of `Nat`. Then
`Picked(s, I)` lists the elements of `s` at the indexes in `I`, each index once and
in order (`PickedLists`). The same argument is made for `Since` of the limiter
and `Offset` and `Length` of the robots rules.

**`JobWatcher_proofs`.** From `WatcherAssumption`: pages have a size of at least
1 and a job has finitely many; any number of readers.
- *The job*: `JobInv` says that what has an outcome or is about to has its place in
  the order, that a queued job has begun nothing, and that a completed one has
  nothing left. With it every step is a step of `CrawlJob` or changes nothing a
  client sees (`JobRefines`): the last outcome completes the job because what is
  still finishing is still pending, and the total stays within the pages there
  are. Hence `JobAsPromised`.
- *What was sent*: `SentInv` relates `documents`, `catchup` and the point a reader is
  at; what a round sends is what the catchup and the rounds before did not, each
  document once, though it may have read one twice (`UnsentDocuments`). Hence
  `NoDocumentTwice`.
- *Under the status completed*: `JobSettled` says that a completed job stands still
  until it is deleted. `Exact` follows a reader that has read that status: the
  rows it has are the front of the visible ones, up to its offset; its count is
  the true one, so it stops after the last page and not before. It depends on the
  order of the statements: the status is read first. Hence `FinalAnswersExact`
  and, as the last round sends what is missing, `DoneIsComplete`.

**`Api_proofs`.** `TakenOnce`: an upload that was taken has left the table, and
since a reference is made once it never comes back. `ToldSessionsOwned`: the
owner is inserted before the id is told, only the request that closed a session
removes its owner, sessions only age (`unused`, `starting`, `open`, `closed`), and
a restart of the API forgets both what it told and what it owned. For any number
of clients, sessions, parses and uploads.

The limiter is there too, for any limits, keys, ticks to the second and lateness of
the clock readings below the window (`LimiterAssumption`: the retention is at
least the window and that lateness). A prune keeps entries in use, so `active` of
an entry is the number of permits, and a key without an entry has none
(`ActiveExact`). `WindowHeld` is about `admitted`, the true times of the last
`Window - Lag` ticks (a window less the lateness); the table has
times up to `Lag` older, and not in order, so that the loop, which stops at the
first one in the window, may leave older ones behind it and may drop what came
late. `WindowInv` is the relation that survives this. `Covers`: the last entries of
the queue stand, one for one, for the admissions that still count, each with a
time at most `Lag` before the true one; so what the loop takes from the front is
older than all that count (`PopKeeps`), and the queue, which is below the limit
when a request is admitted, bounds them. `SeenSince`: a key was last seen at most
`Lag` before its last admission, so a prune forgets only keys whose admissions no
longer count (`PruneKeeps`). `Opens`: at the time that was promised to a refused
client the front of the queue, unless the key was admitted meanwhile, will have
left the window; rounding up to whole seconds only adds to it (`RetryReaches`).
Hence `RetryAfterSuffices`.

**`Sites_proofs`.** *Links*: each link is in the scope of the page it was found
on, and scope is transitive because prefixes and subdomains are
(`LinksAssumption`), hence `ScopeHeld`.

*Robots*, for any paths, any files, any number of stars: the offsets the matcher
computes are the ends of places for the pieces (`OffsetEnds`), and no choice of
places ends earlier at any piece (`OffsetEarliest`), because each is found at its
leftmost place after an offset that was itself the earliest. So the greedy match
exists exactly when some placement does (`FitsMeans`); with `$` this needs that
there is no star, for the earliest end is then the only one. A pattern that
matches is no longer than the text, so among the rules that match there is a
longest one, and at a tie one that allows (`OnePrevails`): `CHOOSE` finds it, and
its verdict is the one `Excluded` defines (`PermitsUnlessExcluded`). When only the
path with the slash is excluded, the rule that excludes it or one that allows the
page tells the two apart (`OnlyDirectoryExcluded`). Hence `RulesObeyed`. The hypothesis of
`RulesObeyed`, no pattern with both, cannot be dropped (section 5).
`RobotsAssumption` says what a parsed file looks like: a pattern is split into at
least one piece.

*Search*: each scrape records the index of its result once, in any order, so the
indexes recorded at the end are all of them, each once, and sorting those gives
the identity (`RisingIsIdentity`, `OrderOfIndexes`); what is wanted of a
provider's answer is a part of it in its order (`WantedList`). Hence
`ReplyInProviderOrder`. `SearchAssumption` says that answers are lists of URLs and
that the mark of a result without an outcome is not an outcome.

**`Requests_proofs`.** *Requests*: a key is held by at most one transaction, a held
key is not reserved yet, and a reserved one has its one job (`OneJobPerKey`);
requests under way passed the checks, casts of positive numbers the constraints
let pass are positive, and the number of distinct URLs is at least 1 and, for a
batch, its own limit, which `MaxUrls <= BigMax` keeps from wrapping
(`RowsRunnable`). `RowAssumption`, that a checked request has a row, is evaluated
by TLC for the workloads of the run. *Scrapes*: every row of the cache was made
under the mode in its key; of the candidates at most one is rendered and one
fetched, so a best one exists and `CHOOSE` finds it, whichever came first
(`CachedPagePossible`, `SelectionSound`).

**Only model-checked:** the liveness properties `EventuallySettles`, `AgentsEnd`,
`ReadersEnd`, `SessionsClose` and `JobsSettle`, which need fairness and `ENABLED`.
Every invariant and every action property that a passing run checks is proved as
well, for all values of the constants the assumptions allow. The four properties
of section 5 that runs refute are false.

**Not modelled.** The document parser, LLM, PDF and metrics helpers are single
calls of libraries or services with conversions around them and no shared state.
The HTTP routes not named in section 3 are the same, and response models are
formatting. The CLI has one file that one process writes. Of the SDKs only the
poll loop has state. Left out of modelled parts: webhook signatures and payloads,
the HTML to Markdown conversion, the parsing of robots.txt, sitemaps and
providers' answers, the native `/search` response, contexts of the browser pool.
