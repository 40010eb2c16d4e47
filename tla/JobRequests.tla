---------------------------- MODULE JobRequests -----------------------------
(***************************************************************************)
(* How a crawl or batch request becomes a job: the native routes /crawl    *)
(* and /batch/scrape, their Firecrawl counterparts with the defaults and   *)
(* limits of apps/api/src/routes.rs and models.rs, and the transactions of *)
(* CrawlStore::enqueue and enqueue_batch.  CrawlQueue starts where this    *)
(* module ends: its assumptions on limits and its atomic EnqueueCrawl are  *)
(* what is checked here.                                                   *)
(*                                                                         *)
(* Numbers keep the widths of the code at a smaller scale: usize and u64   *)
(* are 0 .. 2 * BigMax + 1, BIGINT is -BigMax - 1 .. BigMax and INTEGER    *)
(* -IntMax - 1 .. IntMax.                                                  *)
(***************************************************************************)
EXTENDS Integers, FiniteSets, SequencesExt

CONSTANTS
    Callers,   \* clients with at most one request under way
    Keys,      \* x-idempotency-key values
    JobIds,
    Workloads, \* which requests clients send: sets of requests
    BigMax, IntMax,
    Second,    \* milliseconds in a second
    MinTimeout, MaxTimeout, DefaultTimeout,  \* 1, 300 and 30 seconds
    MaxDelay,                                \* 60 seconds
    MaxUrls,                                 \* 1000
    DefaultConcurrency, Retries,             \* 10 and 2
    NoKey, NoRow, Omitted

ASSUME RequestsAssumption ==
    /\ {BigMax, IntMax, Second, DefaultConcurrency} \subseteq Nat \ {0}
    /\ {MinTimeout, MaxTimeout, DefaultTimeout, MaxDelay, MaxUrls, Retries} \subseteq Nat
    /\ NoKey \notin Keys /\ MaxUrls <= BigMax

VARIABLES
    asked, \* the requests of this workload
    call,  \* per client: its request, how far it is, and the answer
    keys,  \* idempotency_keys
    rows   \* crawl_jobs with their crawl_tasks

requestVars == <<asked, call, keys, rows>>

UMax == 2 * BigMax + 1

(* The casts `as i64` and `as i32` keep the low bits.                      *)
Signed(n, max) ==
    LET low == n % (2 * (max + 1)) IN IF low > max THEN low - 2 * (max + 1) ELSE low

(* u64::saturating_add.                                                    *)
Plus(m, n) == IF m + n > UMax THEN UMax ELSE m + n

CeilDiv(m, n) == (m + n - 1) \div n
AtLeastOne(n) == IF n = 0 THEN 1 ELSE n

IsV2(q) == q.route \in {"v2crawl", "v2batch"}
IsBatch(q) == q.route \in {"batch", "v2batch"}

-----------------------------------------------------------------------------
(* The Firecrawl routes.                                                   *)

(* Fields that are missing from scrapeOptions get their serde defaults,    *)
(* but a missing scrapeOptions is FirecrawlV2ScrapeOptions::default(),     *)
(* whose timeout is the 0 of the derived Default.                          *)
Options(q) ==
    IF q.options # Omitted
    THEN [q.options EXCEPT !.timeout = IF @ = Omitted THEN DefaultTimeout ELSE @]
    ELSE [timeout |-> IF IsBatch(q) THEN DefaultTimeout ELSE 0, first |-> 0, waits |-> << >>]

(* What validate_browser_actions adds up: waitFor and every wait action.   *)
Waits(o) == FoldLeft(Plus, o.first, o.waits)

ValidOptions(o) ==
    /\ o.timeout \in MinTimeout .. MaxTimeout
    /\ Waits(o) <= o.timeout

(* firecrawl_delay_ms and firecrawl_max_concurrency.                       *)
ValidDelay(d) == d = Omitted \/ d \in 1 .. MaxDelay
ValidConcurrency(n) == n = Omitted \/ n \in 1 .. IntMax

(* The other checks of the fields: `faults` are the fields of a request    *)
(* that they refuse.                                                       *)
JsonParses(q) == "json" \notin q.faults
KeyIsUuid(q) == "key" \notin q.faults
ValidDefaults(q) == {"sitemap", "zeroDataRetention"} \cap q.faults = {}
ValidWebhook(q) == "webhook" \notin q.faults
ValidScrape(q) == "scrape" \notin q.faults
ProxyConfigured(q) == "proxy" \notin q.faults
MarkdownOnly(q) == "formats" \notin q.faults

ValidV2(q) ==
    /\ JsonParses(q) /\ ValidWebhook(q)
    /\ ValidConcurrency(q.concurrency)
    /\ ValidOptions(Options(q)) /\ ProxyConfigured(q) /\ ValidScrape(q) /\ MarkdownOnly(q)
    /\ IsBatch(q) \/ (KeyIsUuid(q) /\ ValidDefaults(q) /\ ValidDelay(q.delay))

(* What the handler passes on to the store; a delay is given in half       *)
(* milliseconds and rounded up.                                            *)
FromV2(q) ==
    [q EXCEPT
        !.concurrency = IF @ = Omitted THEN DefaultConcurrency ELSE @,
        !.delay = IF @ = Omitted THEN 0 ELSE CeilDiv(@, 2),
        !.retries = Retries,
        !.seconds = AtLeastOne(CeilDiv(Options(q).timeout, Second)),
        !.wait = Options(q).first]

Passed(q) == IF IsV2(q) THEN FromV2(q) ELSE q

(* The native routes only ask for well-formed JSON.                        *)
Decoded(q) == IF IsV2(q) THEN ValidV2(q) ELSE JsonParses(q)

-----------------------------------------------------------------------------
(* CrawlStore.                                                             *)

(* The URLs that remain: normalized, each once.                            *)
Distinct(urls) == ToSet(urls)

(* The checks of enqueue and enqueue_batch before their transaction.       *)
ValidJob(q) ==
    /\ q.urls # << >> /\ "malformed" \notin ToSet(q.urls)
    /\ q.concurrency # 0
    /\ IF IsBatch(q)
       THEN Cardinality(Distinct(q.urls)) <= MaxUrls
       ELSE q.limit # 0 /\ q.patterns

(* The row the INSERT asks for.                                            *)
RowOf(q) ==
    [key |-> q.key, route |-> q.route, tasks |-> Distinct(q.urls),
     limit |-> Signed(IF IsBatch(q) THEN Cardinality(Distinct(q.urls)) ELSE q.limit, BigMax),
     depth |-> Signed(IF IsBatch(q) THEN 0 ELSE q.depth, IntMax),
     concurrency |-> Signed(q.concurrency, IntMax),
     delay |-> Signed(IF IsBatch(q) THEN 0 ELSE q.delay, BigMax),
     retries |-> Signed(q.retries, IntMax),
     seconds |-> Signed(q.seconds, BigMax), wait |-> Signed(q.wait, BigMax)]

(* A request that passes the checks has a row to store, a limit, and a     *)
(* list of URLs: that of a batch, or the one URL of a crawl.               *)
ASSUME RowAssumption ==
    \A w \in Workloads : \A q \in w :
        Decoded(q) /\ ValidJob(Passed(q)) =>
            /\ RowOf(Passed(q)) # NoRow
            /\ Passed(q).urls \in Seq(STRING) /\ Passed(q).limit \in Nat
            /\ IsBatch(Passed(q)) \/ Len(Passed(q).urls) = 1

(* The CHECK constraints of crawl_jobs, by the migration that added them.  *)
JobChecks(row) == row.limit > 0 /\ row.depth >= 0
RetryChecks(row) == row.retries >= 0

BadThrottleChecks(row) == row.delay >= 0

ThrottleChecks(row) == row.delay >= 0 /\ row.concurrency > 0

ChecksPass(row) == JobChecks(row) /\ RetryChecks(row) /\ ThrottleChecks(row)

Idle == [at |-> "idle", request |-> Omitted, answer |-> Omitted]
Goes(c, at) == call' = [call EXCEPT ![c].at = at]
Ends(c, answer) == call' = [call EXCEPT ![c].at = "ended", ![c].answer = answer]

Submit(c, q) ==
    /\ call[c].at = "idle"
    /\ call' = [call EXCEPT ![c] =
                   IF Decoded(q) /\ ValidJob(Passed(q))
                   THEN [at |-> "begin", request |-> Passed(q), answer |-> Omitted]
                   ELSE [at |-> "ended", request |-> q, answer |-> "invalid"]]
    /\ UNCHANGED <<asked, keys, rows>>

(* The key row of a transaction that has not ended makes others wait.      *)
HoldsKey(c, k) == call[c].at \in {"reserved", "inserted"} /\ call[c].request.key = k

BadReserve(c) == keys' = keys \cup {call[c].request.key}

(* The INSERT shows to others only after the commit.                       *)
Reserve(c) == UNCHANGED keys

ReserveKey(c) ==
    LET k == call[c].request.key IN
    /\ call[c].at = "begin" /\ k # NoKey
    /\ \A d \in Callers : ~HoldsKey(d, k)
    /\ IF k \in keys
       THEN Ends(c, "conflict") /\ UNCHANGED keys
       ELSE Goes(c, "reserved") /\ Reserve(c)
    /\ UNCHANGED <<asked, rows>>

InsertJob(c) ==
    LET q == call[c].request IN
    /\ \/ call[c].at = "reserved"
       \/ call[c].at = "begin" /\ q.key = NoKey
    /\ IF ChecksPass(RowOf(q)) THEN Goes(c, "inserted") ELSE Ends(c, "error")
    /\ UNCHANGED <<asked, keys, rows>>

Commit(c, j) ==
    LET q == call[c].request IN
    /\ call[c].at = "inserted" /\ rows[j] = NoRow
    /\ keys' = keys \cup ({q.key} \ {NoKey})
    /\ rows' = [rows EXCEPT ![j] = RowOf(q)]
    /\ Ends(c, "accepted")
    /\ UNCHANGED asked

(* The storage fails, or the client hangs up and its handler is dropped:   *)
(* whatever the transaction did is rolled back.                            *)
Breaks(c) ==
    /\ call[c].at \in {"begin", "reserved", "inserted"}
    /\ Ends(c, "error")
    /\ UNCHANGED <<asked, keys, rows>>

(* The client goes on to another request, or sends this one again.         *)
Leaves(c) ==
    /\ call[c].at = "ended"
    /\ call' = [call EXCEPT ![c] = Idle]
    /\ UNCHANGED <<asked, keys, rows>>

RequestsInit ==
    /\ asked \in Workloads
    /\ call = [c \in Callers |-> Idle]
    /\ keys = {}
    /\ rows = [j \in JobIds |-> NoRow]

RequestsNext ==
    \E c \in Callers :
       \/ \E q \in asked : Submit(c, q)
       \/ ReserveKey(c) \/ InsertJob(c) \/ Breaks(c) \/ Leaves(c)
       \/ \E j \in JobIds : Commit(c, j)

RequestsSpec == RequestsInit /\ [][RequestsNext]_requestVars

-----------------------------------------------------------------------------
Accepted == {j \in JobIds : rows[j] # NoRow}

(* A key is reserved exactly when its one job exists: no two requests that *)
(* race, are refused by a constraint, break off or are sent again get a    *)
(* second job, or use the key up without one (the transaction of enqueue). *)
OneJobPerKey ==
    \A k \in Keys :
        Cardinality({j \in Accepted : rows[j].key = k}) = IF k \in keys THEN 1 ELSE 0

(* Whatever numbers a client sends, through both conversions and both      *)
(* casts, a stored job can run: its limits are positive, it has a task and *)
(* no more tasks than its limit (what CrawlQueue assumes of its jobs).     *)
RowsRunnable ==
    \A j \in Accepted :
        /\ rows[j].limit > 0 /\ rows[j].concurrency > 0
        /\ rows[j].depth >= 0 /\ rows[j].retries >= 0 /\ rows[j].delay >= 0
        /\ Cardinality(rows[j].tasks) \in 1 .. rows[j].limit

(* The documented defaults: a Firecrawl crawl that names nothing but its   *)
(* URL is not invalid.  Not so: it is refused for its timeout (see         *)
(* README.md).                                                             *)
IsBare(q) ==
    /\ q.route = "v2crawl" /\ q.faults = {} /\ "malformed" \notin ToSet(q.urls)
    /\ q.options = Omitted /\ q.delay = Omitted /\ q.concurrency = Omitted /\ q.limit > 0
    /\ q.patterns

BareCrawlAccepted ==
    \A c \in Callers : call[c].answer = "invalid" => ~IsBare(call[c].request)
=============================================================================
