SPECIFICATION MCSpec
CONSTANTS
    ApiKeys = {k2, k3}
    RequestsPerMinute = 2
    MaxPerKey = 1
    TicksPerSecond = 2
    WindowSeconds = 2
    RetentionSeconds = 3
    Lag = 1
    Horizon = 6
    Never = Never
    Callers = {c1, c2}
    Keys = {k1}
    JobIds = {j1, j2}
    Workloads <- MCWorkloads
    BigMax = 15
    IntMax = 3
    Second = 2
    MinTimeout = 2
    MaxTimeout = 8
    DefaultTimeout = 4
    MaxDelay = 6
    MaxUrls = 2
    DefaultConcurrency = 2
    Retries = 2
    NoKey = NoKey  NoRow = NoRow  Omitted = Omitted
    Scrapes = {r1, r2}
    Targets = {t1}
    Engines = {e1, e2}
    TlsClient = TRUE
    NoPage = NoPage
    Urls = {"a1", "b1", "b2"}
    DomainOf <- MCDomainOf
    Answers <- MCAnswers
    Queries <- MCQueries
    Searxng = TRUE
    Width = 2
    Unsaid = Unsaid
    Characters = {"a", "/"}
    RobotPaths <- MCRobotPaths
    Slash = "/"
    Files <- MCFiles
    AgentSize <- MCAgentSize
    Strange = {"other"}
    Hosts = {"host", "sub", "other"}
    Paths = {"root", "docs", "page"}
    Subdomain <- MCSubdomain
    Prefix <- MCPrefix
    Listings <- MCListings
    Start <- MCStart
    Policies <- MCPolicies
    PageLimit = 4
    MaxDepth = 2
INVARIANTS BareCrawlAccepted
CHECK_DEADLOCK FALSE
