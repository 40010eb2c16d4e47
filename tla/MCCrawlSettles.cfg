SPECIFICATION FairSpec
CONSTANTS
    Worlds = {{"crawl"}}
    Jobs = {"crawl"}
    Pages = {"c1", "c2"}
    MCPagesOf <- AllPages
    JobOf <- PageOwner
    DedupKey <- OwnKeys
    Batches = {}
    Delayed = {}
    Hooked = {}
    PageLimit <- Two
    MaxDepth <- One
    MaxConcurrency <- One
    MaxRetries <- One
    w1 = w1  w2 = w2
    Workers = {w1, w2}
    NoPage = NoPage  NoWorker = NoWorker
PROPERTIES EventuallySettles
