SPECIFICATION Spec
CONSTANTS
    Worlds = {{"crawl"}}
    Jobs = {"crawl"}
    Pages = {"c1"}
    MCPagesOf <- AllPages
    JobOf <- PageOwner
    DedupKey <- OwnKeys
    Batches = {}
    Delayed = {}
    Hooked = {}
    PageLimit <- One
    MaxDepth <- Zero
    MaxConcurrency <- One
    MaxRetries <- One
    w1 = w1  w2 = w2
    Workers = {w1}
    NoPage = NoPage  NoWorker = NoWorker
PROPERTIES RetriesAfterFirstFailure
