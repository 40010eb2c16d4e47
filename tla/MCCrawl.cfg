SPECIFICATION Spec
CONSTANTS
    Worlds = {{"crawl"}}
    Jobs = {"crawl"}
    Pages = {"c1", "c2", "c3", "c4"}
    MCPagesOf <- AllPages
    JobOf <- PageOwner
    DedupKey <- AliasKeys
    Batches = {}
    Delayed = {}
    Hooked = {}
    PageLimit <- Two
    MaxDepth <- Two
    MaxConcurrency <- Two
    MaxRetries <- One
    w1 = w1  w2 = w2
    Workers = {w1, w2}
    NoPage = NoPage  NoWorker = NoWorker
SYMMETRY WorkerSymmetry
INVARIANTS TypeOK CompletedIffDrained
PROPERTIES LeaseHolderDecides CancelStopsWork ImplementsJob
