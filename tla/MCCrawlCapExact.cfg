SPECIFICATION Spec
CONSTANTS
    Worlds = {{"batch"}}
    Jobs = {"batch"}
    Pages = {"b1", "b2", "b3"}
    MCPagesOf <- AllPages
    JobOf <- PageOwner
    DedupKey <- OwnKeys
    Batches = {"batch"}
    Delayed = {}
    Hooked = {}
    PageLimit <- Three
    MaxDepth <- Zero
    MaxConcurrency <- One
    MaxRetries <- Zero
    w1 = w1  w2 = w2
    Workers = {w1, w2}
    NoPage = NoPage  NoWorker = NoWorker
INVARIANTS ConcurrencyCap
