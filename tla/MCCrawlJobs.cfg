SPECIFICATION MCSpec
CONSTANTS
    Worlds = {{"hooked"}, {"delayed"}, {"batch"}}
    Jobs = {"hooked", "delayed", "batch"}
    Pages = {"h1", "h2", "d1", "d2", "d3", "b1", "b2", "b3"}
    MCPagesOf <- JobPages
    JobOf <- PageOwner
    DedupKey <- OwnKeys
    Batches = {"batch"}
    Delayed = {"delayed"}
    Hooked = {"hooked"}
    PageLimit <- JobLimit
    MaxDepth <- JobDepth
    MaxConcurrency <- JobCap
    MaxRetries <- Zero
    w1 = w1  w2 = w2
    Workers = {w1, w2}
    NoPage = NoPage  NoWorker = NoWorker
SYMMETRY WorkerSymmetry
INVARIANTS NoDuplicateEvent CompletedEventSound OvershootBounded DelayedJobsKeepCap
PROPERTIES DelaySpacesStarts
