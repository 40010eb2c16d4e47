SPECIFICATION MCSpec
CONSTANTS
    a1 = a1  a2 = a2
    w1 = w1  w2 = w2
    None = None
    Agents = {a1, a2}
    Monitors = {}
    Checks = {}
    Workers = {w1, w2}
    Budget <- BudgetTwo
    p1 = p1  p2 = p2  p3 = p3  p4 = p4  slash = slash  index = index
    Pages = {p1, p2, p3, p4, slash, index}
    Finishers = {w1, w2}
    Seed = p1
    LinksOf <- FinishLinks
    DedupKey <- FinishKeys
    PageLimit = 4
    NoPage = NoPage
    NoWorker = NoWorker
PROPERTIES
    AgentsEnd
    FinishesAsOne LinksKept
CHECK_DEADLOCK FALSE
