SPECIFICATION MCSpec
CONSTANTS
    a1 = a1  a2 = a2  m1 = m1
    c1 = c1  c2 = c2  c3 = c3
    w1 = w1  w2 = w2
    None = None
    Agents = {a1, a2}
    Monitors = {m1}
    Checks = {c1, c2, c3}
    Workers = {w1, w2}
    Budget <- BudgetTwo
SYMMETRY WorkflowSymmetry
INVARIANTS
    WorkflowTypeOK OneWorkerPerItem BudgetHeld CancelIsPrompt
    BaselineIsRecent EventsMatchRecords
PROPERTIES
    AgentsEndOnce
CHECK_DEADLOCK FALSE
