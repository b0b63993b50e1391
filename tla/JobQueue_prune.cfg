SPECIFICATION Spec
CONSTANTS
    JobIds = {j1}
    DedupeIds = {j1}
    Rows = {r1}
    Clients = {c1, c2}
    Brokerless = {}
    Workers = {w1}
    Attempts = 2
    MaxStalled = 1
    Budgets <- CleanupBudgets
    NoRow = NoRow
    NoJob = NoJob
    NoWorker = NoWorker
    c1 = c1
    c2 = c2
    j1 = j1
    r1 = r1
    w1 = w1
SYMMETRY Symmetry
PROPERTIES
    OnlyFinishedPruned
CHECK_DEADLOCK FALSE
