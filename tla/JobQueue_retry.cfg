SPECIFICATION Spec
CONSTANTS
    JobIds = {j1, j2}
    DedupeIds = {j1}
    Rows = {r1, r2}
    Clients = {c1, c2}
    Brokerless = {}
    Workers = {w1, w2}
    Attempts = 2
    MaxStalled = 1
    Budgets <- RetryBudgets
    NoRow = NoRow
    NoJob = NoJob
    NoWorker = NoWorker
    c1 = c1
    c2 = c2
    j1 = j1
    j2 = j2
    r1 = r1
    r2 = r2
    w1 = w1
    w2 = w2
SYMMETRY Symmetry
INVARIANTS
    RetryShown
    TypeOK
CHECK_DEADLOCK FALSE
