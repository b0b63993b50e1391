SPECIFICATION Spec
CONSTANTS
    Approvals = {a1}
    Jobs = {keyed}
    KeyedJob = keyed
    Clients = {c1, c2}
    Runners = {w1}
    AlwaysAsk = FALSE
    Safe = TRUE
    CanRead = TRUE
    Budgets <- QueueBudgets
    NoApproval = NoApproval
    NoJob = NoJob
    NoRunner = NoRunner
    c1 = c1
    c2 = c2
    w1 = w1
    a1 = a1
    keyed = keyed
SYMMETRY Symmetry
INVARIANTS
    ApprovedIsQueued
CHECK_DEADLOCK FALSE
