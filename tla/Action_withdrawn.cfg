SPECIFICATION Spec
CONSTANTS
    Approvals = {a1}
    Jobs = {keyed}
    KeyedJob = keyed
    Clients = {c1, c2}
    Runners = {w1}
    AlwaysAsk = TRUE
    Safe = FALSE
    CanRead = TRUE
    Budgets <- RaceBudgets
    NoApproval = NoApproval
    NoJob = NoJob
    NoRunner = NoRunner
    c1 = c1
    c2 = c2
    w1 = w1
    a1 = a1
    keyed = keyed
SYMMETRY Symmetry
PROPERTIES
    RejectedNotWritten
CHECK_DEADLOCK FALSE
