SPECIFICATION Spec
CONSTANTS
    Approvals = {a1}
    Jobs = {keyed}
    KeyedJob = keyed
    Clients = {c1}
    Runners = {w1}
    AlwaysAsk = FALSE
    Safe = TRUE
    CanRead = TRUE
    Budgets <- DryBudgets
    NoApproval = NoApproval
    NoJob = NoJob
    NoRunner = NoRunner
    c1 = c1
    w1 = w1
    a1 = a1
    keyed = keyed
SYMMETRY Symmetry
PROPERTIES
    DryRunMovesNothing
CHECK_DEADLOCK FALSE
