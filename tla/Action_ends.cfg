SPECIFICATION FairSpec
CONSTANTS
    Approvals = {a1, a2}
    Jobs = {keyed}
    KeyedJob = keyed
    Clients = {c1, c2}
    Runners = {w1}
    AlwaysAsk = FALSE
    Safe = TRUE
    CanRead = FALSE
    Budgets <- EndsBudgets
    NoApproval = NoApproval
    NoJob = NoJob
    NoRunner = NoRunner
    c1 = c1
    c2 = c2
    w1 = w1
    a1 = a1
    a2 = a2
    keyed = keyed
INVARIANTS
    CompletedIsRecorded
    RejectionHolds
PROPERTIES
    ExecutingEnds
CHECK_DEADLOCK FALSE
