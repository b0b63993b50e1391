SPECIFICATION Spec
CONSTANTS
    Approvals = {a1, a2}
    Jobs = {keyed, retried}
    KeyedJob = keyed
    Clients = {c1}
    Runners = {w1, w2}
    AlwaysAsk = TRUE
    Safe = FALSE
    CanRead = TRUE
    Budgets <- ConsentBudgets
    NoApproval = NoApproval
    NoJob = NoJob
    NoRunner = NoRunner
    c1 = c1
    w1 = w1
    w2 = w2
    a1 = a1
    a2 = a2
    keyed = keyed
    retried = retried
SYMMETRY Symmetry
INVARIANTS
    GuardrailHolds
CHECK_DEADLOCK FALSE
