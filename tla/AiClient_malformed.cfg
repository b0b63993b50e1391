SPECIFICATION Spec
CONSTANTS
    c1 = c1  c2 = c2  s1 = s1  s2 = s2
    Sites = {s1, s2}
    Callers = {c1}
    SiteCap <- MCCap
    GlobalCap = 2
    Prices = {1}
    Attempts = 2
    Repairs = 1
    Batches = 2
    Months = 2
    MaxSpend = 12
    Scales <- MCMixed
INVARIANT
    MalformedRepaired
CHECK_DEADLOCK FALSE
