SPECIFICATION FairSpec
CONSTANTS
    c1 = c1  c2 = c2  s1 = s1  s2 = s2
    Sites = {s1, s2}
    Callers = {c1, c2}
    SiteCap <- MCCap
    GlobalCap = 2
    Prices = {1}
    Attempts = 2
    Repairs = 1
    Batches = 2
    Months = 2
    MaxSpend = 12
    Scales <- MCAll
INVARIANTS
    NothingAfterTheCap
    OvershootBounded
    RouteSound
PROPERTIES
    CallsEnd
CHECK_DEADLOCK FALSE
