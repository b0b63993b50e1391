SPECIFICATION Spec
CONSTANTS
    w1 = w1  w2 = w2
    Urls = {u1, u2}
    Requests = {r1, r2}
    Runs = {w1, w2}
    MaxCrawls = 3
    Attempts = 2
    Scales <- MCAlone
PROPERTY
    OnlyTheMissingEver
CHECK_DEADLOCK FALSE
