SPECIFICATION Spec
CONSTANTS
    p1 = p1  a1 = a1  a2 = a2
    Pages = {p1, p2}
    Rules = {r1}
    Auditors = {a1, a2}
    Chunk = 1
    EventsAlone = 1
    EventsTogether = 0
    Scales <- MCScales
PROPERTY
    ResolvedIsGone
