SPECIFICATION Spec
CONSTANTS
    Sites = {s1}
    Crons = {daily, weekly}
    Off = off
    Timers = {t1}
    Clients = {c1}
    MaxRows = 3
    MaxEdits = 1
    MaxFaults = 0
INVARIANT
    OffStaysOff
