SPECIFICATION FairSpec
CONSTANTS
    Sites = {s1}
    Crons = {daily, weekly}
    Off = off
    Timers = {t1}
    Clients = {c1}
    MaxRows = 3
    MaxEdits = 3
    MaxFaults = 1
PROPERTIES
    PassRepairs
    AgreedStays
    Converges
