SPECIFICATION OwnedFairSpec
CONSTANTS
    p1 = p1
    p2 = p2
    t1 = t1
    t2 = t2
    t3 = t3
    Nobody = Nobody
    Proc = {p1, p2}
    Thread = {t1, t2, t3}
    Owner <- TwoAndOne
    Viewer = {}
    MaxSessions = 5
    MaxReaps = 0
    MaxPanics = 0
    MaxCrashes = 1
    MaxFaults = 2
INVARIANTS
    OneWriter
    LockedWhileWriting
PROPERTIES
    Reclaimed
