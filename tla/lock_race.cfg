SPECIFICATION Spec
CONSTANTS
    p1 = p1
    p2 = p2
    t1 = t1
    t2 = t2
    t3 = t3
    Nobody = Nobody
    Proc = {p1, p2}
    Thread = {t1, t2}
    Owner <- OneEach
    Viewer = {}
    MaxSessions = 4
    MaxReaps = 0
    MaxPanics = 0
    MaxCrashes = 0
    MaxFaults = 0
INVARIANTS OneWriter
