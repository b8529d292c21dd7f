SPECIFICATION Spec
CONSTANTS
    p1 = p1
    p2 = p2
    t1 = t1
    t2 = t2
    t3 = t3
    Nobody = Nobody
    Proc = {p1}
    Thread = {t1, t2}
    Owner <- OneServer
    Viewer = {}
    MaxSessions = 4
    MaxReaps = 0
    MaxPanics = 1
    MaxCrashes = 0
    MaxFaults = 0
INVARIANTS OneWriter
