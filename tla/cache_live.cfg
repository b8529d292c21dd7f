SPECIFICATION FairSpec
CONSTANTS
    p1 = p1
    p2 = p2
    t1 = t1
    t2 = t2
    t3 = t3
    Nobody = Nobody
    Proc = {p1}
    Thread = {t1, t2}
    Owner <- OneServer
    Viewer = {}
    MaxSessions = 5
    MaxReaps = 1
    MaxPanics = 2
    MaxCrashes = 0
    MaxFaults = 1
PROPERTIES
    RequestsEnd
    PoisonCleared
