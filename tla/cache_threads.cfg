SPECIFICATION Spec
CONSTANTS
    p1 = p1
    p2 = p2
    t1 = t1
    t2 = t2
    t3 = t3
    Nobody = Nobody
    Proc = {p1, p2}
    Thread = {t1, t2, t3}
    Owner <- TwoAndOne
    Viewer = {p2}
    MaxSessions = 5
    MaxReaps = 1
    MaxPanics = 0
    MaxCrashes = 1
    MaxFaults = 2
SYMMETRY ServerThreads
INVARIANTS
    TypeOK
    OneWriterEach
    OneFlight
    ViewFollows
    NotLockedWhenLeft
