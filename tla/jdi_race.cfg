SPECIFICATION Spec
CONSTANTS
    Terminals = 2
    May = {"start", "drain", "add"}
    Alone = {}
    Caps = {0}
    MaxDrainCycles = 1
    MaxIdenticalFailures = 2
    MaxNoProgress = 1
    MaxLaunches = 2
    MaxItems = 1
    MaxProgress = 0
    MaxEvents = 3
    MaxTroubles = 0
    Beyond = FALSE
    None = None
INVARIANT OneSupervisor
CHECK_DEADLOCK FALSE
