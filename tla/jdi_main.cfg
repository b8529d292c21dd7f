SPECIFICATION FairSpec
CONSTANTS
    Terminals = 2
    May = {"start", "drain", "takeover", "add"}
    Alone = {"drain", "takeover", "add"}
    Caps = {0}
    MaxDrainCycles = 1
    MaxIdenticalFailures = 2
    MaxNoProgress = 1
    MaxLaunches = 2
    MaxItems = 2
    MaxProgress = 1
    MaxEvents = 3
    MaxTroubles = 1
    Beyond = FALSE
    None = None
INVARIANTS
    TypeOK OneSupervisor NothingLost DrainedIsDone DoneMeansDrained
PROPERTIES RunEnds
CHECK_DEADLOCK FALSE
