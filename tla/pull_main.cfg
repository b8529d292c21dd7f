SPECIFICATION HFairSpec
CONSTANTS
    Block = {a, b}
    Page = {p1}
    MaxFresh = 1
    MaxCommitted = 2
    MaxOpen = 2
    MaxTicks = 2
    MaxLost = 1
    MaxFaults = 0
INVARIANTS
    TypeOK
    CursorSound
    UpToDate
    RenderCacheSound
    ReducersAgree
    NeverTorn
PROPERTIES
    CommittedKept
    Converges
