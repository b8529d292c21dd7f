SPECIFICATION Spec
CONSTANTS
    Nil = Nil
    m1 = m1
    m2 = m2
    Lines <- Mixed
    MaxPinnedTurns = 1
    MaxLines = 4
    MaxBehind = 1
    MaxCrashes = 2
    MaxShrinks = 1
    CheckpointEvery = 2
INVARIANTS
    TypeOK
    ResumeExact
    Assembled
    FrontierMoves
    CheckpointsAgree
CHECK_DEADLOCK FALSE
