SPECIFICATION Spec
CONSTANTS
    Nil = Nil
    m1 = m1
    m2 = m2
    Lines <- Queued
    MaxPinnedTurns = 64
    MaxLines = 5
    MaxBehind = 1
    MaxCrashes = 1
    MaxShrinks = 0
    CheckpointEvery = 2
INVARIANTS
    ResumeEqualsCold
CHECK_DEADLOCK FALSE
