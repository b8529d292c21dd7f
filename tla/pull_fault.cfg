SPECIFICATION Spec
CONSTANTS
    Block = {a, b}
    Page = {p1}
    MaxFresh = 1
    MaxCommitted = 1
    MaxOpen = 1
    MaxTicks = 2
    MaxLost = 0
    MaxFaults = 1
INVARIANT EpochMarksReset
