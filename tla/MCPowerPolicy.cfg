SPECIFICATION PolicySpec
CONSTANTS
    MaxBoost = 2
    HoldTime = 1
    DimTime = 2
    OffTime = 10
    Slow = 2
INVARIANTS
    PolicySafe
    BoostCounts
    BusSound
    LatestRequestKept
PROPERTIES
    FrozenUnderDma
    IdlesSlow
CHECK_DEADLOCK FALSE
