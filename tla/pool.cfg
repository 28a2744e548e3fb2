SPECIFICATION Spec
CONSTANTS
    PoolSize = 2
    MaxPages = 3
    Data = {0, 1}
    ZeroPage = 0
    Guards = {g1, g2}
    Writable = {1, 2}
    Failing = TRUE
    NoPage = NoPage
    NoFrame = NoFrame
SYMMETRY GuardSymmetry
INVARIANTS PinsMatchGuards EvictableWhenUnpinned CleanMatchesDisk VictimIsOldest
PROPERTIES NoLostWrite
