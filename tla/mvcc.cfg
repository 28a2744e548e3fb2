CONSTANTS
    RID = {r1}
    Value = {v1, v2}
    NoValue = NoValue
    MaxTxnId = 4
    MaxVersions = 3
SPECIFICATION Spec
SYMMETRY DataSymmetry
INVARIANTS
    SingleWriter
    ChainLinked
PROPERTIES
    CommittedDurable
    LaterWritersInvisible
CHECK_DEADLOCK FALSE
