SPECIFICATION Spec
CONSTANTS
    BodySize = 7
    HeaderSize = 1
    SlotSize = 1
    MaxSlots = 3
    Tuple <- SmallTuples
    NoTuple = NoTuple
INVARIANTS Layout
PROPERTIES CompactReclaims ImplementsRecords
