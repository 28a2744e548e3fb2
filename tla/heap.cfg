SPECIFICATION Spec
CONSTANTS
    Heap = {h1, h2}
    Iter = {i1}
    Tuple = {2, 6}
    NoTuple = NoTuple
    Capacity = 6
    SlotSize = 1
    MaxPages = 3
    MaxFailures = 1
    NoPage = NoPage
    RawPage = RawPage
VIEW HeapView
SYMMETRY HeapSymmetry
INVARIANTS StoredReadable ChainSound ScanComplete CountsExact
CHECK_DEADLOCK FALSE
