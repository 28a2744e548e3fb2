SPECIFICATION Spec
CONSTANTS
    Key = {1, 2, 3, 4, 5, 6, 7, 8}
    RID <- RIDs
    RIDsOf <- OneRIDPerKey
    MaxPages = 10
    LeafMax = 3
    InternalMax = 4
    NoPage = NoPage
    NoNode = NoNode
VIEW TreeView
INVARIANTS KeysFound ScanInOrder PointersAgree HalfFull
PROPERTIES ImplementsIndex
CHECK_DEADLOCK FALSE
