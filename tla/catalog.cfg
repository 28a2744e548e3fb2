CONSTANTS
    Name = {a, b}
    NoName = NoName
    SmallCapacity = 1
    Capacity = 2
    MaxTables = 3
    Reader = {r1, r2, r3}
    PoolSize = 3
    MaxPages = 5
    NoPage = NoPage
    NoFrame = NoFrame
SPECIFICATION Spec
VIEW PoolView
SYMMETRY ModelSymmetry
INVARIANTS
    RootsOwned
    IdsUnique
PROPERTIES
    CatalogSurvives
