CONSTANTS
    Txn = {t1, t2, t3}
    RID = {r1}
    NoTxn = NoTxn
    Upgraders = {t1, t2, t3}
    Wounded = {t1, t2, t3}
SPECIFICATION FairSpec
INVARIANTS
    MutualExclusion
    LockSetsMatchQueue
    FinishedLeavesNoRequest
    Invariant
PROPERTIES
    WaiterReturns
