SPECIFICATION Spec
CONSTANTS
    Txn = {t1, t2}
    Page = {p}
    Slot = {s1, s2}
    Tuple = {a, b}
    NoTuple = NoTuple
    Room = 3
    MaxLSN = 6
SYMMETRY ModelSymmetry
INVARIANTS RecoveredState FinishedOnDisk
