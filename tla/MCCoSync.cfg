SPECIFICATION SyncSpec
CONSTANTS
    Users = {f1, f2, f3, f4}
    m_capacity = 2
    m_num = 1
    Count = 2
    MaxItems = 4
SYMMETRY Symmetry
CHECK_DEADLOCK FALSE
INVARIANTS Fifo NoLostNotify ClosedReleasesAll LatchHolds
