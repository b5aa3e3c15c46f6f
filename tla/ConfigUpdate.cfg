SPECIFICATION FairSpec
CONSTANTS
    First = m1
    Managed = {m1, m2, m3}
    Unmanaged = {u1}
    InitialRefs <- mc_InitialRefs
    MaxUpdates = 2
    MaxEdits = 1
    MaxCrashes = 1
    MaxLate = 1
INVARIANTS
    DiskLoads
    OneManager
    Settled
    NothingLeftBehind
PROPERTIES
    ServiceReturns
CHECK_DEADLOCK FALSE
