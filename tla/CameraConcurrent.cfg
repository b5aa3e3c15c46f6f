SPECIFICATION Spec
CONSTANTS
    Printers = {p1, p2}
    Sessions = {s1, s2}
    Streams = {v1, v2}
    Closers = {c1}
    TicketCap = 1
    MaxTotal = 1
    MaxRestarts = 0
    MaxIssued = 2
INVARIANTS
    NoRunningOrphan
    StopIsFinal
    TicketSingleUse
PROPERTIES
    SlotSpec
SYMMETRY mc_Symmetry
CHECK_DEADLOCK FALSE
CONSTRAINT mc_OneTopic
