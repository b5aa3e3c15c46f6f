SPECIFICATION FairSpec
CONSTANTS
    Pins = {p1, p2, p3}
    Refreshes = {f1, f2, f3}
    Pinned = TRUE
    MaxStarts = 2
    MaxDrops = 1
INVARIANTS
    PinBeforeConnect
    StopIsStop
    LinkNotForgotten
    RefreshNotForgotten
PROPERTIES
    LinkComesUp
    StatusRecovers
CHECK_DEADLOCK FALSE
