SPECIFICATION FairSpec
CONSTANTS
    Printers = {p1}
    Sessions = {s1}
    Streams = {v1}
    Closers = {c1}
    TicketCap = 1
    MaxTotal = 1
    MaxRestarts = 1
    MaxIssued = 1
INVARIANTS
    TypeOK
    SpawnsBounded
PROPERTIES
    StreamsEnd
    ClosersReturn
CHECK_DEADLOCK FALSE
