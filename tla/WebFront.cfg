SPECIFICATION mc_Spec
CONSTANTS
    Sockets = {w1}
    Networks = {n1}
    Probes = {p1}
    MaxChanges = 3
    Logins = {l1}
    Basics = {b1, b2}
    MaxSessions = 1
    MaxIssued = 2
    MaxAttempts = 2
INVARIANTS
    TypeOK
    ShowsNewest
    RevokedSeesNoLater
    SessionsCurrent
    GuessesBounded
PROPERTY
    RevokedSocketCloses
CHECK_DEADLOCK FALSE
