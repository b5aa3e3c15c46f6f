SPECIFICATION Spec
CONSTANTS
    AmsIds <- mc_AmsIds
    UnitModel <- mc_UnitModel
    Statuses <- mc_Statuses
    MaxSlots = 2
    Reports <- mc_BothReports
    MaxReports = 3
    Requests = {r1, r2}
    Calls <- mc_BothCalls
    Writable = TRUE
    Allowed = {"start_drying", "stop_drying", "pause", "refresh_rfid"}
    Policy = "supported"
    ForeignNames = {}
    WireCap = 1
    MaxDrops = 1
INVARIANTS
    StartedCanStop
    PendingInFlight
    BurstsContiguous
    AuditTellsWhatLeft
CONSTRAINT mc_OneTopic
SYMMETRY mc_Symmetry
CHECK_DEADLOCK FALSE
