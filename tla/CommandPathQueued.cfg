SPECIFICATION Spec
CONSTANTS
    AmsIds <- mc_AmsIds
    UnitModel <- mc_UnitModel
    Statuses <- mc_Statuses
    MaxSlots = 1
    Reports <- mc_DryingReports
    MaxReports = 4
    Requests = {r1, r2}
    Calls <- mc_StartOnly
    Writable = TRUE
    Allowed = {"start_drying", "stop_drying"}
    Policy = "supported"
    ForeignNames = {}
    WireCap = 1
    MaxDrops = 0
PROPERTIES
    QueuedStartSeesDryer
CHECK_DEADLOCK FALSE
