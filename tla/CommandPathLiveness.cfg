SPECIFICATION FairSpec
CONSTANTS
    AmsIds <- mc_AmsIds
    UnitModel <- mc_UnitModel
    Statuses <- mc_Statuses
    MaxSlots = 1
    Reports <- mc_StopReports
    MaxReports = 2
    Requests = {r1, r2}
    Calls <- mc_StopOnly
    Writable = TRUE
    Allowed = {"stop_drying"}
    Policy = "supported"
    ForeignNames = {}
    WireCap = 1
    MaxDrops = 1
PROPERTIES
    EveryRequestEnds
CHECK_DEADLOCK FALSE
