SPECIFICATION Spec
CONSTANTS
    AmsIds <- mc_AmsIds
    UnitModel <- mc_UnitModel
    Statuses <- mc_Statuses
    MaxSlots = 1
    Reports <- mc_MixedReports
    MaxReports = 4
    Requests = {r1}
    Calls <- mc_MixedCalls
    Writable = TRUE
    Allowed = {"start_drying", "stop_drying", "resume"}
    Policy = "supported"
    ForeignNames = {"light"}
    WireCap = 2
    MaxDrops = 2
INVARIANTS
    TypeOK
    ConfirmedFresh
    CompleteIsCurrent
    AcknowledgedByPrinter
CHECK_DEADLOCK FALSE
