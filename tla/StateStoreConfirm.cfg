SPECIFICATION StoreSpec
CONSTANTS
    AmsIds <- mc_AmsIds
    UnitModel <- mc_UnitModel
    Statuses = {"unknown"}
    MaxSlots = 0
    Reports <- mc_Reports
    MaxReports = 2
INVARIANTS
    ShownDryingConfirms
CHECK_DEADLOCK FALSE
