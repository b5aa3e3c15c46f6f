SPECIFICATION FairSpec
CONSTANTS
    Setups = {s1, s2}
    MaxGen = 3
    MaxArchives = 2
    MaxRestores = 2
INVARIANTS
    TypeOK
    ServesWhole
    RestoreVerdict
    ConfigIsCommitPoint
    BackupOfOneRevision
PROPERTIES
    ConfiguredReturns
CHECK_DEADLOCK FALSE
