SPECIFICATION Spec
CONSTANTS
    Setups = {s1}
    MaxGen = 3
    MaxArchives = 2
    MaxRestores = 1
INVARIANT
    ArchiveRestorable
CHECK_DEADLOCK FALSE
