SPECIFICATION Spec
CONSTANTS
    Keys = {1}
    Readers = {}
    Flushers = {}
    CacheSize = 0
    MemTableLimit = 1
    L0Files = 2
    LevelLimit <- TwoLevels
    MaxBatch = 1
    MaxWrites = 2
    MaxGets = 0
    MaxFlushes = 0
    MaxCrashes = 1
PROPERTY
    AckedSurvive
CHECK_DEADLOCK FALSE
