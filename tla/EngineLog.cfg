SPECIFICATION Spec
CONSTANTS
    Keys = {1,2}
    Readers = {}
    Flushers = {t1}
    CacheSize = 0
    MemTableLimit = 3
    L0Files = 2
    LevelLimit <- TwoLevels
    MaxBatch = 1
    MaxWrites = 2
    MaxGets = 0
    MaxFlushes = 1
    MaxCrashes = 1
INVARIANTS
PROPERTIES
    SettledSurvive
CHECK_DEADLOCK FALSE
