SPECIFICATION Spec
CONSTANTS
    Keys = {1}
    Readers = {r1}
    Flushers = {}
    CacheSize = 1
    MemTableLimit = 1
    L0Files = 2
    LevelLimit <- TwoLevels
    MaxBatch = 2
    MaxWrites = 2
    MaxGets = 2
    MaxFlushes = 0
    MaxCrashes = 0
INVARIANTS
    ReadsFresh
    CacheCurrent
PROPERTIES
    ThrowsOnlyStale
CHECK_DEADLOCK FALSE
