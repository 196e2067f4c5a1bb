SPECIFICATION FairSpec
CONSTANTS
    Keys = {1}
    Readers = {}
    Flushers = {}
    CacheSize = 0
    MemTableLimit = 1
    L0Files = 2
    LevelLimit <- TwoLevels
    MaxBatch = 1
    MaxWrites = 3
    MaxGets = 0
    MaxFlushes = 0
    MaxCrashes = 1
INVARIANTS
    NothingLost
    FilesCurrent
PROPERTIES
    FlushedSurvive
    ImmutableDrains
CHECK_DEADLOCK FALSE
