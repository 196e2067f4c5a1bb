SPECIFICATION FairSpec
CONSTANTS
    Threads <- TwoThreads
    Torn = Torn
    SyncIntervalMs = 10
    MaxBuffer = 1
    MaxRecords = 2
    MaxFlushes = 2
    MaxFaults = 1
    MaxCrashes = 1
INVARIANTS
    TwoFlushesSync
    FileInOrder
    CloseDrains
    SettledReplayed
PROPERTIES
    FlushReturns
CHECK_DEADLOCK FALSE
