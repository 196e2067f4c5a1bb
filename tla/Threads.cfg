SPECIFICATION Spec
CONSTANTS
    Clients = {t1}
    MaxBatches = 2
    MaxCalls = 3
INVARIANTS
    FlushedOnce
    ScheduleKept
PROPERTIES
    CheckFlushReturns
    DestructorReturns
    CompactionFollows
CHECK_DEADLOCK FALSE
