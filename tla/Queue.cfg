SPECIFICATION QueueFairSpec
CONSTANTS
    Producers <- TwoProducers
    MaxSize = 3
    MaxBatch = 2
    YieldBelow = 2
    MaxPushes = 2
    MaxThrows = 1
INVARIANTS
    InOrder
    Bounded
    ExitDrained
    AnsweredOnce
PROPERTIES
    EveryCallAnswered
CHECK_DEADLOCK FALSE
