SPECIFICATION Spec
CONSTANTS
    Keys = {1, 2}
    MemTableLimit = 2
    L0Files = 1
    LevelLimit <- DeepLevels
    MaxWrites = 4
    MaxDels = 1
    MaxFlushes = 2
    MaxReopens = 1
INVARIANTS
    LevelsSound
PROPERTIES
    ImplementsMap
CHECK_DEADLOCK FALSE
