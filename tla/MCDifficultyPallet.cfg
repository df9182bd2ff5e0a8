CONSTANTS
    DIFFICULTY_ADJUST_WINDOW = 7
    TargetBlockTime = 6
    MinimumPeriod = 3000
    CLAMP_FACTOR = 1
    MIN_DIFFICULTY = 3
    MAX_DIFFICULTY = 5
    InitialDifficulties = {3, 4, 5}
    Gaps = {3000, 6000, 12999}
    MaxBlocks = 9
SPECIFICATION Spec
INVARIANTS
    TypeOK
    RingInOrder
    WindowSharesDifficulty
    AvgNotOverstated
PROPERTIES
    AdjustsTowardsTarget
CHECK_DEADLOCK FALSE
