CONSTANTS
    DIFFICULTY_ADJUST_WINDOW = 7
    TargetBlockTime = 6
    MinimumPeriod = 3000
    CLAMP_FACTOR = 1
    MIN_DIFFICULTY = 3
    MAX_DIFFICULTY = 5
    InitialDifficulties = {4}
    Gaps = {3000, 6000, 12999}
    MaxBlocks = 9
SPECIFICATION Spec
INVARIANTS
    EveryDifficultyHasKey
CHECK_DEADLOCK FALSE
