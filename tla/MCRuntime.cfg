CONSTANTS
    DIFFICULTY_ADJUST_WINDOW = 2
    TargetBlockTime = 6
    MinimumPeriod = 3000
    CLAMP_FACTOR = 1
    MIN_DIFFICULTY = 3
    MAX_DIFFICULTY = 4
    InitialDifficulties = {3}
    Gaps = {3000, 14000}
    Accounts = {a1}
    NoAuthor = NoAuthor
    Heights = {2}
    Amounts = {1, 2, 4}
    MinimumBalance = 2
    GenesisReward = 3
    MaxBlocks = 3
    MaxCalls = 2
    Signers = {s1, s2}
    Root = Root
    Values = {3}
    Ciphers = {1}
    U32 = 4
SPECIFICATION Spec
INVARIANTS
    TypeOK
    WindowCountsBlocks
    EventsTellState
PROPERTIES
    RuntimePaysBySchedule
CHECK_DEADLOCK FALSE
