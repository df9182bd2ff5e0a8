CONSTANTS
    Accounts = {a1, a2}
    NoAuthor = NoAuthor
    Heights = {0, 2, 3}
    Amounts = {1, 2, 3}
    MinimumBalance = 2
    GenesisReward = 2
    MaxBlocks = 4
SPECIFICATION Spec
INVARIANTS
    FinishedCurveIsEmpty
CHECK_DEADLOCK FALSE
