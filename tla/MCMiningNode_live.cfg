CONSTANTS
    Nodes = {n1}
    Remotes = {r1}
    MaxBlocks = 2
    Difficulties = {1}
    Several = TRUE
    MaxRestarts = 1
    Failing = {"queue"}
SPECIFICATION FairSpec
PROPERTIES
    LeavesGenesis
    BuildCatchesUp
    BlocksArrive
    MinesAfterStart
    TurnsToBest
CHECK_DEADLOCK FALSE
