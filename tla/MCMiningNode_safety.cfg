CONSTANTS
    Nodes = {n1}
    Remotes = {r1}
    MaxBlocks = 3
    Difficulties = {1, 2}
    Several = TRUE
    MaxRestarts = 1
    Failing = {"queue", "own"}
SPECIFICATION Spec
INVARIANTS
    TypeOK
    KnownClosed
    BestIsLeaf
    SolvedForOwnProposal
    OneSealPerBest
    KeyNotBehind
PROPERTIES
    MinerUsesSearch
CHECK_DEADLOCK FALSE
