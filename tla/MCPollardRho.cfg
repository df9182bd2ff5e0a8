SPECIFICATION FairSpec
CONSTANTS
    P = 7
    G = 3
    Keys = {1, 2, 3, 4, 5}
    Hashes <- AffineHashes
    PointSets <- SomePoints
    Length = 6
    GrainSize = 2
INVARIANTS
    TypeOK
    WorkIsOfSolution
    ResultVerifies
    ResultOpensKey
    LeavesSoon
PROPERTIES
    ImplementsSearch
CHECK_DEADLOCK FALSE
