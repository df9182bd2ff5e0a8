CONSTANTS
    Cpus = 3
    Works <- MCWorks
    One = 1
    Sols <- MCSols
    Y <- MCY
    Step <- MCStep
    F <- MCF
    Points <- MCPoints
    Start <- MCStart
    MaxTry = 1
    U8 = 2
    Length = 5
    GrainSize = 2
SPECIFICATION FairSpec
INVARIANTS
    TypeOK
    MapIsSound
    ResultCollides
    NonceIsOfCollision
    FlagMeansResult
PROPERTIES
    MapOnlyGrows
    ImplementsSearch
CHECK_DEADLOCK FALSE
