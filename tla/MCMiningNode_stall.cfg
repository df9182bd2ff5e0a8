CONSTANTS
    Nodes = {n1, n2}
    Remotes = {}
    MaxBlocks = 2
    Difficulties = {1}
    Several = FALSE
    MaxRestarts = 0
    Failing = {}
SPECIFICATION Spec
INVARIANTS
    SomeoneMines
SYMMETRY NodeSymmetry
CHECK_DEADLOCK FALSE
