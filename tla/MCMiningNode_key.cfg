CONSTANTS
    Nodes = {n1}
    Remotes = {}
    MaxBlocks = 3
    Difficulties = {1}
    Several = FALSE
    MaxRestarts = 0
    Failing = {}
SPECIFICATION Spec
INVARIANTS
    KeyFromPreviousBlock
CHECK_DEADLOCK FALSE
