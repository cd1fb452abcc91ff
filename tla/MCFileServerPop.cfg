SPECIFICATION Spec
CONSTANTS
    Roots = {"a", "b"}
    LongRoots = {"long"}
    Size <- MCSize
    ChunkSize = 2
    Ops = {1}
    MaxStarts = 1
    InitialRoots <- MCInitialRoots
    MaxFaults = 0
PROPERTY PopOfMissingDoesNothing
CHECK_DEADLOCK FALSE
