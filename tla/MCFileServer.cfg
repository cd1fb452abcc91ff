SPECIFICATION Spec
CONSTANTS
    Roots = {"a", "b"}
    LongRoots = {"long"}
    Size <- MCSize
    ChunkSize = 2
    Ops = {1, 2}
    MaxStarts = 2
    InitialRoots <- MCInitialRoots
    MaxFaults = 1
INVARIANTS ListIsSnapshot CopiesAreCounted DownloadIsWhole
PROPERTIES RootsAreRestored Resolves
CHECK_DEADLOCK FALSE
