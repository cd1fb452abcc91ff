SPECIFICATION FairSpec
CONSTANTS
    Services = {"exec", "list", "access"}
    Nodes = {n1, n2}
    MaxIds = 3
    MaxRegIds = 2
    ChunkSize = 2
    MaxRegs = 2
    SendMayFail = TRUE
INVARIANTS ReportIsComplete LoopOnLiveFsm
PROPERTIES Resolves Abandoned
CHECK_DEADLOCK FALSE
