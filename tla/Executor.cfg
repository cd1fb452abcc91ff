SPECIFICATION Spec
CONSTANTS
    Platforms = {FALSE, TRUE}
    MaxFd = 4
    MaxEvents = 2
    MaxId = 3
    MaxBacklog = 1
INVARIANTS BookkeepingIsExact RunsOnItsOwn
PROPERTY Served
CHECK_DEADLOCK FALSE
