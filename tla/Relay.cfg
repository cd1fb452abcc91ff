SPECIFICATION Spec
CONSTANTS
    Services = {"rpc", "publish", "subscribe"}
    MaxOps = 3
    MaxMsgs = 3
    Priorities = {1, 2}
    Concurrent = FALSE
    SendMayFail = TRUE
INVARIANTS OwnAnswerOnce PriorityInForce
PROPERTY Resolves
CHECK_DEADLOCK FALSE
