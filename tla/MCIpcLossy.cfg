SPECIFICATION Spec
CONSTANTS
    Clients = {c1}
    MaxTags = 1
    MaxSeq = 2
    MaxInFlight = 2
    Services = {"known", "other"}
    Registered = {"known"}
    ServiceOf <- MCServiceOf
    Errors = {"Canceled"}
    SendMayFail = TRUE
INVARIANTS IpcEndInv InOrder EndErrorIsPeers
PROPERTIES SilentAfterEnd ImplementsContract
CHECK_DEADLOCK FALSE
