SPECIFICATION FairSpec
CONSTANTS
    Clients = {c1}
    MaxTags = 1
    MaxSeq = 1
    MaxInFlight = 1
    Services = {"known", "other"}
    Registered = {"known"}
    ServiceOf <- MCServiceOf
    Errors = {}
    SendMayFail = FALSE
PROPERTY DisconnectIsBroadcast
CHECK_DEADLOCK FALSE
