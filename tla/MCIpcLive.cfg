SPECIFICATION FairSpec
CONSTANTS
    Clients = {c1}
    MaxTags = 2
    MaxSeq = 1
    MaxInFlight = 1
    Services = {"known", "other"}
    Registered = {"known"}
    ServiceOf <- MCServiceOf
    Errors = {}
    SendMayFail = FALSE
INVARIANTS ConnectedNotified QuietAgreement
PROPERTIES HandshakeCompletes ServiceIsReleased ClientIsReleased
CHECK_DEADLOCK FALSE
