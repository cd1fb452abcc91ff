SPECIFICATION Spec
CONSTANTS
    MaxMsgs = 3
    Capacity = 5
    MaxPayload = 3
    FragLens = {1, 2}
INVARIANTS DeliversWhatWasSent TearIsContained
PROPERTY EverythingArrives
CHECK_DEADLOCK FALSE
