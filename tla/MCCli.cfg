SPECIFICATION CliSpec
CONSTANTS
    Kinds = {"request", "subscribe", "connect", "receive", "call"}
    Scenarios <- MainScenarios
    Timeouts = {0, 1, 2, 3, 4, 5}
    Patience = 3
    Period = 5
    Resolution = 2
    Second = 2
    MaxMsgs = 3
    MaxQueue = 2
INVARIANTS InTimeWins SleepsOnPurpose NoStaleReceiver PrintsEveryMessage
PROPERTIES Terminates
CHECK_DEADLOCK FALSE
