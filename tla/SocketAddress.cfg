SPECIFICATION AddressSpec
CONSTANTS
    MaxLength = 6
    PathCapacity = 5
    MaxPort = 70
    MaxULL = 79
    PortHint = 1
INVARIANTS ReadsAsWritten FitsInSunPath
CHECK_DEADLOCK FALSE
