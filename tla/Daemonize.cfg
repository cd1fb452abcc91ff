SPECIFICATION Spec
CONSTANTS
    MaxLaunches = 2
    AddressKinds = {FALSE, TRUE}
INVARIANTS ExitCodeIsTrue PidFileNamesHolder OneServes
CHECK_DEADLOCK FALSE
PROPERTIES TermStops OriginalExits
