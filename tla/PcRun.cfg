CONSTANTS
    OnIters = 1
    FaultIters = 0
    Commands = {"POSITIVE", "NEGATIVE"}
    Timeouts = {0, 1}
    SimDelays = {0, 1}
    RegLines = {0, 1, 2}
SPECIFICATION Spec
INVARIANT TypeOK
PROPERTIES FaultKeptTillOff Recovers StartsUp
CHECK_DEADLOCK FALSE
