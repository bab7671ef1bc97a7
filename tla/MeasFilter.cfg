CONSTANTS
    BufLen = 6
    Lengths = {1, 2}
    Elens = {0, 2}
    MeasDelay = 1
    Period = 2
    Steepest = 1
    MaxMeas = 24
    MaxChanges = 1
    MaxInits = 2
    MaxDuring = 2
SPECIFICATION Spec
INVARIANTS WindowSum StartsAtInput RampExtrapolated
CHECK_DEADLOCK FALSE
