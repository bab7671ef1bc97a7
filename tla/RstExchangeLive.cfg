CONSTANTS
    Signals = {"i"}
    Regulated = {"i"}
    Actuation = "VOLTAGE_REF"
    Periods = {1}
    CanFault = TRUE
    Reload = TRUE
    MaxCalls = 3
SPECIFICATION FairSpec
INVARIANTS ActiveValid
PROPERTIES HandsOverFair ParsReturns
CHECK_DEADLOCK FALSE
