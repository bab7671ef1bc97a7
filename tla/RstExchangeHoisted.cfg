CONSTANTS
    Signals = {"i"}
    Regulated = {"i"}
    Actuation = "VOLTAGE_REF"
    Periods = {1}
    CanFault = FALSE
    Reload = FALSE
    MaxCalls = 3
SPECIFICATION FairSpec
PROPERTY ParsReturns
CHECK_DEADLOCK FALSE
