CONSTANTS
    Signals = {"i", "b"}
    Regulated = {"i"}
    Actuation = "CURRENT_REF"
    Periods = {1}
    CanFault = FALSE
    Reload = TRUE
    MaxCalls = 2
SPECIFICATION FairSpec
PROPERTY ParsReturns
CHECK_DEADLOCK FALSE
