CONSTANTS
    Signals = {"i"}
    Regulated = {"i"}
    Actuation = "VOLTAGE_REF"
    Periods = {1, 2}
    CanFault = FALSE
    Reload = TRUE
    MaxCalls = 2
SPECIFICATION Spec
INVARIANT OnePeriod
CHECK_DEADLOCK FALSE
