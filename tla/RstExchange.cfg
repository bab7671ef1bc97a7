CONSTANTS
    Signals = {"i", "b"}
    Regulated = {"i"}
    Actuation = "VOLTAGE_REF"
    Periods = {1}
    CanFault = FALSE
    Reload = FALSE
    MaxCalls = 3
SPECIFICATION Spec
INVARIANTS NoTornUse LastParsMatch
PROPERTIES UsedParsStable HandsOver
CHECK_DEADLOCK FALSE
