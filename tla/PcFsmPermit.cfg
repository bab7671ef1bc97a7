CONSTANTS
    DeviceCyc = TRUE
    DevicePpm = FALSE
    Blockable = TRUE
    Unipolar = TRUE
    HasSwitch = FALSE
    Settle = 1
SPECIFICATION Spec
INVARIANT PermitFaultTrue
CHECK_DEADLOCK FALSE
