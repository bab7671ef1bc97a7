CONSTANTS
    DeviceCyc = TRUE
    DevicePpm = FALSE
    Blockable = TRUE
    Unipolar = TRUE
    HasSwitch = TRUE
    Settle = 1
SPECIFICATION Spec
INVARIANT FsmTypeOK
PROPERTIES NoPermitNoPower SlowAbortEnds
CHECK_DEADLOCK FALSE
