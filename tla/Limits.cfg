SPECIFICATION Spec
CONSTANTS
  MeasPars <- MCMeasPars
  RmsPars <- MCRmsPars
  VrefPars <- MCVrefPars
  ErrPars <- MCErrPars
  Currents <- MCCurrents
  Refs <- MCRefs
  Errors <- MCErrors
  Parts = {"meas", "rms", "vref", "err"}
INVARIANTS FlagsTrue ClipsSound
PROPERTIES Returns
CHECK_DEADLOCK FALSE
