SPECIFICATION Spec
CONSTANTS
  Functions <- MCFunctions
  Converters <- MCConverters
  Period = 2
  MaxTime = 40
  MaxLimited = 2
INVARIANTS HistoryFree WithinLimits
PROPERTIES RampArrives
CHECK_DEADLOCK FALSE
