SPECIFICATION Spec
CONSTANTS
  Functions <- MCFunctions
  Playlists <- MCPlaylists
  TestSels <- MCTestSels
  Windows <- MCWindows
  Sims = {"load", "forward", "reverse"}
  Advance = 1
  Period = 2
  RunDelay = 1
  StopDelay = 1
  Plateau = 1
  RampTimes = {0, 3}
  PlepTimes = {2}
  MaxRuns = 1
  MaxTime = 70
INVARIANTS InItsMode EcoReturns
PROPERTIES CancelsRest Ends
CHECK_DEADLOCK FALSE
