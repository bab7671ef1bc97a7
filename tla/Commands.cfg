SPECIFICATION Spec
CONSTANTS
  Pars <- MCPars
  CmdTable <- MCCommandList
  MaxSel = 1
  NestLimit = 4
  LineMax = 2
  Files <- MCFiles
  Names <- MCNames
  Argvs <- MCArgvs
  Typed <- MCTyped
  Fine <- MCFine
  MaxTyped = 3
  MaxStarts = 2
  MaxDepth = 8
INVARIANTS StoreSound RoundTrip
PROPERTIES ErrorStops ReadingReturns
CHECK_DEADLOCK FALSE
