CONSTANTS
    Enabled = {"i", "b"}
    Period <- MCPeriod
    Order <- MCOrder
    RefDelay <- MCRefDelay
    ErrUnfiltered <- MCErrUnfiltered
    H = 5
    Wrap = 6
    Clients <- MCClients
    EveryIteration = TRUE
SPECIFICATION Spec
INVARIANTS HistoryUnbroken RefFresh DelayedRefFresh InStep
