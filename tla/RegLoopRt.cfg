CONSTANTS
    Enabled = {"i", "b"}
    Period <- MCPeriod
    Order <- MCOrder
    RefDelay <- MCRefDelay
    ErrUnfiltered <- MCErrUnfiltered
    H = 5
    Wrap = 6
    Clients <- MCClientsRt
    EveryIteration = FALSE
SPECIFICATION Spec
INVARIANT HistoryUnbroken
