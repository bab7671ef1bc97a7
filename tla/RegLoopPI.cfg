CONSTANTS
    Enabled = {"i", "b"}
    Period <- MCPeriod
    Order <- MCOrder
    RefDelay <- MCRefDelayPI
    ErrUnfiltered <- MCErrUnfiltered
    H = 5
    Wrap = 6
    Clients <- MCClients
    EveryIteration = TRUE
SPECIFICATION Spec
INVARIANT DelayedRefFresh
