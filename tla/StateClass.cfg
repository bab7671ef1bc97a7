CONSTANTS
    Class = 53
    MaxAsked = 2
SPECIFICATION StaSpec
INVARIANT StaTypeOK
PROPERTIES NoSelfRestart Settles
CHECK_DEADLOCK FALSE
