\* The violation is that the program stops for ever: it is reported as the
\* property, not as a deadlock.
SPECIFICATION FairSpec
CONSTANTS
    Users = {u1}
    Channels = {c1}
    Keys = {}
    Free = Free
    MaxMsgs = 1
    MaxSyncs = 0
    TtyMissing = TRUE
PROPERTY
    CloseReturns
CHECK_DEADLOCK FALSE
