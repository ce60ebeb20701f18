SPECIFICATION SyncSpec
CONSTANTS
    Users = {u1}
    Channels = {c1, c2}
    Keys = {k1}
    Free = Free
    MaxMsgs = 1
    MaxSyncs = 1
    TtyMissing = FALSE
INVARIANT
    PauseHandlesInFlight
