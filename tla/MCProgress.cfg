SPECIFICATION FairSpec
CONSTANTS
    Users = {u1, u2}
    Channels = {c1, c2}
    Keys = {k1}
    Free = Free
    MaxMsgs = 1
    MaxSyncs = 2
    TtyMissing = FALSE
INVARIANTS
    TypeOK
    PanicOnlyDisturbed
    CloseFlushes
    PauseExclusive
    LogOnce
PROPERTIES
    Implements
    CloseReturns
    MessagesShown
