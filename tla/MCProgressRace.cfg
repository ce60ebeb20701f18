\* A panic ends the process, so a state without a next step is no error here.
SPECIFICATION Spec
CONSTANTS
    Users = {u1}
    Channels = {c1}
    Keys = {}
    Free = Free
    MaxMsgs = 1
    MaxSyncs = 1
    TtyMissing = FALSE
INVARIANT
    CloseHandlesInFlight
CHECK_DEADLOCK FALSE
