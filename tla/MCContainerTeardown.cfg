SPECIFICATION Spec
CONSTANTS
    Runs = {r1}
    Free = Free
    MaxWinches = 0
    Interrupts = {}
INVARIANT
    TeardownAfterExit
CHECK_DEADLOCK FALSE
