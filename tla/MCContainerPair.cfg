\* Two runs that compete for the terminal.  Runs end, so the system may stop.
SPECIFICATION Spec
CONSTANTS
    Runs = {r1, r2}
    Free = Free
    MaxWinches = 0
    Interrupts = {r1}
INVARIANTS
    RawOnlyWhilePaused
    OneRunning
PROPERTY
    OwnTerminal
CHECK_DEADLOCK FALSE
