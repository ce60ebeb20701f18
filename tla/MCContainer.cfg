\* One run, with signals: the goroutines of one container.  A run ends, and
\* the SIGWINCH loop may block it for ever, so the system may stop.
SPECIFICATION FairSpec
CONSTANTS
    Runs = {r1}
    Free = Free
    MaxWinches = 2
    Interrupts = {r1}
INVARIANTS
    TypeOK
    CleanReturn
    SignalWindow
PROPERTIES
    Returns
    TornDownLate
CHECK_DEADLOCK FALSE
