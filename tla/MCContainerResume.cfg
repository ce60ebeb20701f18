\* The violation is a run that hangs: it is reported as the property, not as
\* a deadlock.
SPECIFICATION FairSpec
CONSTANTS
    Runs = {r1}
    Free = Free
    MaxWinches = 1
    Interrupts = {}
PROPERTY
    ResumeFollows
CHECK_DEADLOCK FALSE
