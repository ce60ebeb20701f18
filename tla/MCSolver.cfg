SPECIFICATION FairSpec
CONSTANTS
    Callers = {c1, c2}
    Sessions = {s1}
    Locals = {l1, l2}
    Secrets = {}
    Sockets = {}
    Tcps = {tcp}
    Downloads = {d1}
    Entry <- OneName
    Plain = plain
    Free = free
INVARIANTS TypeOK Complete NoFailed OwnSession ReleaseCloses
PROPERTIES Implements Returns FailedEnds
CHECK_DEADLOCK FALSE
