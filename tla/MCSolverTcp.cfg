SPECIFICATION FairSpec
CONSTANTS
    Callers = {c1, c2}
    Sessions = {s1, s2}
    Locals = {}
    Secrets = {}
    Sockets = {socket}
    Tcps = {tcp}
    Downloads = {}
    Entry <- OneName
    Plain = plain
    Free = free
PROPERTY CancelledReturns
CHECK_DEADLOCK FALSE
