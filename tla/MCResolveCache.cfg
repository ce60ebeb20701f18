SPECIFICATION FairSpec
CONSTANTS
    Callers = {a1, a2, a3}
    ImageKeys = {k1, k2}
    Configs = {v1, v2}
    Unset = Unset
    MaxLookups = 3
INVARIANTS
    TypeOK
    OneLeader
    Agreement
PROPERTIES
    Implements
    CancelReturns
    ResolvedForGood
