CONSTANTS
    p1 = p1
    p2 = p2
    Nobody = Nobody
    Callers = {p1, p2}
    Skew = 1
    MaxTTL = 3
    MinTTL = 2
    FullTTL = 3
    OddReports <- OddDef
    MaxTime = 3
    MaxRotations = 1
SPECIFICATION FairSpec
INVARIANTS
    TypeOK
    RetryIsFresh
    NeverBackwards
PROPERTIES
    ExecutesOnce
    CallsEnd
