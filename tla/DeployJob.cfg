SPECIFICATION FairSpec
CONSTANTS
    Hosts = {h1, h2, h3}
    Concurrency = 2
    MaxFaults = 1
INVARIANTS
    TypeOK
    ConcurrencyBound
    FinishedAddsUp
    NothingInvented
    OneFaultLosesNothing
PROPERTIES
    VerdictsStand
    RunEnds
    OthersGoOn
\* The job ends and nothing is left to do.
CHECK_DEADLOCK FALSE
