SPECIFICATION Spec
CONSTANTS
    Hosts = {h1, h2}
    Concurrency = 1
    MaxFaults = 0
INVARIANT
    OutcomeKept
CHECK_DEADLOCK FALSE
