CONSTANTS
    Width = 3
    Octet = 4
    MaxTargets = 4
    Error = Error
    n1 = n1
    n2 = n2
    n3 = n3
    other2 = other2
    Names = {n1, n2, n3, other2}
    Digits <- DigitsDef
    Unknown = Unknown
    Blank = Blank
    DownRE = {"disconnected", "offline"}
    UpRE = {"active", "disconnected"}
    AtoiLimit = 99
    Count = 3
    Profiles <- ProfilesDef
    Gone = Gone
    NoRow = NoRow
    PollLoop = PollLoop
    SyncNow = SyncNow
    PageSize = 1
    Typed <- TypedDef
    MaxChanges = 1
    MaxFaults = 1
SPECIFICATION FairSpec
INVARIANTS
    ReportRight
    TargetsExact
PROPERTIES
    RowsSettle
