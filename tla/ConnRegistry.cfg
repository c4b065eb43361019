CONSTANTS
    c1 = c1
    c2 = c2
    c3 = c3
    u1 = u1
    u2 = u2
    None = None
    Conns = {c1, c2, c3}
    Uids = {u1, u2}
    MaxFaults = 1
SPECIFICATION FairSpec
INVARIANTS
    TypeOK
    RegistryLive
    StatusHonest
    EventsPaired
PROPERTIES
    NoEviction
    PresenceHeals
    AbsenceSettles
