CONSTANTS
    t1 = t1
    t2 = t2
    t3 = t3
    dflt = dflt
    g1 = g1
    a = a
    c = c
    d = d
    EmptyName = EmptyName
    Null = Null
    Lost = Lost
    Threads = {t1, t2}
    Groups = {dflt, g1}
    Agents = {a}
    Contents = {c, d}
    Default = dflt
    MaxRequests = 4
SPECIFICATION FairSpec
INVARIANTS
    TypeOK
PROPERTIES
    ImplementsVersionLog
    RequestsEnd
