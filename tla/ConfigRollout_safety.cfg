CONSTANTS
    a1 = a1
    a2 = a2
    g1 = g1
    g2 = g2
    c1 = c1
    c2 = c2
    n1 = n1
    n2 = n2
    t1 = t1
    t2 = t2
    NoConfig = NoConfig
    Torn = Torn
    NoGroup = NoGroup
    NoRow = NoRow
    Absent = Absent
    Nobody = Nobody
    Agents = {a1}
    Threads = {t1, t2}
    Groups = {g1, g2}
    Contents = {c1, c2}
    FileNames <- OneFile
    Selected <- SelectedDef
    DefaultGroup = g2
    QueueCap = 1
    MaxChanges = 3
    MaxFaults = 0
SPECIFICATION Spec
SYMMETRY Symmetry
INVARIANTS
    TypeOK
    SettledIsCurrent
