CONSTANTS
    pkg1 = pkg1
    pkg2 = pkg2
    g1 = g1
    g2 = g2
    Packages = {pkg1, pkg2}
    MaxContent = 2
    Goroutines = {g1, g2}
    MaxOps = 5
    MaxFaults = 1
SPECIFICATION FairSpec
INVARIANTS
    TypeOK
PROPERTIES
    FilesForward
    PackagesConverge
