CONSTANTS
    A = A
    B = B
    keyA = keyA
    keyB = keyB
    secretA = secretA
    secretB = secretB
    t1 = t1
    t2 = t2
    l1 = l1
    l2 = l2
    l3 = l3
    NoSecret = NoSecret
    Null = Null
    Requests = {t1, t2}
    Loops = {l1, l2, l3}
    Tenants = {A, B}
    Keys = {keyA, keyB}
    Secrets = {secretA, secretB}
    SecretOf <- SecretDef
    Environments <- EnvDef
    Bodies <- BodiesDef
    MaxRequests = 2
    MaxFaults = 1
SPECIFICATION FairSpec
INVARIANTS
    TypeOK
    OneLiveTenant
    OnlyChecked
    LiveIsStored
PROPERTIES
    OldLoopsEnd
CHECK_DEADLOCK FALSE
