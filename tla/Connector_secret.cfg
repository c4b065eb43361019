CONSTANTS
    A = A
    B = B
    keyA = keyA
    keyB = keyB
    secretA = secretA
    secretB = secretB
    t1 = t1
    l1 = l1
    l2 = l2
    l3 = l3
    NoSecret = NoSecret
    Null = Null
    Requests = {t1}
    Loops = {l1, l2, l3}
    Tenants = {A, B}
    Keys = {keyA, keyB}
    Secrets = {secretA, secretB}
    SecretOf <- SecretDef
    Environments <- AlwaysDef
    Bodies <- BodiesDef
    MaxRequests = 2
    MaxFaults = 2
SPECIFICATION FairSpec
PROPERTY SecretKept
CHECK_DEADLOCK FALSE
