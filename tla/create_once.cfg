SPECIFICATION FairSpec
CONSTANTS
    c1 = c1
    c2 = c2
    i1 = i1
    i2 = i2
    k1 = k1
    k2 = k2
    Callers = {c1, c2}
    Intents = {i1, i2}
    Keys = {k1, k2}
    WindowKeys <- Explicit
    MaxOps = 4
    MaxCrashes = 1
    Faults = {}
INVARIANTS
    TypeOK
    OneVaultPerIntent
PROPERTIES
    LandedIsFound
CHECK_DEADLOCK FALSE
