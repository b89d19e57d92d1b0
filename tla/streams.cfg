SPECIFICATION Spec
CONSTANTS
    r1 = r1
    s1 = s1
    Senders = {s1}
    Receivers = {r1}
    Lists <- MCLists
    BalanceDeltas <- MCDeltas
    MaxFunds = 4
    MaxConfigs <- MCConfigs
    MaxTime = 6
    LastConfig = 4
    CycleSecs = 3
    Multiplier = 2
    Forever = 8
INVARIANTS
    TypeOK
    CyclesNeverOwe
    TokensCovered
PROPERTIES
    PaysBySecond
CHECK_DEADLOCK FALSE
