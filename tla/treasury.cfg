SPECIFICATION Spec
CONSTANTS
    u1 = u1
    u2 = u2
    l1 = l1
    l2 = l2
    Users = {u1, u2}
    House = House
    Losses = {l1, l2}
    Lost <- MCLost
    Skims = {2, 5}
    MintParams <- MCParams
    MaxSkimmed = 9
    MaxChanges = 3
    MaxStaked = 4
    AccScale = 4
    UsdcOne = 2
    Unit = 12
INVARIANTS
    TypeOK
    ProRata
CHECK_DEADLOCK FALSE
