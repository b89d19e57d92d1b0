SPECIFICATION Spec
CONSTANTS
    t1 = t1
    s1 = s1
    s2 = s2
    v1 = v1
    v2 = v2
    Accounts = {t1, s1, s2}
    Vaults = {v1, v2}
    SeedAccount <- SeedOf
    Watched = {v1}
    Offers <- YesSeeds
    Wanted <- BothSides
    Deposits = {3}
    MaxBalance = 4
    MaxQueue = 2
    MaxTime = 4
    LastCreate = 1
    LastFund = 3
    MaxCalls = 3
    MaxSteps = 2
    DryFunding = TRUE
    BasePrice = 4
    CurveK = 2
    Scale = 1
INVARIANTS
    PoolIsStreamed
CHECK_DEADLOCK FALSE
