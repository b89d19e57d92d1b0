SPECIFICATION Spec
CONSTANTS
    a1 = a1
    a2 = a2
    Accounts = {a1, a2}
    Funders <- OneSide
    BasePrice = 4
    CurveK = 2
    Scale = 30
    Rates <- TwoRates
    Horizon = 2
    MaxQueue = 3
    MaxTime = 3
    LastFund = 3
    LastResolve = 3
    MaxSteps = 1
    CycleSecs = 2
    HasTreasury = FALSE
    SkimPercent = 0
    DryRepeg = FALSE
INVARIANTS
    TypeOK
    NeverPastDrop
    PoolIsDelivered
    LossIsDelivered
    SharesConserved
    OnlyTimeEarns
    PreviewAgrees
PROPERTIES
    BacklogShrinks
CHECK_DEADLOCK FALSE
