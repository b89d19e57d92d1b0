SPECIFICATION FairSpec
CONSTANTS
    a1 = a1
    a2 = a2
    Accounts = {a1, a2}
    Funders <- Opposed
    Rates <- TwoRates
    BasePrice = 4
    CurveK = 2
    Scale = 30
    Horizon = 1
    MaxQueue = 2
    MaxTime = 4
    LastFund = 1
    LastResolve = 2
    MaxSteps = 1
    CycleSecs = 2
    HasTreasury = TRUE
    SkimPercent = 50
    DryRepeg = FALSE
INVARIANTS
    PotIsDelivered
    WinnersShareThePot
    OverageIsStreamed
PROPERTIES
    SettlementIsFinal
    WinnersArePaid
CHECK_DEADLOCK FALSE
