SPECIFICATION Spec
CONSTANTS
    MinConfidence = 5500
    MaxPositions = 12
    MaxCapital = 250000
    MaxDailyLoss = 50000
    MaxExposure = 20
    Restricted = {}
    MinVolume = 100000
    MaxSpread = 150
    AssetClass <- MCAssetClass
    Markets <- MCMarkets
    OwnVerdicts <- MCOwnVerdicts
    Requests <- MCRequests
    Wallet = Wallet
    OpeningBalance = 90000
    DefaultBudget = 50000
    AutoBudget = TRUE
    FillSizes <- MCFillSizes
    MaxRecs = 3
    MaxLots = 2
CHECK_DEADLOCK FALSE
INVARIANTS
    TypeOK
    ChainVerdict
    BudgetRespected
    TrimWithinHolding
    HoldNeverOutranksBuy
PROPERTIES
    PlanActionable
