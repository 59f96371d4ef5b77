SPECIFICATION Spec
CONSTANTS
    None = None
    FinanceTokens <- MCNoTokens
    StockTokens <- MCNoTokens
    Internal <- MCInternal
    Report = {"week", "again", "part", "next"}
    Book <- MCBook
    Starts <- MCStarts
    CostTables <- MCCostTables
    Pages <- MCPages
    MaxEvents = 2
INVARIANTS
    SelectionIsCover
    OneDashboardOneTruth
    SurfacesAddUp
    GovernedIsExact
PROPERTY
    EveryoneIsAnswered
CHECK_DEADLOCK FALSE
