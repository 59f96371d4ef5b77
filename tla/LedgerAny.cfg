SPECIFICATION Spec
CONSTANTS
    None = None
    FinanceTokens <- MCFinanceTokens
    StockTokens <- MCStockTokens
    Internal <- MCInternal
    Report = {"old", "new"}
    Books <- MCBooks
    CostTables <- MCCostTables
    CreatedOn <- MCCreatedOn
    Today = 3
    ChunkSize = 2
    MaxTries = 2
    MaxEdits = 1
    MaxScripts = 1
INVARIANTS
    LedgerIsWhole
    SumsAreWhole
    BuildersAgree
    CompletedIsDrawn
CHECK_DEADLOCK FALSE
