SPECIFICATION ReadingSpec
CONSTANTS
    None = None
    Holds <- MCHolds
    JsonRank <- MCJsonRank
    Files <- MCFiles
    CreatedOn = 2
    MaxScan = 4
    ChunkSize = 2
    FinanceTokens <- MCFinanceTokens
    StockTokens <- MCStockTokens
    Internal <- MCInternal
INVARIANTS
    ChunkingIsInvisible
    ReadersAgree
    UploadForetells
    NoAmountTwice
CHECK_DEADLOCK FALSE
