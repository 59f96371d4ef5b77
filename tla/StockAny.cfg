SPECIFICATION StockSpec
CONSTANTS
    Report = {"early", "mid", "late", "recarded"}
    Moves <- MCMoves
    Periods <- MCPeriods
    MaxActs = 7
INVARIANTS ShelvesAreReplayed DriftIsSeen PagesAgree
CHECK_DEADLOCK FALSE
