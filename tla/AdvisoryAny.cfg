SPECIFICATION BothSpec
CONSTANTS
    Slot = {s1, s2}
    Client = {k1, k2}
    Contents <- MCContents
    Texts = {t1}
    Nothing = Nothing
    ReportOf <- MCReportOf
    CompareOf <- MCCompareOf
    DayCap = 1
    RunCap = 1
    MaxCost = 2
    LastDay = 2
    Figures <- MCFigures
    MaxActs = 4
    MaxRecs = 3
    Decisions = {"complete", "snooze", "tag"}
SYMMETRY Symmetric
INVARIANTS SpendIsBounded CopiesAreBounded DecisionStands LeadIsBalanced
CHECK_DEADLOCK FALSE
