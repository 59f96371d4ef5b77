SPECIFICATION FairSpec
CONSTANTS
    a = a
    b = b
    c = c
    t1 = t1
    Tenant = {t1}
    Report = {a, b, c}
    Day = {1, 2, 3}
    DaysOf <- LoneDaysOf
    TenantOf <- MCTenantOf
    Orchestrator = {o1}
    Anchor = {a}
    PersistAttempts <- TwiceTheFirst
    MaxAttempts = 2
    RetryBase = 1
    RetryCap = 2
    DeferBusy = 1
    StaleAfter = 0
    EscalateAfter = 2
    BatchSize = 2
    NoReport = NoReport
PROPERTIES
    SettledStays
    EventuallyRebuilt
CHECK_DEADLOCK FALSE
