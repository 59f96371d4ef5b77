SPECIFICATION AnchoredSpec
CONSTANTS
    a = a
    b = b
    c = c
    t1 = t1
    Tenant = {t1}
    Report = {a, b, c}
    Day = {1, 2, 3}
    DaysOf <- MCDaysOf
    TenantOf <- MCTenantOf
    Orchestrator = {o1, o2}
    Anchor = {a, c}
    PersistAttempts <- OncePerReport
    MaxAttempts = 2
    RetryBase = 1
    RetryCap = 1
    DeferBusy = 1
    StaleAfter = 0
    EscalateAfter = 2
    BatchSize = 2
    NoReport = NoReport
SYMMETRY OrchestratorSymmetry
INVARIANTS
    NothingLost
    QuiescentIsExact
CHECK_DEADLOCK FALSE
