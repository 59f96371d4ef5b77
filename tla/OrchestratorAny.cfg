SPECIFICATION FairSpec
CONSTANTS
    Process = {p1, p2}
    Gone = Gone
    TTL = 2
    Threshold = 1
    Recovery = 1
    MaxStops = 1
    QueueOverload = 2
    BatchSize = 1
    BacklogWarn = 2
    MaxRunning = 2
    MaxRebuildAttempts = 1
    MaxActions = 3
    SomeMetrics <- MCMetrics
    SomeSettings <- MCSettings
INVARIANTS OneCycle CyclesKeepPolicy
PROPERTY LeaseIsRecovered
