SPECIFICATION Spec
CONSTANTS
    j1 = j1
    j2 = j2
    u1 = u1
    u2 = u2
    Job = {j1, j2}
    Worker = {w1, w2}
    Operator = {o1}
    User = {u1, u2}
    UserOf <- MCUserOf
    MaxAttempts = 2
    VisibilityTimeout = 1
    RetryBase = 1
    RetryCap = 2
    MaxReplays = 1
    NoJob = NoJob
INVARIANTS
    CompletedHasResult
SYMMETRY WorkerSymmetry
