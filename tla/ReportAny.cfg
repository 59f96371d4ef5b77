SPECIFICATION Spec
CONSTANTS
    f1 = f1
    f2 = f2
    d1 = d1
    d2 = d2
    File = {f1, f2}
    Date = {d1, d2}
    DatesOf <- Overlapping
    Report = {r1, r2, r3}
    u1 = u1
    u2 = u2
    u3 = u3
    Upload = {u1, u2, u3}
    FileOf <- MCFileOf
    Name = {f1, f2}
    NameOf <- MCNameOf
    Worker = {w1, w2}
    Handler = {h1}
    Chunks = 1
    MaxTries = 1
    MaxEdits = 1
    None = None
INVARIANTS UploadsAreServed CompletedIsCounted CostIsCurrent
PROPERTY FinishedIsFinal
SYMMETRY Symmetric
CHECK_DEADLOCK FALSE
