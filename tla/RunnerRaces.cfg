SPECIFICATION Spec

CONSTANTS
    j1 = j1
    j2 = j2
    w1 = w1
    w2 = w2
    c1 = c1
    c2 = c2
    r1 = r1
    r2 = r2
    r3 = r3
    None = None
    Sweep = Sweep
    Runs <- TwoRuns
    Jobs <- OneJob
    Uploads <- OneJob
    Undeletable <- NoJob
    Workers <- TwoWorkers
    Cancels <- OneCancel
    Outcomes <- OnlySuccess
    KeyAtStart <- KeySet
    Sweeps = 0
    StreamMayEndEarly = TRUE
    StartMaxAttempts = 1
    ReconnectMaxAttempts = 1
    MaxCrashes = 0
    MaxRedeliveries = 1

SYMMETRY WorkerSymmetry

INVARIANTS
    NoFileLeftBehind
    ResultReadable
    FailureExplained
    CancelledRunStopped
