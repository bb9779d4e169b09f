SPECIFICATION Spec

CONSTANTS
    j1 = j1
    j2 = j2
    w1 = w1
    w2 = w2
    c1 = c1
    c2 = c2
    r1 = r1
    r2 = r2
    r3 = r3
    None = None
    Sweep = Sweep
    Runs <- TwoRuns
    Jobs <- TwoJobs
    Uploads <- TwoJobs
    Undeletable <- OnlyJ2
    Workers <- OneWorker
    Cancels <- NoCancel
    Outcomes <- NamedOutcomes
    KeyAtStart <- KeyEither
    Sweeps = 1
    StreamMayEndEarly = TRUE
    StartMaxAttempts = 2
    ReconnectMaxAttempts = 1
    MaxCrashes = 1
    MaxRedeliveries = 0

INVARIANTS
    TypeOK
    NoFileLeftBehind
    RunCarriesFile
    StartErrorMeansNoRun

PROPERTIES
    NoSecondRun
    FinalIsFinal
    ImplementsLifecycle
