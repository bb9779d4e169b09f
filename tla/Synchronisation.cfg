SPECIFICATION Spec
CONSTANTS
    r1 = r1
    r2 = r2
    r3 = r3
    r4 = r4
    p1 = p1
    p2 = p2
    a = a
    b = b
    c = c
    w1 = w1
    w2 = w2
    Requests <- TwoRequests
    Papers <- OnePaper
    Contents <- TwoContents
    Clashing = {}
    WithDocuments <- TwoContents
    WithGraph <- OnlyB
    EnableDify = TRUE
    EnableNeo4j = TRUE
    None = None
    MaxAttempts = 1
    Workers <- TwoWorkers
    Documents <- FourDocuments
    MaxFailures = 1
    MaxInterruptions = 1
SYMMETRY RequestSymmetry
INVARIANTS
    CompletedMeansSent
    RecordsTrue
    GraphRecordsTrue
    StatusHonest
    NoneForgotten
