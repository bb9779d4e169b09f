SPECIFICATION Spec
CONSTANTS
    r1 = r1
    r2 = r2
    r3 = r3
    r4 = r4
    p1 = p1
    p2 = p2
    a = a
    b = b
    c = c
    w1 = w1
    w2 = w2
    Requests <- ThreeRequests
    Papers <- OnePaper
    Contents <- TwoContents
    Clashing = {}
    WithDocuments <- TwoContents
    WithGraph <- OnlyB
    EnableDify = FALSE
    EnableNeo4j = FALSE
    None = None
    MaxAttempts = 2
    Workers <- OneWorker
    Documents <- FourDocuments
    MaxFailures = 0
    MaxInterruptions = 0
SYMMETRY RequestSymmetry
INVARIANT
    RepeatIsExisting
