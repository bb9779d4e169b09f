SPECIFICATION Spec
CONSTANTS
    p1 = p1
    p2 = p2
    Papers <- TwoPapers
    Parts <- SomeParts
    Uids <- SomeUids
    Relations <- SomeRelations
    ALLOWED_RELATIONS <- OnlyR
    Labels <- TwoLabels
    Evidence <- SomeEvidence
    Confidences <- SomeConfidences
    NodeLists <- SomeNodeLists
    EdgeLists <- SomeEdgeLists
    EdgeKeyUnique = TRUE
    MaxSyncs = 3
INVARIANTS
    CompletedIsThere
    EdgesOnce
PROPERTY
    OthersUntouched
