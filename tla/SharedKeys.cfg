SPECIFICATION FairSpec
CONSTANTS
    p1 = p1
    p2 = p2
    k1 = k1
    k2 = k2
    k3 = k3
    w1 = w1
    w2 = w2
    None = None
    Papers <- TwoPapers
    Keys <- ThreeKeys
    Histories <- SharedHistory
    Workers <- TwoWorkers
    Statuses <- SomeStatuses
    MaxFaults = 0
INVARIANT
    LatestInDify
