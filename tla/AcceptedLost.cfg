SPECIFICATION Spec
CONSTANTS
    r1 = r1
    r2 = r2
    r3 = r3
    o1 = o1
    o2 = o2
    k1 = k1
    Requests <- ThreeRequests
    Owners <- OneOwner
    Keys <- OneKey
    Shapes <- ArxivOnly
    None = None
    MaxConcurrent = 1
    MaxInFlight = 2
    MaxCrashes = 0
SYMMETRY RequestSymmetry
INVARIANT
    AcceptedIsSent
