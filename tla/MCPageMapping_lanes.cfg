\* A lane whose block was reclaimed
SPECIFICATION Spec
CONSTANTS
    NB = 7
    NP = 2
    NL = 2
    NLB = 1
    NU = 1
    RandomTweak = FALSE
    NLayers = 2
    GCThreshold = 3
    ReclaimBlocks = 1
    ReclaimTarget = 3
    GCMode = 0
    EvictPolicy = "GREEDY"
    DChoice = 1
    RecoParam = 1
    BadBlock = 5
    FillPages = 1
    InvalidPages = 1
    FillMode = 0
    FormatRanges <- NoFormat
    MaxRefreshLayer = 0
    d1 = d1
    d2 = d2
    Data = {d1}
INVARIANTS LanesInUse
CHECK_DEADLOCK FALSE
