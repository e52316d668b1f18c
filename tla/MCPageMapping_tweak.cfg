\* Two units per page mapped apart, cost-benefit victims
SPECIFICATION Spec
CONSTANTS
    NB = 3
    NP = 2
    NL = 1
    NLB = 1
    NU = 2
    RandomTweak = TRUE
    NLayers = 1
    GCThreshold = 1
    ReclaimBlocks = 1
    ReclaimTarget = 2
    GCMode = 0
    EvictPolicy = "COST_BENEFIT"
    DChoice = 1
    RecoParam = 1
    BadBlock = 3
    FillPages = 0
    InvalidPages = 0
    FillMode = 0
    FormatRanges <- NoFormat
    MaxRefreshLayer = 1
    d1 = d1
    d2 = d2
    Data = {d1}
INVARIANTS MappingConsistent WriteFrontier PanicsExplained
PROPERTIES WearOrder
CHECK_DEADLOCK FALSE
