\* Two lanes, formats of any range, refresh-aware victims, blocks that wear out
SPECIFICATION FairSpec
CONSTANTS
    NB = 4
    NP = 2
    NL = 2
    NLB = 1
    NU = 1
    RandomTweak = FALSE
    NLayers = 1
    GCThreshold = 1
    ReclaimBlocks = 1
    ReclaimTarget = 2
    GCMode = 1
    EvictPolicy = "RECO"
    DChoice = 1
    RecoParam = 1
    BadBlock = 3
    FillPages = 1
    InvalidPages = 1
    FillMode = 2
    FormatRanges <- AnyFormat
    MaxRefreshLayer = 1
    d1 = d1
    d2 = d2
    Data = {d1, d2}
INVARIANTS FreeListExact
PROPERTIES HandlersEnd
CHECK_DEADLOCK FALSE
