\* One lane, whole pages, sampled victims, sequential filling
SPECIFICATION Spec
CONSTANTS
    NB = 4
    NP = 2
    NL = 1
    NLB = 1
    NU = 1
    RandomTweak = FALSE
    NLayers = 2
    GCThreshold = 1
    ReclaimBlocks = 1
    ReclaimTarget = 2
    GCMode = 0
    EvictPolicy = "DCHOICE"
    DChoice = 1
    RecoParam = 1
    BadBlock = 2
    FillPages = 2
    InvalidPages = 1
    FillMode = 0
    FormatRanges <- NoFormat
    MaxRefreshLayer = 1
    d1 = d1
    d2 = d2
    Data = {d1, d2}
SYMMETRY Symmetry
INVARIANTS TypeOK FreeListExact VictimsEmpty
PROPERTIES ContentKept RefinesStore
CHECK_DEADLOCK FALSE
