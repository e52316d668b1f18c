\* Hot, cool and cold lanes, every reclaimed block reused
SPECIFICATION FairSpec
CONSTANTS
    NB = 7
    NHot = 3
    NP = 2
    NL = 1
    NLPN = 2
    NLayers = 2
    Cooldown = 1
    HotThreshold = 1
    ColdThreshold = 2
    ReclaimBlocks = 1
    GCMode = 0
    HotTarget = 1
    ColdTarget = 2
    EvictPolicy = "GREEDY"
    BadBlock = 3
    ColdFill = 1
    HotFill = 1
    MaxRefreshLayer = 1
    d1 = d1
    d2 = d2
    Data = {d1, d2}
INVARIANTS MappingConsistent PoolsKept WindowsExact NoCorruption
PROPERTIES HandlersEnd RefinesStore
CHECK_DEADLOCK FALSE
