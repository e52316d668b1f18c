\* A refresh takes at most one layer by itself: the rest is left over
SPECIFICATION FairSpec
CONSTANTS
    NB = 2
    NP = 2
    NLayers = 1
    NQ = 2
    DayQueues = 1
    MaxRefreshLayer = 1
    BackgroundRatio = 1
    GroupingMode = 0
    GroupingSize = 1
    Segment = 1
    MaxValid = 2
    MaxQueued = 2
INVARIANTS DataCovered LayerFound
PROPERTIES DataRefreshed
CHECK_DEADLOCK FALSE
