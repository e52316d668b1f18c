\* Two slots, pages of two lines, all modes of the cache.
SPECIFICATION Spec
CONSTANTS
    Units = 2
    Parallel = 2
    Lines = 4
    Data = {d1}
    Ranges <- SomeRanges
    Configurations <- SomeConfigurations
    None = None
    Stray = Stray
INVARIANTS LinesUnique NotCorrupted CleanLinesAgree
PROPERTIES WriteCacheKeepsData
